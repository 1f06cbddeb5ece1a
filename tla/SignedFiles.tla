----------------------------- MODULE SignedFiles -----------------------------
(***************************************************************************)
(* The signed files and the processes that write them: state.key           *)
(* (brake/state/crypto.py), state.json and state.initialized               *)
(* (brake/state/store.py, first_run.py), recovery.json                     *)
(* (brake/state/recovery.py) and incidents.json (brake/incident_memory.py).*)
(*                                                                         *)
(* The bridge of the desktop app bootstraps, the service changes and       *)
(* repairs the record, and the watcher counts lockouts.  Each is one       *)
(* process here, the electron shell queues its calls of the bridge, and    *)
(* every access of a file is a step of its own.  os.replace is atomic and, *)
(* except for the key, the content comes from the process that calls it.   *)
(***************************************************************************)
EXTENDS Naturals, FiniteSets

CONSTANTS
    Window,        \* INCIDENT_WINDOW_SECONDS
    MaxTime,       \* bound of the clock
    MaxLockouts,   \* bound of the lockouts
    MaxFaults,     \* bound of crashes and failed calls
    MaxLosses      \* bound of deleted and damaged files

Cap == 3           \* MULTIPLIER_CAP

ASSUME FilesAssumption ==
    /\ Window \in Nat /\ MaxTime \in Nat /\ MaxLockouts \in Nat
    /\ MaxFaults \in Nat /\ MaxLosses \in Nat

VARIABLES
    now,       \* the clock
    key,       \* state.key: a key, NoKey if there is none
    keyTmp,    \* state.key.tmp, which every creator of a key shares
    made,      \* how many keys were made: a new one is none of the old
    state,     \* state.json
    marker,    \* state.initialized exists
    recovery,  \* recovery.json
    ledger,    \* incidents.json
    proc,      \* the processes
    faults,
    lost,      \* history: the files that were deleted or damaged
    wasOn,     \* history: a save of protection that is on has returned
    lockouts   \* history: the lockouts so far, as the ledger counts them

files == <<key, keyTmp, made, state, marker, recovery, ledger>>
vars == <<now, files, proc, faults, lost, wasOn, lockouts>>

NoKey == 0
Processes == {"bridge", "service", "watcher"}

\* A signed file: which key it is signed with, when it was written and which
\* incidents it lists (of incidents.json only), whether protection is on in it
\* (of state.json only).  A file that does not parse is "bad".
File(kind, k, at, on, incidents) ==
    [kind |-> kind, key |-> k, at |-> at, on |-> on, incidents |-> incidents]

NoFile == File("none", NoKey, 0, FALSE, {})

\* What a process does: its step, the command it carries out, the key it
\* holds, the file it has read, and what it is about to write: the switch, or
\* the incidents it counted and the time it takes for now.
Idle == [pc |-> "idle", op |-> "none", key |-> NoKey, read |-> NoFile,
         on |-> FALSE, count |-> 0, at |-> 0]

Init ==
    /\ now = 0
    /\ key = NoKey /\ keyTmp = NoKey /\ made = 0
    /\ state = NoFile /\ marker = FALSE /\ recovery = NoFile /\ ledger = NoFile
    /\ proc = [p \in Processes |-> Idle]
    /\ faults = 0 /\ lost = {} /\ wasOn = FALSE /\ lockouts = {}

Verifies(file, k) == file.kind = "ok" /\ file.key = k

At(p, pc) == proc[p].pc = pc

Goes(p, next) == proc' = [proc EXCEPT ![p] = next]

history == <<lost, wasOn, lockouts>>

Fault == faults < MaxFaults /\ faults' = faults + 1

-----------------------------------------------------------------------------
(* load_or_create_hmac_key, which every process runs each time it signs or *)
(* verifies.  (A key that cannot be unwrapped raises: Crash.)              *)

\* Mutant: a new key is made whether or not there is one.
KeyThereNever == FALSE

KeyThere == key # NoKey

GetKey(p) ==
    /\ At(p, "key")
    /\ IF KeyThere
       THEN /\ Goes(p, [proc[p] EXCEPT !.pc = "keyed", !.key = key])
            /\ UNCHANGED made
       ELSE /\ made' = made + 1
            /\ Goes(p, [proc[p] EXCEPT !.pc = "newkey", !.key = made'])
    /\ UNCHANGED <<now, key, keyTmp, state, marker, recovery, ledger, faults,
                   history>>

WriteKey(p) ==
    /\ At(p, "newkey")
    /\ keyTmp' = proc[p].key
    /\ Goes(p, [proc[p] EXCEPT !.pc = "putkey"])
    /\ UNCHANGED <<now, key, made, state, marker, recovery, ledger, faults,
                   history>>

\* os.replace puts what is in the temporary file now; if another creator has
\* moved it away, it raises.
PutKey(p) ==
    /\ At(p, "putkey")
    /\ IF keyTmp = NoKey
       THEN Goes(p, Idle) /\ UNCHANGED key
       ELSE key' = keyTmp /\ Goes(p, [proc[p] EXCEPT !.pc = "keyed"])
    /\ keyTmp' = NoKey
    /\ UNCHANGED <<now, made, state, marker, recovery, ledger, faults, history>>

KeyStep(p) == GetKey(p) \/ WriteKey(p) \/ PutKey(p)

\* p holds the key for command op.
Keyed(p, op) == At(p, "keyed") /\ proc[p].op = op

-----------------------------------------------------------------------------
(* StateStore.save, after the key. *)

\* Mutant: the marker is written only by the bootstrap.
MarksAtBootstrap(p) == proc[p].op = "bootstrap"

Marks(p) == TRUE

\* state.json is replaced.
ReplaceState(p, on) ==
    /\ state' = File("ok", proc[p].key, 0, on, {})
    /\ Goes(p, [Idle EXCEPT !.pc = "marking", !.op = proc[p].op, !.on = on])
    /\ UNCHANGED <<now, key, keyTmp, made, marker, recovery, ledger, faults,
                   history>>

\* And state.initialized written.
WriteMarker(p) ==
    /\ At(p, "marking")
    /\ marker' = (marker \/ Marks(p))
    /\ wasOn' = (wasOn \/ proc[p].on)
    /\ IF proc[p].op = "bootstrap"
       THEN Goes(p, [Idle EXCEPT !.pc = "recovery"])
       ELSE Goes(p, Idle)
    /\ UNCHANGED <<now, key, keyTmp, made, state, recovery, ledger, faults,
                   lost, lockouts>>

-----------------------------------------------------------------------------
(* The bridge: ensure-recovery, which bootstraps the state and generates   *)
(* the recovery code, and the calls of the service, which sign a request.  *)

\* ensure_first_run_state: store.exists().
EnsureRecovery ==
    /\ At("bridge", "idle")
    /\ Goes("bridge", [Idle EXCEPT
           !.pc = IF state.kind = "none" THEN "checking" ELSE "recovery"])
    /\ UNCHANGED <<now, files, faults, history>>

\* check_no_deletion_bypass: a state that is gone after it existed.
Deleted == state.kind = "none" /\ marker

CheckDeletion ==
    /\ At("bridge", "checking")
    /\ Goes("bridge", IF Deleted THEN Idle
                      ELSE [Idle EXCEPT !.pc = "key", !.op = "bootstrap"])
    /\ UNCHANGED <<now, files, faults, history>>

Bootstrap == Keyed("bridge", "bootstrap") /\ ReplaceState("bridge", FALSE)

\* The code is generated unless recovery.json is there, in whatever state.
CheckRecovery ==
    /\ At("bridge", "recovery")
    /\ Goes("bridge", IF recovery.kind # "none" THEN Idle
                      ELSE [Idle EXCEPT !.pc = "key", !.op = "generate"])
    /\ UNCHANGED <<now, files, faults, history>>

Generate ==
    /\ Keyed("bridge", "generate")
    /\ recovery' = File("ok", proc["bridge"].key, 0, FALSE, {})
    /\ Goes("bridge", Idle)
    /\ UNCHANGED <<now, key, keyTmp, made, state, marker, ledger, faults,
                   history>>

\* Any other call of the bridge signs its request of the service.
Sign ==
    \/ /\ At("bridge", "idle")
       /\ Goes("bridge", [Idle EXCEPT !.pc = "key", !.op = "sign"])
       /\ UNCHANGED <<now, files, faults, history>>
    \/ /\ Keyed("bridge", "sign")
       /\ Goes("bridge", Idle)
       /\ UNCHANGED <<now, files, faults, history>>

BridgeStep == \/ EnsureRecovery \/ CheckDeletion \/ Bootstrap
              \/ CheckRecovery \/ Generate \/ Sign

-----------------------------------------------------------------------------
(* The service: a command loads the state and saves it, or repairs it.     *)

\* StateStore.load up to the key, which only a file that parses asks for;
\* without a state there is nothing to change.
Load(on) ==
    /\ At("service", "idle")
    /\ state.kind # "none" \/ Deleted
    /\ Goes("service",
            IF state.kind = "ok"
            THEN [Idle EXCEPT !.pc = "key", !.op = "load", !.read = state, !.on = on]
            ELSE [Idle EXCEPT !.pc = "refused"])
    /\ UNCHANGED <<now, files, faults, history>>

\* What was read verifies, and the command saves.
Loaded ==
    /\ Keyed("service", "load")
    /\ LET s == proc["service"]
       IN  Goes("service", IF Verifies(s.read, s.key)
                           THEN [Idle EXCEPT !.pc = "key", !.op = "change", !.on = s.on]
                           ELSE [Idle EXCEPT !.pc = "refused"])
    /\ UNCHANGED <<now, files, faults, history>>

\* Or it does not, and only reset_password goes on, to the recovery code.
Refused ==
    /\ At("service", "refused")
    /\ \/ Goes("service", Idle)
       \/ /\ recovery.kind = "ok"
          /\ Goes("service", [Idle EXCEPT
                 !.pc = "key", !.op = "verify", !.read = recovery])
    /\ UNCHANGED <<now, files, faults, history>>

\* The code is right, if its file verifies; a protected state replaces it.
VerifyCode ==
    /\ Keyed("service", "verify")
    /\ LET s == proc["service"]
       IN  \/ Goes("service", Idle)
           \/ /\ Verifies(s.read, s.key)
              /\ Goes("service", [Idle EXCEPT !.pc = "key", !.op = "repair",
                                              !.on = TRUE])
    /\ UNCHANGED <<now, files, faults, history>>

Save ==
    /\ Keyed("service", "change") \/ Keyed("service", "repair")
    /\ ReplaceState("service", proc["service"].on)

ServiceStep == \/ \E on \in BOOLEAN : Load(on)
               \/ Loaded \/ Refused \/ VerifyCode \/ Save

-----------------------------------------------------------------------------
(* The watcher: a full lockout is scaled by the incidents before it.       *)

\* Mutant: an incident exactly one window old is forgotten.
RecentOpen(i, at) == i.at + Window > at

Recent(i, at) == i.at + Window >= at

\* The watcher runs where protection is on, or the state cannot be trusted.
Runs == Deleted \/ (state.kind # "none" /\ (Verifies(state, key) => state.on))

\* recent_count and then record each read the ledger.
ReadLedger(op) ==
    IF ledger.kind = "none"
    THEN [Idle EXCEPT !.pc = "keyed", !.op = op, !.at = now]
    ELSE [Idle EXCEPT !.pc = "key", !.op = op, !.read = ledger, !.at = now]

Detect ==
    /\ At("watcher", "idle") /\ Runs
    /\ Cardinality(lockouts) < MaxLockouts
    /\ Goes("watcher", ReadLedger("count"))
    /\ UNCHANGED <<now, files, faults, history>>

\* An unreadable ledger that has not been written for a window is cleared.
Stale(file) == file.at + Window < now

Readable(w) == w.read.kind = "none" \/ Verifies(w.read, w.key)

\* Mutant: the multiplier is returned, one more than the count.
CountedInclusive(w) ==
    IF Readable(w) THEN Cardinality({i \in w.read.incidents : Recent(i, w.at)}) + 1
    ELSE Cap + 1

Counted(w) ==
    CASE Readable(w) -> Cardinality({i \in w.read.incidents : Recent(i, w.at)})
      [] ~Readable(w) /\ Stale(w.read) -> 0
      [] OTHER -> Cap

Clears(w) == IF ~Readable(w) /\ Stale(w.read) THEN NoFile ELSE ledger

Count ==
    /\ Keyed("watcher", "count")
    /\ LET w == proc["watcher"]
       IN  /\ ledger' = Clears(w)
           /\ Goes("watcher", [Idle EXCEPT !.pc = "recording", !.count = Counted(w)])
    /\ UNCHANGED <<now, key, keyTmp, made, state, marker, recovery, faults,
                   history>>

Record ==
    /\ At("watcher", "recording")
    /\ Goes("watcher", [ReadLedger("record") EXCEPT
                          !.count = proc["watcher"].count])
    /\ UNCHANGED <<now, files, faults, history>>

Incident(w) == [n |-> Cardinality(lockouts) + 1, at |-> w.at]

\* What was unreadable is forgotten.
Kept(w) == IF Readable(w) THEN {i \in w.read.incidents : Recent(i, w.at)} ELSE {}

\* The incidents to save; _save asks for the key once more.
Append ==
    /\ Keyed("watcher", "record")
    /\ LET w == proc["watcher"]
       IN  /\ ledger' = Clears(w)
           /\ Goes("watcher",
                [w EXCEPT !.pc = "key", !.op = "save", !.key = NoKey,
                          !.read = File("ok", NoKey, 0, FALSE,
                                        Kept(w) \cup {Incident(w)})])
    /\ UNCHANGED <<now, key, keyTmp, made, state, marker, recovery, faults,
                   history>>

\* The ledger is replaced; a save that fails is logged and passed over.
SaveLedger ==
    /\ Keyed("watcher", "save")
    /\ LET w == proc["watcher"]
       IN  /\ \/ /\ ledger' = [w.read EXCEPT !.key = w.key, !.at = now]
                 /\ UNCHANGED <<faults, lost>>
              \/ /\ Fault
                 /\ lost' = lost \cup {"ledger"}
                 /\ UNCHANGED ledger
           /\ Goes("watcher", [Idle EXCEPT !.pc = "locking", !.count = w.count])
           /\ lockouts' = lockouts \cup w.read.incidents
    /\ UNCHANGED <<now, key, keyTmp, made, state, marker, recovery, wasOn>>

\* The lockout starts, min(count + 1, Cap) times as long as it is set to be.
Lock ==
    /\ At("watcher", "locking")
    /\ Goes("watcher", Idle)
    /\ UNCHANGED <<now, files, faults, history>>

WatcherStep == Detect \/ Count \/ Record \/ Append \/ SaveLedger \/ Lock

-----------------------------------------------------------------------------
(* Time, faults and losses. *)

Tick ==
    /\ now < MaxTime
    /\ now' = now + 1
    /\ UNCHANGED <<files, proc, faults, history>>

\* The process dies, the shell's five seconds for the bridge are over, or a
\* call fails and raises: what is written stays, what was to come does not.
Crash(p) ==
    /\ ~At(p, "idle")
    /\ Fault
    /\ Goes(p, Idle)
    /\ UNCHANGED <<now, files, history>>

\* What a loss at a time leaves of a file.
Remains(at) == {NoFile, File("bad", NoKey, at, FALSE, {})}

\* A file is deleted or damaged, each at most once.  (Not the key: without it
\* no reader trusts any of the others.  Nor the marker: deleting it as well is
\* the documented way to start from nothing.)
Lose(file) ==
    /\ file \notin lost /\ Cardinality(lost) < MaxLosses
    /\ lost' = lost \cup {file}
    /\ \/ /\ file = "state" /\ state.kind = "ok"
          /\ state' \in Remains(0) /\ UNCHANGED <<recovery, ledger>>
       \/ /\ file = "recovery" /\ recovery.kind = "ok"
          /\ recovery' \in Remains(0) /\ UNCHANGED <<state, ledger>>
       \/ /\ file = "ledger" /\ ledger.kind = "ok"
          /\ ledger' \in Remains(now) /\ UNCHANGED <<state, recovery>>
    /\ UNCHANGED <<now, key, keyTmp, made, marker, proc, faults, wasOn, lockouts>>

Next ==
    \/ \E p \in Processes : KeyStep(p) \/ WriteMarker(p) \/ Crash(p)
    \/ BridgeStep \/ ServiceStep \/ WatcherStep
    \/ Tick
    \/ \E file \in {"state", "recovery", "ledger"} : Lose(file)

Spec == Init /\ [][Next]_vars

-----------------------------------------------------------------------------
(* Correctness. *)

FileType == [kind : {"none", "ok", "bad"}, key : Nat, at : Nat, on : BOOLEAN,
             incidents : SUBSET [n : Nat, at : Nat]]

TypeOK ==
    /\ now \in Nat
    /\ key \in Nat /\ keyTmp \in Nat /\ made \in Nat
    /\ {key, keyTmp} \subseteq 0..made
    /\ state \in FileType /\ recovery \in FileType /\ ledger \in FileType
    /\ marker \in BOOLEAN /\ wasOn \in BOOLEAN
    /\ \A p \in Processes :
          /\ proc[p].key \in 0..made
          /\ proc[p].read \in FileType
          /\ proc[p].count \in 0..MaxLockouts \cup {Cap}
          /\ proc[p].at \in 0..now
    /\ faults \in 0..MaxFaults
    /\ lost \subseteq {"state", "recovery", "ledger"}
    /\ lockouts \subseteq [n : Nat, at : Nat]

\* Whatever is signed verifies: no crash between a file and the next, no second
\* creator of the key and no repair leaves a file that its readers refuse.
RecordsVerify ==
    \A file \in {state, recovery, ledger} :
        file.kind = "ok" => Verifies(file, key)

\* "Raise if state.json was deleted after it had existed" (store.py): once a
\* save of protection that is on has returned, the bootstrap finds no missing
\* record fresh, whatever crashed before or since and whichever process it
\* was that first completed a save.
DeletionNoticed ==
    [][At("bridge", "checking") /\ proc'["bridge"].pc = "key"
       => ~wasOn \/ state.kind # "none"]_vars

\* A repeated lockout is scaled by every one that was counted in the window
\* before it, whatever crashed between the steps of either.
RepeatsScale ==
    (At("watcher", "locking") /\ "ledger" \notin lost)
    => \/ proc["watcher"].count + 1 >= Cap
       \/ proc["watcher"].count + 1 >=
              Cardinality({i \in lockouts : i.at + Window >= now})
=============================================================================
