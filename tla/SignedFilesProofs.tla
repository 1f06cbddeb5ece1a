-------------------------- MODULE SignedFilesProofs --------------------------
(***************************************************************************)
(* Proofs about SignedFiles, for every window, cap of the clock, number of  *)
(* lockouts, of crashes and of lost files.                                 *)
(***************************************************************************)
EXTENDS SignedFiles, FiniteSetTheorems, TLAPS

USE FilesAssumption

\* What a process can be at.
ProcType ==
    [pc : {"idle", "key", "newkey", "putkey", "keyed", "marking", "recovery",
           "checking", "refused", "recording", "locking"},
     op : {"none", "bootstrap", "generate", "sign", "load", "change", "verify",
           "repair", "count", "record", "save"},
     key : 0..made, read : FileType, on : BOOLEAN,
     count : 0..MaxLockouts \cup {Cap}, at : 0..now]

TypeInv == TypeOK /\ proc \in [Processes -> ProcType]

\* A process that makes a key is the only one that asks for it, and one that
\* signs or verifies holds the key that is there.
KeyOk(r) ==
    /\ r.pc \in {"newkey", "putkey"} => key = NoKey /\ r.key # NoKey
    /\ r.pc = "putkey" => keyTmp = r.key
    /\ r.pc = "keyed" /\ (r.op \notin {"count", "record"} \/ r.read.kind # "none")
           => r.key = key /\ key # NoKey
    /\ r.pc = "marking" => key # NoKey

\* Before there is a key there is nothing else, and only the bridge runs.
BridgeFirst ==
    key = NoKey => /\ state.kind = "none" /\ recovery.kind = "none"
                   /\ ledger.kind = "none" /\ ~marker
                   /\ At("service", "idle") /\ At("watcher", "idle")

KeyInv ==
    /\ \A p \in Processes : KeyOk(proc[p])
    /\ BridgeFirst
    /\ RecordsVerify
    /\ wasOn => marker

-----------------------------------------------------------------------------
(* Types. *)

LEMMA KeyNone == NoKey = 0
BY DEF NoKey

LEMMA FileTypes ==
    ASSUME NEW kind \in {"none", "ok", "bad"}, NEW k \in Nat, NEW at \in Nat,
           NEW on \in BOOLEAN, NEW incidents \in SUBSET [n : Nat, at : Nat]
    PROVE  File(kind, k, at, on, incidents) \in FileType
BY DEF File, FileType

LEMMA NoFileType == NoFile \in FileType /\ NoFile.kind = "none" /\ NoFile.incidents = {}
BY KeyNone DEF NoFile, File, FileType

\* A process at rest is none of the others.
LEMMA IdleType ==
    ASSUME now \in Nat, made \in Nat
    PROVE  /\ Idle \in ProcType /\ Idle.pc = "idle" /\ Idle.op = "none"
           /\ Idle.key = 0 /\ Idle.read = NoFile /\ Idle.on = FALSE
           /\ Idle.count = 0 /\ Idle.at = 0
BY KeyNone, NoFileType DEF Idle, ProcType

\* One process goes on, and the others stay what they are.
LEMMA GoesType ==
    ASSUME TypeInv, NEW p \in Processes, NEW next, Goes(p, next),
           next \in ProcType', now' \in Nat, made' \in Nat, now <= now', made <= made'
    PROVE  /\ (proc \in [Processes -> ProcType])'
           /\ \A q \in Processes : /\ proc'[q].key \in 0..made'
                                   /\ proc'[q].read \in FileType
                                   /\ proc'[q].count \in 0..MaxLockouts \cup {Cap}
                                   /\ proc'[q].at \in 0..now'
<1>1. \A q \in Processes : proc[q] \in ProcType
  BY DEF TypeInv
<1>2. now \in Nat /\ made \in Nat
  BY DEF TypeInv, TypeOK
<1>3. ASSUME NEW r \in ProcType PROVE r \in ProcType'
  BY <1>2 DEF ProcType
<1>4. proc' = [proc EXCEPT ![p] = next]
  BY DEF Goes
<1>5. proc' \in [Processes -> ProcType']
  BY <1>1, <1>3, <1>4 DEF TypeInv
<1>6. \A q \in Processes : proc'[q] \in ProcType'
  BY <1>5
<1>. QED
  BY <1>5, <1>6 DEF ProcType

\* Types of the files and of the history.
FilesTyped ==
    /\ key \in 0..made /\ keyTmp \in 0..made
    /\ state \in FileType /\ recovery \in FileType /\ ledger \in FileType
    /\ marker \in BOOLEAN /\ wasOn \in BOOLEAN
    /\ faults \in 0..MaxFaults
    /\ lost \subseteq {"state", "recovery", "ledger"}
    /\ lockouts \subseteq [n : Nat, at : Nat]

LEMMA TypedFiles == TypeInv => FilesTyped /\ now \in Nat /\ made \in Nat
BY DEF TypeInv, TypeOK, FilesTyped

\* A step of one process keeps the types if what it writes has them.
LEMMA StepType ==
    ASSUME TypeInv, NEW p \in Processes, NEW next, Goes(p, next),
           next \in ProcType', FilesTyped',
           now' \in Nat, made' \in Nat, now <= now', made <= made'
    PROVE  TypeInv'
<1>1. /\ (proc \in [Processes -> ProcType])'
      /\ \A q \in Processes : /\ proc'[q].key \in 0..made'
                              /\ proc'[q].read \in FileType
                              /\ proc'[q].count \in 0..MaxLockouts \cup {Cap}
                              /\ proc'[q].at \in 0..now'
  BY GoesType
<1>2. {key, keyTmp}' \subseteq 0..made'
  BY DEF FilesTyped
<1>3. key' \in Nat /\ keyTmp' \in Nat
  BY DEF FilesTyped
<1>4. TypeOK'
  BY <1>1, <1>2, <1>3 DEF TypeOK, FilesTyped
<1>. QED
  BY <1>1, <1>4 DEF TypeInv

\* So does one that writes nothing.
LEMMA QuietType ==
    ASSUME TypeInv, NEW p \in Processes, NEW next \in ProcType, Goes(p, next),
           UNCHANGED <<now, made>>, FilesTyped'
    PROVE  TypeInv'
<1>1. next \in ProcType'
  BY DEF ProcType
<1>2. now \in Nat /\ made \in Nat
  BY TypedFiles
<1>. QED
  BY <1>1, <1>2, StepType

LEMMA FilesUnchanged ==
    ASSUME TypeInv, UNCHANGED <<files, faults, history>>
    PROVE  FilesTyped'
BY TypedFiles DEF FilesTyped, files, history

\* The fields of a process.
LEMMA ProcFields ==
    ASSUME TypeInv, NEW p \in Processes
    PROVE  /\ proc[p] \in ProcType
           /\ proc[p].key \in 0..made /\ proc[p].key \in Nat
           /\ proc[p].read \in FileType
           /\ proc[p].on \in BOOLEAN /\ proc[p].at \in 0..now
           /\ proc[p].count \in 0..MaxLockouts \cup {Cap}
           /\ proc[p].op \in {"none", "bootstrap", "generate", "sign", "load",
                  "change", "verify", "repair", "count", "record", "save"}
BY DEF TypeInv, ProcType, TypeOK

\* What the watcher has read is a part of what was counted, and not too much.
ReadsLockouts ==
    /\ IsFiniteSet(lockouts) /\ Cardinality(lockouts) <= MaxLockouts
    /\ proc["watcher"].op \in {"count", "record"}
           => proc["watcher"].read.incidents \subseteq lockouts

LEMMA KeyStepType ==
    ASSUME TypeInv, NEW p \in Processes, KeyStep(p)
    PROVE  TypeInv'
<1>1. now \in Nat /\ made \in Nat /\ FilesTyped
  BY TypedFiles
<1>2. proc[p] \in ProcType
  BY ProcFields
<1>3. CASE GetKey(p) /\ KeyThere
  <2>1. Goes(p, [proc[p] EXCEPT !.pc = "keyed", !.key = key])
    BY <1>3 DEF GetKey
  <2>2. [proc[p] EXCEPT !.pc = "keyed", !.key = key] \in ProcType
    BY <1>1, <1>2 DEF ProcType, FilesTyped
  <2>3. UNCHANGED <<now, made>> /\ UNCHANGED <<files, faults, history>>
    BY <1>3 DEF GetKey, files
  <2>. QED
    BY <2>1, <2>2, <2>3, QuietType, FilesUnchanged
<1>4. CASE GetKey(p) /\ ~KeyThere
  <2>1. Goes(p, [proc[p] EXCEPT !.pc = "newkey", !.key = made + 1])
    BY <1>4 DEF GetKey, Goes
  <2>2. /\ made' = made + 1 /\ now' = now
        /\ UNCHANGED <<key, keyTmp, state, marker, recovery, ledger, faults, history>>
    BY <1>4 DEF GetKey
  <2>. DEFINE next == [proc[p] EXCEPT !.pc = "newkey", !.key = made + 1]
  <2>3. next \in ProcType'
    <3>1. next.key \in 0..made' /\ now' = now /\ \A k \in 0..made : k \in 0..made'
      BY <1>1, <1>2, <2>2 DEF ProcType
    <3>. QED
      BY <1>2, <3>1 DEF ProcType
  <2>4. FilesTyped'
    BY <1>1, <2>2 DEF FilesTyped, history
  <2>. QED
    BY <1>1, <2>1, <2>2, <2>3, <2>4, StepType
<1>5. CASE WriteKey(p)
  <2>1. Goes(p, [proc[p] EXCEPT !.pc = "putkey"])
    BY <1>5 DEF WriteKey
  <2>2. [proc[p] EXCEPT !.pc = "putkey"] \in ProcType
    BY <1>2 DEF ProcType
  <2>3. FilesTyped' /\ UNCHANGED <<now, made>>
    BY <1>1, <1>5, ProcFields DEF WriteKey, FilesTyped, history
  <2>. QED
    BY <2>1, <2>2, <2>3, QuietType
<1>6. CASE PutKey(p)
  <2>1. PICK next \in {Idle, [proc[p] EXCEPT !.pc = "keyed"]} : Goes(p, next)
    BY <1>6 DEF PutKey
  <2>2. next \in ProcType
    BY <1>1, <1>2, <2>1, IdleType DEF ProcType
  <2>3. key' \in {key, keyTmp} /\ keyTmp' = 0
    BY <1>6, KeyNone DEF PutKey
  <2>4. UNCHANGED <<now, made, state, marker, recovery, ledger, faults, history>>
    BY <1>6 DEF PutKey
  <2>5. FilesTyped'
    BY <1>1, <2>3, <2>4 DEF FilesTyped, history
  <2>. QED
    BY <2>1, <2>2, <2>4, <2>5, QuietType
<1>. QED
  BY <1>3, <1>4, <1>5, <1>6 DEF KeyStep

\* Replacing state.json and writing the marker.
LEMMA ReplaceType ==
    ASSUME TypeInv, NEW p \in Processes, NEW on \in BOOLEAN, ReplaceState(p, on)
    PROVE  TypeInv'
<1>1. now \in Nat /\ made \in Nat /\ FilesTyped
  BY TypedFiles
<1>2. proc[p].op \in {"none", "bootstrap", "generate", "sign", "load",
                      "change", "verify", "repair", "count", "record", "save"}
  BY ProcFields
<1>3. [Idle EXCEPT !.pc = "marking", !.op = proc[p].op, !.on = on] \in ProcType
  BY <1>1, <1>2, IdleType DEF ProcType
<1>4. File("ok", proc[p].key, 0, on, {}) \in FileType
  BY FileTypes, ProcFields
<1>5. FilesTyped' /\ UNCHANGED <<now, made>>
  BY <1>1, <1>4 DEF ReplaceState, FilesTyped, history
<1>. QED
  BY <1>3, <1>5, QuietType DEF ReplaceState

LEMMA MarkerType ==
    ASSUME TypeInv, NEW p \in Processes, WriteMarker(p)
    PROVE  TypeInv'
<1>1. now \in Nat /\ made \in Nat /\ FilesTyped
  BY TypedFiles
<1>2. PICK next \in {Idle, [Idle EXCEPT !.pc = "recovery"]} : Goes(p, next)
  BY DEF WriteMarker
<1>3. next \in ProcType
  BY <1>1, <1>2, IdleType DEF ProcType
<1>4. /\ UNCHANGED <<now, key, keyTmp, made, state, recovery, ledger, faults,
                     lost, lockouts>>
  BY DEF WriteMarker
<1>5. marker' \in BOOLEAN /\ wasOn' \in BOOLEAN
  BY DEF WriteMarker
<1>6. FilesTyped'
  BY <1>1, <1>4, <1>5 DEF FilesTyped
<1>. QED
  BY <1>2, <1>3, <1>4, <1>6, QuietType

LEMMA BridgeType ==
    ASSUME TypeInv, BridgeStep
    PROVE  TypeInv'
<1>1. now \in Nat /\ made \in Nat /\ FilesTyped
  BY TypedFiles
<1>0. "bridge" \in Processes
  BY DEF Processes
<1>2. CASE EnsureRecovery \/ CheckDeletion \/ CheckRecovery \/ Sign
  <2>1. PICK next \in {Idle, [Idle EXCEPT !.pc = "checking"],
                       [Idle EXCEPT !.pc = "recovery"],
                       [Idle EXCEPT !.pc = "key", !.op = "bootstrap"],
                       [Idle EXCEPT !.pc = "key", !.op = "generate"],
                       [Idle EXCEPT !.pc = "key", !.op = "sign"]} :
             Goes("bridge", next)
    <3>1. CASE EnsureRecovery
      BY <3>1 DEF EnsureRecovery
    <3>2. CASE CheckDeletion
      BY <3>2 DEF CheckDeletion
    <3>3. CASE CheckRecovery
      BY <3>3 DEF CheckRecovery
    <3>4. CASE Sign
      BY <3>4 DEF Sign
    <3>. QED
      BY <1>2, <3>1, <3>2, <3>3, <3>4
  <2>2. next \in ProcType
    BY <1>1, <2>1, IdleType DEF ProcType
  <2>3. UNCHANGED <<now, files, faults, history>>
    BY <1>2 DEF EnsureRecovery, CheckDeletion, CheckRecovery, Sign
  <2>. QED
    BY <1>0, <2>1, <2>2, <2>3, QuietType, FilesUnchanged DEF files
<1>3. CASE Bootstrap
  BY <1>0, <1>3, ReplaceType DEF Bootstrap
<1>4. CASE Generate
  <2>1. File("ok", proc["bridge"].key, 0, FALSE, {}) \in FileType
    BY <1>0, FileTypes, ProcFields
  <2>2. FilesTyped' /\ UNCHANGED <<now, made>>
    BY <1>1, <1>4, <2>1 DEF Generate, FilesTyped, history
  <2>3. Idle \in ProcType
    BY <1>1, IdleType
  <2>. QED
    BY <1>0, <1>4, <2>2, <2>3, QuietType DEF Generate
<1>. QED
  BY <1>2, <1>3, <1>4 DEF BridgeStep

LEMMA ServiceType ==
    ASSUME TypeInv, ServiceStep
    PROVE  TypeInv'
<1>1. now \in Nat /\ made \in Nat /\ FilesTyped
  BY TypedFiles
<1>0. "service" \in Processes
  BY DEF Processes
<1>2. proc["service"].on \in BOOLEAN
  BY <1>0, ProcFields
<1>3. ASSUME NEW next \in ProcType, Goes("service", next),
             UNCHANGED <<now, files, faults, history>>
      PROVE  TypeInv'
  BY <1>0, <1>3, QuietType, FilesUnchanged DEF files
<1>4. /\ Idle \in ProcType
      /\ [Idle EXCEPT !.pc = "refused"] \in ProcType
      /\ \A on \in BOOLEAN :
            /\ [Idle EXCEPT !.pc = "key", !.op = "load", !.read = state,
                            !.on = on] \in ProcType
            /\ [Idle EXCEPT !.pc = "key", !.op = "change", !.on = on] \in ProcType
            /\ [Idle EXCEPT !.pc = "key", !.op = "repair", !.on = on] \in ProcType
      /\ [Idle EXCEPT !.pc = "key", !.op = "verify", !.read = recovery] \in ProcType
  BY <1>1, IdleType DEF ProcType, FilesTyped
<1>5. ASSUME NEW on \in BOOLEAN, Load(on) PROVE TypeInv'
  BY <1>3, <1>4, <1>5 DEF Load
<1>6. CASE Loaded
  BY <1>2, <1>3, <1>4, <1>6 DEF Loaded
<1>7. CASE Refused
  BY <1>3, <1>4, <1>7 DEF Refused
<1>8. CASE VerifyCode
  BY <1>3, <1>4, <1>8 DEF VerifyCode
<1>9. CASE Save
  BY <1>0, <1>2, <1>9, ReplaceType DEF Save
<1>. QED
  BY <1>5, <1>6, <1>7, <1>8, <1>9 DEF ServiceStep

\* The count of what was read is in its range.
LEMMA CountedType ==
    ASSUME TypeInv, ReadsLockouts, proc["watcher"].op = "count"
    PROVE  Counted(proc["watcher"]) \in 0..MaxLockouts \cup {Cap}
<1>. DEFINE w == proc["watcher"]
            recent == {i \in w.read.incidents : Recent(i, w.at)}
<1>1. recent \subseteq lockouts
  BY DEF ReadsLockouts
<1>2. /\ Cardinality(recent) \in Nat /\ Cardinality(lockouts) \in Nat
      /\ Cardinality(recent) <= Cardinality(lockouts)
  BY <1>1, FS_Subset, FS_CardinalityType DEF ReadsLockouts
<1>3. Cardinality(recent) \in 0..MaxLockouts
  BY <1>2 DEF ReadsLockouts
<1>4. CASE Readable(w)
  BY <1>3, <1>4 DEF Counted
<1>5. CASE ~Readable(w) /\ Stale(w.read)
  BY <1>5 DEF Counted
<1>6. CASE ~Readable(w) /\ ~Stale(w.read)
  BY <1>6 DEF Counted
<1>. QED
  BY <1>4, <1>5, <1>6

LEMMA WatcherType ==
    ASSUME TypeInv, ReadsLockouts, WatcherStep
    PROVE  TypeInv'
<1>1. now \in Nat /\ made \in Nat /\ FilesTyped
  BY TypedFiles
<1>0. "watcher" \in Processes
  BY DEF Processes
<1>2. /\ proc["watcher"] \in ProcType
      /\ proc["watcher"].read \in FileType
      /\ proc["watcher"].count \in 0..MaxLockouts \cup {Cap}
      /\ proc["watcher"].at \in 0..now /\ proc["watcher"].key \in Nat
  BY <1>0, ProcFields
<1>3. ASSUME NEW next \in ProcType, Goes("watcher", next), FilesTyped',
             UNCHANGED <<now, made>>
      PROVE  TypeInv'
  BY <1>0, <1>3, QuietType
<1>4. ASSUME NEW op \in {"count", "record"} PROVE ReadLedger(op) \in ProcType
  <2>1. ledger \in FileType
    BY <1>1 DEF FilesTyped
  <2>0. now \in 0..now
    BY <1>1
  <2>4. Idle \in ProcType
    BY <1>1, IdleType
  <2>5. op \in {"none", "bootstrap", "generate", "sign", "load", "change",
                "verify", "repair", "count", "record", "save"}
    OBVIOUS
  <2>2. [Idle EXCEPT !.pc = "keyed", !.op = op, !.at = now] \in ProcType
    BY <2>0, <2>4, <2>5 DEF ProcType
  <2>3. [Idle EXCEPT !.pc = "key", !.op = op, !.read = ledger, !.at = now]
            \in ProcType
    BY <2>0, <2>1, <2>4, <2>5 DEF ProcType
  <2>. QED
    BY <2>2, <2>3 DEF ReadLedger
<1>5. CASE Detect
  BY <1>3, <1>4, <1>5, FilesUnchanged DEF Detect, files
<1>6. ASSUME NEW w PROVE Clears(w) \in FileType
  BY <1>1, NoFileType DEF Clears, FilesTyped
<1>7. CASE Count
  <2>1. Counted(proc["watcher"]) \in 0..MaxLockouts \cup {Cap}
    BY <1>7, CountedType DEF Count, Keyed
  <2>2. [Idle EXCEPT !.pc = "recording", !.count = Counted(proc["watcher"])]
            \in ProcType
    BY <1>1, <2>1, IdleType DEF ProcType
  <2>3. ledger' \in FileType
    BY <1>6, <1>7 DEF Count
  <2>4. FilesTyped'
    BY <1>1, <1>7, <2>3 DEF Count, FilesTyped, history
  <2>. QED
    BY <1>3, <1>7, <2>2, <2>4 DEF Count
<1>8. CASE Record
  <2>1. ReadLedger("record") \in ProcType
    BY <1>4
  <2>2. [ReadLedger("record") EXCEPT !.count = proc["watcher"].count] \in ProcType
    BY <1>2, <2>1 DEF ProcType
  <2>. QED
    BY <1>3, <1>8, <2>2, FilesUnchanged DEF Record, files
<1>9. CASE Append
  <2>. DEFINE w == proc["watcher"]
              read == File("ok", NoKey, 0, FALSE, Kept(w) \cup {Incident(w)})
  <2>1. /\ IsFiniteSet(lockouts)
        /\ w.read.incidents \subseteq [n : Nat, at : Nat]
    BY <1>2 DEF ReadsLockouts, FileType
  <2>2. Kept(w) \cup {Incident(w)} \in SUBSET [n : Nat, at : Nat]
    BY <1>1, <1>2, <2>1, FS_CardinalityType DEF Kept, Incident
  <2>3. read \in FileType
    BY <2>2, KeyNone, FileTypes
  <2>. HIDE DEF read
  <2>4. [w EXCEPT !.pc = "key", !.op = "save", !.key = NoKey, !.read = read]
            \in ProcType
    <3>1. NoKey \in 0..made
      BY <1>1, KeyNone
    <3>. QED
      BY <1>2, <2>3, <3>1 DEF ProcType
  <2>. USE DEF read
  <2>5. ledger' \in FileType
    BY <1>6, <1>9 DEF Append
  <2>6. FilesTyped'
    BY <1>1, <1>9, <2>5 DEF Append, FilesTyped, history
  <2>. QED
    BY <1>3, <1>9, <2>4, <2>6 DEF Append
<1>10. CASE SaveLedger
  <2>. DEFINE w == proc["watcher"]
  <2>1. [Idle EXCEPT !.pc = "locking", !.count = w.count] \in ProcType
    BY <1>1, <1>2, IdleType DEF ProcType
  <2>2. [w.read EXCEPT !.key = w.key, !.at = now] \in FileType
    BY <1>1, <1>2 DEF FileType
  <2>3. ledger' \in FileType
    BY <1>1, <1>10, <2>2 DEF SaveLedger, FilesTyped
  <2>4. faults' \in 0..MaxFaults /\ lost' \subseteq {"state", "recovery", "ledger"}
    BY <1>1, <1>10 DEF SaveLedger, FilesTyped, Fault
  <2>5. lockouts' \subseteq [n : Nat, at : Nat]
    BY <1>1, <1>2, <1>10 DEF SaveLedger, FilesTyped, FileType
  <2>6. /\ UNCHANGED <<now, key, keyTmp, made, state, marker, recovery, wasOn>>
        /\ Goes("watcher", [Idle EXCEPT !.pc = "locking", !.count = w.count])
    BY <1>10 DEF SaveLedger
  <2>7. FilesTyped'
    BY <1>1, <2>3, <2>4, <2>5, <2>6 DEF FilesTyped
  <2>. QED
    BY <1>3, <2>1, <2>6, <2>7
<1>11. CASE Lock
  <2>1. Idle \in ProcType
    BY <1>1, IdleType
  <2>. QED
    BY <1>3, <1>11, <2>1, FilesUnchanged DEF Lock, files
<1>. QED
  BY <1>5, <1>7, <1>8, <1>9, <1>10, <1>11 DEF WatcherStep

\* Every step keeps the types.
LEMMA TypeStep == TypeInv /\ ReadsLockouts /\ [Next]_vars => TypeInv'
<1>. SUFFICES ASSUME TypeInv, ReadsLockouts, [Next]_vars PROVE TypeInv'
  OBVIOUS
<1>1. now \in Nat /\ made \in Nat /\ FilesTyped
  BY TypedFiles
<1>2. ASSUME NEW p \in Processes, Crash(p) PROVE TypeInv'
  <2>1. Idle \in ProcType
    BY <1>1, IdleType
  <2>2. FilesTyped'
    BY <1>1, <1>2 DEF Crash, Fault, FilesTyped, files, history
  <2>. QED
    BY <1>2, <2>1, <2>2, QuietType DEF Crash, files
<1>3. CASE Tick
  <2>1. now' = now + 1 /\ UNCHANGED <<files, proc, faults, history>>
    BY <1>3 DEF Tick
  <2>2. FilesTyped'
    BY <2>1, FilesUnchanged
  <2>3. proc' = [proc EXCEPT !["bridge"] = proc["bridge"]]
    BY <2>1 DEF TypeInv
  <2>4. proc["bridge"] \in ProcType
    BY ProcFields DEF Processes
  <2>6. made' = made
    BY <2>1 DEF files
  <2>5. proc["bridge"] \in ProcType'
    BY <1>1, <2>1, <2>4, <2>6 DEF ProcType
  <2>7. Goes("bridge", proc["bridge"]) /\ "bridge" \in Processes
    BY <2>3 DEF Goes, Processes
  <2>8. now' \in Nat /\ made' \in Nat /\ now <= now' /\ made <= made'
    BY <1>1, <2>1, <2>6
  <2>. QED
    BY <2>2, <2>5, <2>7, <2>8, StepType
<1>4. ASSUME NEW file \in {"state", "recovery", "ledger"}, Lose(file) PROVE TypeInv'
  <2>1. \A at \in Nat : Remains(at) \subseteq FileType
    <3>1. \A at \in Nat : File("bad", NoKey, at, FALSE, {}) \in FileType
      BY KeyNone DEF File, FileType
    <3>. QED
      BY <3>1, NoFileType DEF Remains
  <2>2. state' \in FileType /\ recovery' \in FileType /\ ledger' \in FileType
    BY <1>1, <1>4, <2>1 DEF Lose, FilesTyped
  <2>3. /\ UNCHANGED <<now, key, keyTmp, made, marker, proc, faults, wasOn, lockouts>>
        /\ lost' = lost \cup {file}
    BY <1>4 DEF Lose
  <2>4. FilesTyped'
    BY <1>1, <2>2, <2>3 DEF FilesTyped
  <2>5. proc' = [proc EXCEPT !["bridge"] = proc["bridge"]]
    BY <2>3 DEF TypeInv
  <2>6. proc["bridge"] \in ProcType
    BY ProcFields DEF Processes
  <2>. QED
    BY <2>3, <2>4, <2>5, <2>6, QuietType DEF Goes, Processes
<1>5. CASE UNCHANGED vars
  <2>1. UNCHANGED <<now, proc>> /\ UNCHANGED <<files, faults, history>>
    BY <1>5 DEF vars, history
  <2>2. proc' = [proc EXCEPT !["bridge"] = proc["bridge"]]
    BY <2>1 DEF TypeInv
  <2>3. proc["bridge"] \in ProcType
    BY ProcFields DEF Processes
  <2>. QED
    BY <2>1, <2>2, <2>3, FilesUnchanged, QuietType DEF Goes, Processes, files
<1>. QED
  BY <1>2, <1>3, <1>4, <1>5, KeyStepType, MarkerType, BridgeType, ServiceType,
     WatcherType DEF Next

-----------------------------------------------------------------------------
(* The key. *)

KeysOk == \A p \in Processes : KeyOk(proc[p])

\* The processes beside the one that goes on.
LEMMA OthersStay ==
    ASSUME TypeInv, NEW p \in Processes, NEW next, Goes(p, next)
    PROVE  /\ proc'[p] = next
           /\ \A q \in Processes : q # p => proc'[q] = proc[q]
BY DEF Goes, TypeInv

\* If one goes on to where its key is right, all are right.
LEMMA OneGoesOn ==
    ASSUME KeysOk, NEW p \in Processes, \A q \in Processes : q # p => proc'[q] = proc[q],
           KeyOk(proc[p])', UNCHANGED <<key, keyTmp>>
    PROVE  KeysOk'
<1>1. ASSUME NEW q \in Processes PROVE KeyOk(proc[q])'
  <2>1. CASE q = p
    BY <2>1
  <2>2. CASE q # p
    BY <2>2 DEF KeyOk, KeysOk
  <2>. QED
    BY <2>1, <2>2
<1>. QED
  BY <1>1 DEF KeysOk

\* Where there is no key, it is the bridge that acts.
LEMMA BridgeActs ==
    ASSUME TypeInv, BridgeFirst, key = NoKey, NEW p \in Processes, ~At(p, "idle")
    PROVE  p = "bridge"
BY DEF BridgeFirst, Processes

\* A key is made once: who makes it has it, and it verifies what is there.
LEMMA KeyStepKeys ==
    ASSUME TypeInv, KeysOk, BridgeFirst, RecordsVerify, wasOn => marker,
           NEW p \in Processes, KeyStep(p)
    PROVE  KeysOk' /\ BridgeFirst' /\ RecordsVerify' /\ (wasOn => marker)'
<1>0. key \in Nat /\ made \in Nat /\ proc[p].key \in Nat /\ proc[p] \in ProcType
  BY TypedFiles, ProcFields DEF FilesTyped
<1>1. UNCHANGED <<state, marker, recovery, ledger, wasOn>>
  BY DEF KeyStep, GetKey, WriteKey, PutKey, history
<1>2. (wasOn => marker)'
  BY <1>1
<1>3. CASE GetKey(p) /\ KeyThere
  <2>. DEFINE next == [proc[p] EXCEPT !.pc = "keyed", !.key = key]
  <2>1. Goes(p, next) /\ UNCHANGED <<key, keyTmp>> /\ key # NoKey
    BY <1>3 DEF GetKey, KeyThere
  <2>2. next.pc = "keyed" /\ next.key = key
    BY <1>0 DEF ProcType
  <2>. HIDE DEF next
  <2>3. proc'[p] = next /\ \A q \in Processes : q # p => proc'[q] = proc[q]
    BY <2>1, OthersStay
  <2>4. KeyOk(proc[p])'
    BY <2>1, <2>2, <2>3 DEF KeyOk
  <2>5. KeysOk'
    BY <2>1, <2>3, <2>4, OneGoesOn
  <2>. QED
    BY <1>1, <1>2, <2>1, <2>5 DEF BridgeFirst, RecordsVerify, Verifies
<1>4. CASE GetKey(p) /\ ~KeyThere
  <2>. DEFINE next == [proc[p] EXCEPT !.pc = "newkey", !.key = made + 1]
  <2>1. Goes(p, next) /\ UNCHANGED <<key, keyTmp>> /\ key = NoKey
    BY <1>4 DEF GetKey, KeyThere, Goes
  <2>2. next.pc = "newkey" /\ next.key = made + 1
    BY <1>0 DEF ProcType
  <2>. HIDE DEF next
  <2>7. proc'[p] = next /\ \A q \in Processes : q # p => proc'[q] = proc[q]
    BY <2>1, OthersStay
  <2>3. KeyOk(proc[p])'
    BY <1>0, <2>1, <2>2, <2>7, KeyNone DEF KeyOk
  <2>4. KeysOk'
    BY <2>1, <2>3, <2>7, OneGoesOn
  <2>5. p = "bridge"
    BY <1>4, <2>1, BridgeActs DEF GetKey, At
  <2>6. proc'["service"] = proc["service"] /\ proc'["watcher"] = proc["watcher"]
    BY <2>1, <2>5, OthersStay DEF Processes
  <2>. QED
    BY <1>1, <1>2, <2>1, <2>4, <2>6 DEF BridgeFirst, RecordsVerify, Verifies, At
<1>5. CASE WriteKey(p)
  <2>. DEFINE next == [proc[p] EXCEPT !.pc = "putkey"]
  <2>1. /\ Goes(p, next) /\ key' = key /\ keyTmp' = proc[p].key
        /\ proc[p].pc = "newkey"
    BY <1>5 DEF WriteKey, At
  <2>2. next.pc = "putkey" /\ next.key = proc[p].key
    BY <1>0 DEF ProcType
  <2>3. key = NoKey /\ proc[p].key # NoKey
    BY <2>1 DEF KeysOk, KeyOk
  <2>4. p = "bridge"
    BY <2>1, <2>3, BridgeActs DEF At
  <2>. HIDE DEF next
  <2>5. /\ proc'[p] = next
        /\ proc'["service"] = proc["service"] /\ proc'["watcher"] = proc["watcher"]
    BY <2>1, <2>4, OthersStay DEF Processes
  <2>6. proc["service"].pc = "idle" /\ proc["watcher"].pc = "idle"
    BY <2>3 DEF BridgeFirst, At
  <2>7. KeyOk(proc[p])'
    BY <2>1, <2>2, <2>3, <2>5 DEF KeyOk
  <2>8. KeyOk(proc["service"])' /\ KeyOk(proc["watcher"])'
    BY <2>5, <2>6 DEF KeyOk
  <2>9. KeysOk'
    BY <2>4, <2>7, <2>8 DEF KeysOk, Processes
  <2>. QED
    BY <1>1, <1>2, <2>1, <2>5, <2>9 DEF BridgeFirst, RecordsVerify, Verifies, At
<1>6. CASE PutKey(p)
  <2>1. proc[p].pc = "putkey"
    BY <1>6 DEF PutKey, At
  <2>2. key = NoKey /\ proc[p].key # NoKey /\ keyTmp = proc[p].key
    BY <2>1 DEF KeysOk, KeyOk
  <2>. DEFINE next == [proc[p] EXCEPT !.pc = "keyed"]
  <2>3. key' = keyTmp /\ Goes(p, next)
    BY <1>6, <2>2 DEF PutKey
  <2>4. next.pc = "keyed" /\ next.key = proc[p].key
    BY <1>0 DEF ProcType
  <2>5. p = "bridge"
    BY <2>1, <2>2, BridgeActs DEF At
  <2>. HIDE DEF next
  <2>6. /\ proc'[p] = next
        /\ proc'["service"] = proc["service"] /\ proc'["watcher"] = proc["watcher"]
    BY <2>3, <2>5, OthersStay DEF Processes
  <2>7. proc["service"].pc = "idle" /\ proc["watcher"].pc = "idle"
    BY <2>2 DEF BridgeFirst, At
  <2>8. KeyOk(proc[p])' /\ KeyOk(proc["service"])' /\ KeyOk(proc["watcher"])'
    BY <2>2, <2>3, <2>4, <2>6, <2>7 DEF KeyOk
  <2>9. KeysOk'
    BY <2>5, <2>8 DEF KeysOk, Processes
  <2>10. RecordsVerify'
    BY <1>1, <2>2 DEF RecordsVerify, BridgeFirst
  <2>. QED
    BY <1>2, <2>2, <2>3, <2>9, <2>10 DEF BridgeFirst
<1>. QED
  BY <1>3, <1>4, <1>5, <1>6 DEF KeyStep

\* A step that leaves the key where it is, and writes what it signs with it.
LEMMA StayKeys ==
    ASSUME KeysOk, BridgeFirst, RecordsVerify, NEW p \in Processes,
           \A q \in Processes : q # p => proc'[q] = proc[q],
           KeyOk(proc[p])', UNCHANGED <<key, keyTmp>>,
           key = NoKey => /\ UNCHANGED <<state, recovery, ledger, marker>>
                          /\ p # "bridge" => proc'[p].pc = "idle",
           state' = state \/ state'.kind # "ok" \/ state'.key = key,
           recovery' = recovery \/ recovery'.kind # "ok" \/ recovery'.key = key,
           ledger' = ledger \/ ledger'.kind # "ok" \/ ledger'.key = key
    PROVE  KeysOk' /\ BridgeFirst' /\ RecordsVerify'
<1>1. KeysOk'
  BY OneGoesOn
<1>2. RecordsVerify'
  BY DEF RecordsVerify, Verifies
<1>3. BridgeFirst'
  BY DEF BridgeFirst, At, Processes
<1>. QED
  BY <1>1, <1>2, <1>3

\* A process that goes on to where no key matters, and writes nothing.
LEMMA FreeKeys ==
    ASSUME TypeInv, KeyInv, NEW p \in Processes, NEW next, Goes(p, next),
           next.pc \notin {"newkey", "putkey", "keyed", "marking"},
           key = NoKey /\ p # "bridge" => next.pc = "idle",
           UNCHANGED <<files, wasOn>>
    PROVE  KeyInv'
<1>1. UNCHANGED <<key, keyTmp, state, marker, recovery, ledger, wasOn>>
  BY DEF files
<1>2. proc'[p] = next /\ \A q \in Processes : q # p => proc'[q] = proc[q]
  BY OthersStay
<1>3. KeyOk(proc[p])'
  BY <1>2 DEF KeyOk
<1>4. KeysOk' /\ BridgeFirst' /\ RecordsVerify'
  BY <1>1, <1>2, <1>3, StayKeys DEF KeyInv, KeysOk
<1>. QED
  BY <1>1, <1>4 DEF KeyInv, KeysOk

\* state.json is replaced by whoever holds the key, and the marker written.
LEMMA ReplaceKeys ==
    ASSUME TypeInv, KeyInv, NEW p \in Processes, NEW on, ReplaceState(p, on),
           At(p, "keyed"), proc[p].op \notin {"count", "record"}
    PROVE  KeyInv'
<1>. DEFINE next == [Idle EXCEPT !.pc = "marking", !.op = proc[p].op, !.on = on]
<1>1. proc[p].key = key /\ key # NoKey
  BY DEF KeyInv, KeyOk, At
<1>2. Goes(p, next) /\ state' = File("ok", proc[p].key, 0, on, {})
  BY DEF ReplaceState
<1>3. next.pc = "marking"
  BY DEF Idle
<1>4. state'.key = key
  BY <1>1, <1>2 DEF File
<1>. HIDE DEF next
<1>5. proc'[p] = next /\ \A q \in Processes : q # p => proc'[q] = proc[q]
  BY <1>2, OthersStay
<1>6. UNCHANGED <<key, keyTmp, marker, recovery, ledger, wasOn>>
  BY DEF ReplaceState, history
<1>7. KeyOk(proc[p])'
  BY <1>1, <1>3, <1>5, <1>6 DEF KeyOk
<1>8. KeysOk' /\ BridgeFirst' /\ RecordsVerify'
  BY <1>1, <1>4, <1>5, <1>6, <1>7, StayKeys DEF KeyInv, KeysOk
<1>. QED
  BY <1>6, <1>8 DEF KeyInv, KeysOk

LEMMA MarkerKeys ==
    ASSUME TypeInv, KeyInv, NEW p \in Processes, WriteMarker(p)
    PROVE  KeyInv'
<1>1. key # NoKey /\ marker' = TRUE
  BY DEF KeyInv, KeyOk, WriteMarker, At, Marks
<1>2. PICK next \in {Idle, [Idle EXCEPT !.pc = "recovery"]} : Goes(p, next)
  BY DEF WriteMarker
<1>3. next.pc \notin {"newkey", "putkey", "keyed", "marking"}
  BY <1>2 DEF Idle
<1>4. UNCHANGED <<key, keyTmp, state, recovery, ledger>>
  BY DEF WriteMarker
<1>5. proc'[p] = next /\ \A q \in Processes : q # p => proc'[q] = proc[q]
  BY <1>2, OthersStay
<1>6. KeyOk(proc[p])'
  BY <1>3, <1>5 DEF KeyOk
<1>7. KeysOk' /\ BridgeFirst' /\ RecordsVerify'
  BY <1>1, <1>4, <1>5, <1>6, StayKeys DEF KeyInv, KeysOk
<1>. QED
  BY <1>1, <1>7 DEF KeyInv, KeysOk

LEMMA BridgeKeys ==
    ASSUME TypeInv, KeyInv, BridgeStep
    PROVE  KeyInv'
<1>0. "bridge" \in Processes
  BY DEF Processes
<1>1. CASE EnsureRecovery \/ CheckDeletion \/ CheckRecovery \/ Sign
  <2>1. PICK next \in {Idle, [Idle EXCEPT !.pc = "checking"],
                       [Idle EXCEPT !.pc = "recovery"],
                       [Idle EXCEPT !.pc = "key", !.op = "bootstrap"],
                       [Idle EXCEPT !.pc = "key", !.op = "generate"],
                       [Idle EXCEPT !.pc = "key", !.op = "sign"]} :
             Goes("bridge", next)
    <3>1. CASE EnsureRecovery
      BY <3>1 DEF EnsureRecovery
    <3>2. CASE CheckDeletion
      BY <3>2 DEF CheckDeletion
    <3>3. CASE CheckRecovery
      BY <3>3 DEF CheckRecovery
    <3>4. CASE Sign
      BY <3>4 DEF Sign
    <3>. QED
      BY <1>1, <3>1, <3>2, <3>3, <3>4
  <2>4. /\ Idle.pc = "idle" /\ [Idle EXCEPT !.pc = "checking"].pc = "checking"
        /\ [Idle EXCEPT !.pc = "recovery"].pc = "recovery"
        /\ [Idle EXCEPT !.pc = "key", !.op = "bootstrap"].pc = "key"
        /\ [Idle EXCEPT !.pc = "key", !.op = "generate"].pc = "key"
        /\ [Idle EXCEPT !.pc = "key", !.op = "sign"].pc = "key"
    BY DEF Idle
  <2>2. next.pc \notin {"newkey", "putkey", "keyed", "marking"}
    BY <2>1, <2>4
  <2>3. UNCHANGED <<files, wasOn>>
    BY <1>1 DEF EnsureRecovery, CheckDeletion, CheckRecovery, Sign, history
  <2>. QED
    BY <1>0, <2>1, <2>2, <2>3, FreeKeys
<1>2. CASE Bootstrap
  BY <1>0, <1>2, ReplaceKeys DEF Bootstrap, Keyed
<1>3. CASE Generate
  <2>1. proc["bridge"].key = key /\ key # NoKey
    BY <1>0, <1>3 DEF KeyInv, KeyOk, Generate, Keyed, At
  <2>2. recovery' = File("ok", proc["bridge"].key, 0, FALSE, {})
    BY <1>3 DEF Generate
  <2>3. recovery'.key = key
    BY <2>1, <2>2 DEF File
  <2>4. PICK next \in {Idle} : Goes("bridge", next)
    BY <1>3 DEF Generate
  <2>5. /\ proc'["bridge"] = next
        /\ \A q \in Processes : q # "bridge" => proc'[q] = proc[q]
    BY <1>0, <2>4, OthersStay
  <2>6. UNCHANGED <<key, keyTmp, marker, state, ledger, wasOn>>
    BY <1>3 DEF Generate, history
  <2>7. KeyOk(proc["bridge"])'
    BY <2>4, <2>5 DEF KeyOk, Idle
  <2>8. KeysOk' /\ BridgeFirst' /\ RecordsVerify'
    BY <1>0, <2>1, <2>3, <2>5, <2>6, <2>7, StayKeys DEF KeyInv, KeysOk
  <2>. QED
    BY <2>6, <2>8 DEF KeyInv, KeysOk
<1>. QED
  BY <1>1, <1>2, <1>3 DEF BridgeStep

LEMMA ServiceKeys ==
    ASSUME TypeInv, KeyInv, ServiceStep
    PROVE  KeyInv'
<1>0. "service" \in Processes
  BY DEF Processes
<1>1. ASSUME NEW next, Goes("service", next), next.pc \in {"idle", "key", "refused"},
             key # NoKey, UNCHANGED <<files, history>>
      PROVE  KeyInv'
  BY <1>0, <1>1, FreeKeys DEF history
<1>2. /\ Idle.pc = "idle" /\ [Idle EXCEPT !.pc = "refused"].pc = "refused"
      /\ [Idle EXCEPT !.pc = "key", !.op = "verify", !.read = recovery].pc = "key"
      /\ \A on \in BOOLEAN :
            /\ [Idle EXCEPT !.pc = "key", !.op = "load", !.read = state,
                            !.on = on].pc = "key"
            /\ [Idle EXCEPT !.pc = "key", !.op = "change", !.on = on].pc = "key"
            /\ [Idle EXCEPT !.pc = "key", !.op = "repair", !.on = on].pc = "key"
  BY DEF Idle
<1>3. proc["service"].on \in BOOLEAN
  BY <1>0, ProcFields
<1>4. key = NoKey => At("service", "idle")
  BY DEF KeyInv, BridgeFirst
<1>5. ASSUME NEW on \in BOOLEAN, Load(on) PROVE KeyInv'
  <2>1. key # NoKey
    BY <1>5 DEF Load, Deleted, KeyInv, BridgeFirst
  <2>. QED
    BY <1>1, <1>2, <1>5, <2>1 DEF Load
<1>6. CASE Loaded
  BY <1>1, <1>2, <1>3, <1>4, <1>6 DEF Loaded, Keyed, At
<1>7. CASE Refused
  BY <1>1, <1>2, <1>4, <1>7 DEF Refused, At
<1>8. CASE VerifyCode
  BY <1>1, <1>2, <1>4, <1>8 DEF VerifyCode, Keyed, At
<1>9. CASE Save
  BY <1>0, <1>3, <1>9, ReplaceKeys DEF Save, Keyed
<1>. QED
  BY <1>5, <1>6, <1>7, <1>8, <1>9 DEF ServiceStep

LEMMA WatcherKeys ==
    ASSUME TypeInv, KeyInv, WatcherStep
    PROVE  KeyInv'
<1>0. "watcher" \in Processes
  BY DEF Processes
<1>1. key # NoKey
  <2>1. CASE Detect
    BY <2>1 DEF Detect, Runs, Deleted, KeyInv, BridgeFirst
  <2>2. CASE ~Detect
    BY <2>2 DEF WatcherStep, Count, Record, Append, SaveLedger, Lock, Keyed, At,
                KeyInv, BridgeFirst
  <2>. QED
    BY <2>1, <2>2
<1>2. UNCHANGED <<key, keyTmp, marker, state, recovery, wasOn>>
  BY DEF WatcherStep, Detect, Count, Record, Append, SaveLedger, Lock, files, history
<1>3. ASSUME NEW next, Goes("watcher", next),
             \/ next.pc \notin {"newkey", "putkey", "keyed", "marking"}
             \/ next.op \in {"count", "record"} /\ next.read.kind = "none"
                /\ next.pc = "keyed",
             ledger' = ledger \/ ledger'.kind # "ok" \/ ledger'.key = key
      PROVE  KeyInv'
  <2>1. /\ proc'["watcher"] = next
        /\ \A q \in Processes : q # "watcher" => proc'[q] = proc[q]
    BY <1>0, <1>3, OthersStay
  <2>2. KeyOk(proc["watcher"])'
    BY <1>3, <2>1 DEF KeyOk
  <2>3. KeysOk' /\ BridgeFirst' /\ RecordsVerify'
    BY <1>0, <1>1, <1>2, <1>3, <2>1, <2>2, StayKeys DEF KeyInv, KeysOk
  <2>. QED
    BY <1>2, <2>3 DEF KeyInv, KeysOk
<1>4. ASSUME NEW w PROVE Clears(w) = ledger \/ Clears(w).kind # "ok"
  BY DEF Clears, NoFile, File
<1>5. ASSUME NEW op \in {"count", "record"}, NEW next, next = ReadLedger(op)
      PROVE  /\ next.pc \in {"key", "keyed"} /\ next.op = op
             /\ next.pc = "keyed" => next.read.kind = "none"
  BY <1>5 DEF ReadLedger, Idle, NoFile, File
<1>6. CASE Detect
  <2>1. PICK next : next = ReadLedger("count")
    OBVIOUS
  <2>2. Goes("watcher", next) /\ ledger' = ledger
    BY <1>6, <2>1 DEF Detect, files
  <2>. QED
    BY <1>3, <1>5, <2>1, <2>2
<1>7. CASE Count
  <2>1. PICK next : next = [Idle EXCEPT !.pc = "recording",
                                        !.count = Counted(proc["watcher"])]
    OBVIOUS
  <2>2. next.pc = "recording"
    BY <2>1 DEF Idle
  <2>3. Goes("watcher", next) /\ ledger' = Clears(proc["watcher"])
    BY <1>7, <2>1 DEF Count
  <2>. QED
    BY <1>3, <1>4, <2>2, <2>3
<1>8. CASE Record
  <2>1. PICK read : read = ReadLedger("record")
    OBVIOUS
  <2>2. PICK next : next = [read EXCEPT !.count = proc["watcher"].count]
    OBVIOUS
  <2>3. Goes("watcher", next) /\ ledger' = ledger
    BY <1>8, <2>1, <2>2 DEF Record, files
  <2>4. next.pc = read.pc /\ next.op = read.op /\ next.read = read.read
    BY <2>1, <2>2 DEF ReadLedger, Idle
  <2>. QED
    BY <1>3, <1>5, <2>1, <2>3, <2>4
<1>9. CASE Append
  <2>. DEFINE w == proc["watcher"]
  <2>1. PICK next : next = [w EXCEPT !.pc = "key", !.op = "save", !.key = NoKey,
                              !.read = File("ok", NoKey, 0, FALSE,
                                            Kept(w) \cup {Incident(w)})]
    OBVIOUS
  <2>2. next.pc = "key"
    BY <1>0, <2>1, ProcFields DEF ProcType
  <2>3. Goes("watcher", next) /\ ledger' = Clears(w)
    BY <1>9, <2>1 DEF Append
  <2>. QED
    BY <1>3, <1>4, <2>2, <2>3
<1>10. CASE SaveLedger
  <2>. DEFINE w == proc["watcher"]
  <2>1. PICK next : next = [Idle EXCEPT !.pc = "locking", !.count = w.count]
    OBVIOUS
  <2>2. next.pc = "locking"
    BY <2>1 DEF Idle
  <2>3. Goes("watcher", next)
    BY <1>10, <2>1 DEF SaveLedger
  <2>4. w.key = key
    BY <1>0, <1>10 DEF SaveLedger, Keyed, At, KeyInv, KeyOk
  <2>5. [w.read EXCEPT !.key = w.key, !.at = now].key = w.key
    BY <1>0, ProcFields DEF FileType
  <2>6. ledger' = ledger \/ ledger'.key = key
    BY <1>10, <2>4, <2>5 DEF SaveLedger
  <2>. QED
    BY <1>3, <2>2, <2>3, <2>6
<1>11. CASE Lock
  <2>1. PICK next : next = Idle
    OBVIOUS
  <2>2. Goes("watcher", next) /\ ledger' = ledger /\ next.pc = "idle"
    BY <1>11, <2>1 DEF Lock, files, Idle
  <2>. QED
    BY <1>3, <2>2
<1>. QED
  BY <1>6, <1>7, <1>8, <1>9, <1>10, <1>11 DEF WatcherStep

LEMMA KeysStep == TypeInv /\ KeyInv /\ [Next]_vars => KeyInv'
<1>. SUFFICES ASSUME TypeInv, KeyInv, [Next]_vars PROVE KeyInv'
  OBVIOUS
<1>1. ASSUME NEW p \in Processes, KeyStep(p) PROVE KeyInv'
  BY <1>1, KeyStepKeys DEF KeyInv, KeysOk
<1>2. ASSUME NEW p \in Processes, Crash(p) PROVE KeyInv'
  <2>1. PICK next : next = Idle
    OBVIOUS
  <2>2. Goes(p, next) /\ next.pc = "idle" /\ UNCHANGED <<files, wasOn>>
    BY <1>2, <2>1 DEF Crash, Idle, history
  <2>. QED
    BY <2>2, FreeKeys
<1>3. CASE Tick \/ UNCHANGED vars
  <2>1. UNCHANGED <<key, keyTmp, state, marker, recovery, ledger, wasOn, proc>>
    BY <1>3 DEF Tick, vars, files, history
  <2>. QED
    BY <2>1 DEF KeyInv, KeyOk, BridgeFirst, RecordsVerify, Verifies, At
<1>4. ASSUME NEW file \in {"state", "recovery", "ledger"}, Lose(file) PROVE KeyInv'
  <2>1. UNCHANGED <<key, keyTmp, marker, proc, wasOn>>
    BY <1>4 DEF Lose
  <2>2. /\ \A f \in Remains(0) : f.kind # "ok"
        /\ \A f \in Remains(now) : f.kind # "ok"
    BY DEF Remains, NoFile, File
  <2>3. /\ state' = state \/ (state'.kind # "ok" /\ state.kind = "ok")
        /\ recovery' = recovery \/ (recovery'.kind # "ok" /\ recovery.kind = "ok")
        /\ ledger' = ledger \/ (ledger'.kind # "ok" /\ ledger.kind = "ok")
    BY <1>4, <2>2 DEF Lose
  <2>4. BridgeFirst'
    BY <2>1, <2>3 DEF KeyInv, BridgeFirst, At
  <2>5. RecordsVerify'
    BY <2>1, <2>3 DEF KeyInv, RecordsVerify, Verifies
  <2>. QED
    BY <2>1, <2>4, <2>5 DEF KeyInv, KeyOk
<1>. QED
  BY <1>1, <1>2, <1>3, <1>4, MarkerKeys, BridgeKeys, ServiceKeys, WatcherKeys DEF Next

-----------------------------------------------------------------------------
(* The ledger. *)

Asking == {"key", "newkey", "putkey", "keyed"}

\* The lockouts a multiplier has to count.
Recents == {i \in lockouts : i.at + Window >= now}

\* There are at most as many lockouts as there may be, and the files list no
\* others, but for the one the watcher is about to record.
CountedLockouts ==
    /\ IsFiniteSet(lockouts) /\ Cardinality(lockouts) <= MaxLockouts
    /\ ledger.incidents \subseteq lockouts
    /\ ledger.kind = "none" => ledger.incidents = {}
    /\ proc["watcher"].pc \in Asking \cup {"recording"}
           => Cardinality(lockouts) < MaxLockouts
    /\ proc["watcher"].op \in {"count", "record"}
           => proc["watcher"].read.incidents \subseteq lockouts
    /\ proc["watcher"].op = "save"
           => /\ proc["watcher"].read.kind = "ok"
              /\ \E inc : proc["watcher"].read.incidents \subseteq lockouts \cup {inc}

\* While it is not lost, the ledger lists every recent lockout, and so does
\* what the watcher has read of it or is about to write to it.
ListsRecent ==
    /\ ledger.kind # "bad" /\ Recents \subseteq ledger.incidents
    /\ proc["watcher"].pc \in Asking /\ proc["watcher"].op \in {"count", "record", "save"}
           => Recents \subseteq proc["watcher"].read.incidents
    /\ proc["watcher"].pc \in Asking /\ proc["watcher"].op \in {"count", "record"}
           => \/ proc["watcher"].read.kind = "none"
              \/ Verifies(proc["watcher"].read, key)

\* And its count has them all, up to the cap.
CountsRecent ==
    LET w       == proc["watcher"]
        counted == w.pc = "recording" \/ (w.pc \in Asking /\ w.op \in {"record", "save"})
    IN  /\ counted => w.count = Cap \/ Cardinality(Recents) <= w.count
        /\ w.pc = "locking"
               => w.count + 1 >= Cap \/ Cardinality(Recents) <= w.count + 1

LedgerInv ==
    /\ CountedLockouts
    /\ "ledger" \notin lost => ListsRecent /\ CountsRecent

\* Recent lockouts are finitely many, and become fewer in time.
LEMMA RecentsFew ==
    ASSUME TypeInv, IsFiniteSet(lockouts), now' \in Nat, now <= now',
           lockouts' = lockouts
    PROVE  /\ Recents' \subseteq Recents /\ Recents \subseteq lockouts
           /\ IsFiniteSet(Recents) /\ IsFiniteSet(Recents')
           /\ Cardinality(Recents) \in Nat /\ Cardinality(Recents') \in Nat
           /\ Cardinality(Recents') <= Cardinality(Recents)
<1>1. now \in Nat /\ \A i \in lockouts : i.at \in Nat
  BY TypedFiles DEF FilesTyped
<1>2. Recents' \subseteq Recents /\ Recents \subseteq lockouts
  BY <1>1 DEF Recents
<1>3. IsFiniteSet(Recents)
  BY <1>2, FS_Subset
<1>. QED
  BY <1>2, <1>3, FS_Subset, FS_CardinalityType

\* A step that is not the watcher's, nor a loss of the ledger.
LEMMA LedgerRests ==
    ASSUME TypeInv, KeyInv, LedgerInv, proc'["watcher"] = proc["watcher"],
           UNCHANGED <<ledger, lockouts>>, now' \in Nat, now <= now',
           lost \subseteq lost', key' = key \/ key = NoKey
    PROVE  LedgerInv'
<1>1. CountedLockouts'
  BY DEF LedgerInv, CountedLockouts
<1>2. ASSUME "ledger" \notin lost' PROVE ListsRecent' /\ CountsRecent'
  <2>1. ListsRecent /\ CountsRecent
    BY <1>2 DEF LedgerInv
  <2>2. /\ Recents' \subseteq Recents
        /\ Cardinality(Recents) \in Nat /\ Cardinality(Recents') \in Nat
        /\ Cardinality(Recents') <= Cardinality(Recents)
    BY RecentsFew DEF LedgerInv, CountedLockouts
  <2>3. proc["watcher"].count \in Nat
    BY ProcFields DEF Processes, Cap
  <2>4. key' # key => proc["watcher"].pc = "idle"
    BY DEF KeyInv, BridgeFirst, At
  <2>5. ListsRecent'
    BY <2>1, <2>2, <2>4 DEF ListsRecent, Verifies, Asking
  <2>6. CountsRecent'
    <3>. DEFINE c == proc["watcher"].count
    <3>1. /\ c = Cap \/ Cardinality(Recents) <= c => c = Cap \/ Cardinality(Recents') <= c
          /\ c + 1 >= Cap \/ Cardinality(Recents) <= c + 1
                 => c + 1 >= Cap \/ Cardinality(Recents') <= c + 1
      BY <2>2, <2>3 DEF Cap
    <3>. QED
      BY <2>1, <3>1 DEF CountsRecent, Asking
  <2>. QED
    BY <2>5, <2>6
<1>. QED
  BY <1>1, <1>2 DEF LedgerInv

\* The watcher gives up, or is through.
LEMMA WatcherRests ==
    ASSUME TypeInv, LedgerInv, UNCHANGED <<now, ledger, lockouts>>, lost \subseteq lost',
           proc'["watcher"].op = "none",
           proc'["watcher"].pc \notin Asking \cup {"recording", "locking"}
    PROVE  LedgerInv'
<1>1. CountedLockouts'
  BY DEF LedgerInv, CountedLockouts
<1>2. ASSUME "ledger" \notin lost' PROVE ListsRecent' /\ CountsRecent'
  <2>1. ListsRecent
    BY <1>2 DEF LedgerInv
  <2>. QED
    BY <2>1 DEF ListsRecent, CountsRecent, Recents
<1>. QED
  BY <1>1, <1>2 DEF LedgerInv

\* The watcher asks for the key, of the file that it has read.
LEMMA KeyStepLedger ==
    ASSUME TypeInv, KeyInv, LedgerInv, NEW p \in Processes, KeyStep(p)
    PROVE  LedgerInv'
<1>1. /\ UNCHANGED <<now, ledger, lost, lockouts>> /\ now \in Nat
      /\ proc[p].pc \in Asking
  BY TypedFiles DEF KeyStep, GetKey, WriteKey, PutKey, history, At, Asking
<1>2. key' = key \/ key = NoKey
  BY DEF KeyStep, GetKey, WriteKey, PutKey, KeyInv, KeyOk, At
<1>3. CASE p # "watcher"
  <2>1. PICK next : Goes(p, next)
    BY DEF KeyStep, GetKey, WriteKey, PutKey
  <2>2. proc'["watcher"] = proc["watcher"]
    BY <1>3, <2>1, OthersStay DEF Processes
  <2>. QED
    BY <1>1, <1>2, <2>2, LedgerRests
<1>4. CASE p = "watcher"
  <2>. DEFINE w == proc["watcher"]
  <2>1. key # NoKey /\ key' = key
    BY <1>1, <1>2, <1>4 DEF KeyInv, BridgeFirst, At, Asking
  <2>2. w \in ProcType
    BY <1>4, ProcFields
  <2>3. PICK next \in {[w EXCEPT !.pc = "keyed", !.key = key],
                       [w EXCEPT !.pc = "newkey", !.key = made'],
                       [w EXCEPT !.pc = "putkey"], Idle} : Goes("watcher", next)
    BY <1>4, <2>1 DEF KeyStep, GetKey, WriteKey, PutKey, KeyInv, KeyOk, At
  <2>4. proc'["watcher"] = next
    BY <1>4, <2>3, OthersStay
  <2>5. CASE next = Idle
    BY <1>1, <2>4, <2>5, WatcherRests DEF Idle, Asking
  <2>6. CASE next # Idle
    <3>1. /\ next.pc \in {"keyed", "newkey", "putkey"} /\ next.op = w.op
          /\ next.read = w.read /\ next.count = w.count
      BY <2>2, <2>3, <2>6 DEF ProcType
    <3>2. CountedLockouts'
      BY <1>1, <1>4, <2>4, <3>1 DEF LedgerInv, CountedLockouts, Asking
    <3>3. "ledger" \notin lost => ListsRecent'
      BY <1>1, <1>4, <2>1, <2>4, <3>1 DEF LedgerInv, ListsRecent, Asking, Recents, Verifies
    <3>4. "ledger" \notin lost => CountsRecent'
      BY <1>1, <1>4, <2>4, <3>1 DEF LedgerInv, CountsRecent, Asking, Recents
    <3>. QED
      BY <1>1, <3>2, <3>3, <3>4 DEF LedgerInv
  <2>. QED
    BY <2>5, <2>6
<1>. QED
  BY <1>3, <1>4

\* What the watcher reads is the ledger.
LEMMA ReadIsLedger ==
    ASSUME TypeInv, KeyInv, CountedLockouts, NEW op \in {"count", "record"},
           NEW next, next = ReadLedger(op)
    PROVE  /\ next.pc \in Asking /\ next.op = op /\ next.at = now
           /\ next.read.incidents = ledger.incidents
           /\ ledger.kind # "bad"
                  => next.read.kind = "none" \/ Verifies(next.read, key)
<1>1. NoFile.kind = "none" /\ NoFile.incidents = {}
  BY NoFileType
<1>2. ledger.kind \in {"none", "ok", "bad"}
  BY TypedFiles DEF FilesTyped, FileType
<1>3. CASE ledger.kind = "none"
  <2>1. next = [Idle EXCEPT !.pc = "keyed", !.op = op, !.at = now]
    BY <1>3 DEF ReadLedger
  <2>2. /\ next.pc = "keyed" /\ next.op = op /\ next.at = now
        /\ next.read = NoFile
    BY <2>1 DEF Idle
  <2>. QED
    BY <1>1, <1>3, <2>2 DEF CountedLockouts, Asking
<1>4. CASE ledger.kind # "none"
  <2>1. next = [Idle EXCEPT !.pc = "key", !.op = op, !.read = ledger, !.at = now]
    BY <1>4 DEF ReadLedger
  <2>2. /\ next.pc = "key" /\ next.op = op /\ next.at = now
        /\ next.read = ledger
    BY <2>1 DEF Idle
  <2>3. ledger.kind # "bad" => Verifies(ledger, key)
    BY <1>2, <1>4 DEF KeyInv, RecordsVerify
  <2>. QED
    BY <2>2, <2>3 DEF Asking
<1>. QED
  BY <1>3, <1>4

\* A readable ledger is not cleared.
LEMMA ClearsLost ==
    ASSUME TypeInv, KeyInv, LedgerInv, At("watcher", "keyed"),
           proc["watcher"].op \in {"count", "record"}
    PROVE  /\ Clears(proc["watcher"]) \in {ledger, NoFile}
           /\ "ledger" \notin lost => /\ Readable(proc["watcher"])
                                     /\ Clears(proc["watcher"]) = ledger
<1>1. "ledger" \notin lost => Readable(proc["watcher"])
  BY DEF LedgerInv, ListsRecent, Asking, At, Readable, KeyInv, KeyOk, Processes
<1>. QED
  BY <1>1 DEF Clears

LEMMA CountLedger ==
    ASSUME TypeInv, KeyInv, LedgerInv, Count
    PROVE  LedgerInv'
<1>. DEFINE w == proc["watcher"]
<1>0. "watcher" \in Processes
  BY DEF Processes
<1>1. /\ At("watcher", "keyed") /\ w.op = "count" /\ ledger' = Clears(w)
      /\ UNCHANGED <<now, key, lost, lockouts>>
  BY DEF Count, Keyed, history
<1>2. PICK c : c = Counted(w)
  OBVIOUS
<1>3. PICK next : next = [Idle EXCEPT !.pc = "recording", !.count = c]
  OBVIOUS
<1>4. next.pc = "recording" /\ next.op = "none" /\ next.count = c
  BY <1>3 DEF Idle
<1>5. proc'["watcher"] = next
  BY <1>0, <1>2, <1>3, OthersStay DEF Count
<1>6. ledger' \in {ledger, NoFile} /\ ("ledger" \notin lost => Readable(w) /\ ledger' = ledger)
  BY <1>1, ClearsLost
<1>7. CountedLockouts'
  BY <1>1, <1>4, <1>5, <1>6, NoFileType DEF LedgerInv, CountedLockouts, At, Asking
<1>8. ASSUME "ledger" \notin lost PROVE ListsRecent' /\ CountsRecent'
  <2>1. ListsRecent /\ ledger' = ledger /\ Readable(w)
    BY <1>6, <1>8 DEF LedgerInv
  <2>. DEFINE counted == {i \in w.read.incidents : Recent(i, w.at)}
  <2>2. c = Cardinality(counted)
    BY <1>2, <2>1 DEF Counted
  <2>3. Recents \subseteq w.read.incidents /\ w.read.incidents \subseteq lockouts
    BY <1>1, <2>1 DEF ListsRecent, LedgerInv, CountedLockouts, At, Asking
  <2>4. now \in Nat /\ w.at \in 0..now /\ \A i \in lockouts : i.at \in Nat
    BY <1>0, ProcFields, TypedFiles DEF FilesTyped
  <2>5. Recents \subseteq counted
    BY <2>3, <2>4 DEF Recents, Recent
  <2>6. IsFiniteSet(counted)
    BY <2>3, FS_Subset DEF LedgerInv, CountedLockouts
  <2>7. Cardinality(Recents) <= c
    BY <2>2, <2>5, <2>6, FS_Subset
  <2>8. Recents' = Recents
    BY <1>1 DEF Recents
  <2>9. ListsRecent'
    BY <1>1, <1>4, <1>5, <2>1, <2>8 DEF ListsRecent, Asking
  <2>10. CountsRecent'
    BY <1>4, <1>5, <2>7, <2>8 DEF CountsRecent, Asking
  <2>. QED
    BY <2>9, <2>10
<1>. QED
  BY <1>1, <1>7, <1>8 DEF LedgerInv

LEMMA AppendLedger ==
    ASSUME TypeInv, KeyInv, LedgerInv, Append
    PROVE  LedgerInv'
<1>. DEFINE w == proc["watcher"]
<1>0. "watcher" \in Processes
  BY DEF Processes
<1>1. /\ At("watcher", "keyed") /\ w.op = "record" /\ ledger' = Clears(w)
      /\ UNCHANGED <<now, key, lost, lockouts>>
  BY DEF Append, Keyed, history
<1>2. PICK read : read = File("ok", NoKey, 0, FALSE, Kept(w) \cup {Incident(w)})
  OBVIOUS
<1>3. PICK next : next = [w EXCEPT !.pc = "key", !.op = "save", !.key = NoKey,
                                   !.read = read]
  OBVIOUS
<1>4. next.pc = "key" /\ next.op = "save" /\ next.read = read /\ next.count = w.count
  BY <1>0, <1>3, ProcFields DEF ProcType
<1>5. read.incidents = Kept(w) \cup {Incident(w)} /\ read.kind = "ok"
  BY <1>2 DEF File
<1>6. proc'["watcher"] = next
  BY <1>0, <1>2, <1>3, OthersStay DEF Append
<1>7. ledger' \in {ledger, NoFile} /\ ("ledger" \notin lost => Readable(w) /\ ledger' = ledger)
  BY <1>1, ClearsLost
<1>8. w.read.incidents \subseteq lockouts /\ Kept(w) \subseteq w.read.incidents
  BY <1>1 DEF LedgerInv, CountedLockouts, Kept
<1>9. CountedLockouts'
  BY <1>1, <1>4, <1>5, <1>6, <1>7, <1>8, NoFileType
     DEF LedgerInv, CountedLockouts, At, Asking
<1>10. ASSUME "ledger" \notin lost PROVE ListsRecent' /\ CountsRecent'
  <2>1. ListsRecent /\ CountsRecent /\ ledger' = ledger /\ Readable(w)
    BY <1>7, <1>10 DEF LedgerInv
  <2>2. Recents \subseteq w.read.incidents
    BY <1>1, <2>1 DEF ListsRecent, At, Asking
  <2>3. now \in Nat /\ w.at \in 0..now /\ \A i \in lockouts : i.at \in Nat
    BY <1>0, ProcFields, TypedFiles DEF FilesTyped
  <2>4. Recents \subseteq Kept(w)
    BY <1>8, <2>1, <2>2, <2>3 DEF Recents, Recent, Kept
  <2>5. Recents' = Recents
    BY <1>1 DEF Recents
  <2>6. ListsRecent'
    BY <1>1, <1>4, <1>5, <1>6, <2>1, <2>4, <2>5 DEF ListsRecent, Asking
  <2>7. CountsRecent'
    BY <1>1, <1>4, <1>6, <2>1, <2>5 DEF CountsRecent, Asking, At
  <2>. QED
    BY <2>6, <2>7
<1>. QED
  BY <1>1, <1>9, <1>10 DEF LedgerInv

LEMMA SaveLedgerLedger ==
    ASSUME TypeInv, KeyInv, LedgerInv, SaveLedger
    PROVE  LedgerInv'
<1>. DEFINE w == proc["watcher"]
<1>0. "watcher" \in Processes
  BY DEF Processes
<1>1. /\ At("watcher", "keyed") /\ w.op = "save" /\ UNCHANGED <<now, key>>
      /\ lockouts' = lockouts \cup w.read.incidents
  BY DEF SaveLedger, Keyed
<1>2. PICK next : next = [Idle EXCEPT !.pc = "locking", !.count = w.count]
  OBVIOUS
<1>3. next.pc = "locking" /\ next.op = "none" /\ next.count = w.count
  BY <1>2 DEF Idle
<1>4. proc'["watcher"] = next
  BY <1>0, <1>2, OthersStay DEF SaveLedger
<1>5. PICK inc : w.read.incidents \subseteq lockouts \cup {inc}
  BY <1>1 DEF LedgerInv, CountedLockouts
<1>6. w.read \in FileType /\ w.key = key /\ key \in Nat /\ now \in Nat
  BY <1>0, <1>1, ProcFields, TypedFiles DEF FilesTyped, KeyInv, KeyOk, At
<1>9. w.read.kind = "ok"
  BY <1>1 DEF LedgerInv, CountedLockouts
<1>7. \/ ledger' = ledger /\ lost' = lost \cup {"ledger"}
      \/ /\ lost' = lost
         /\ ledger'.kind = "ok" /\ ledger'.incidents = w.read.incidents
  BY <1>6, <1>9 DEF SaveLedger, FileType
<1>8. /\ IsFiniteSet(lockouts') /\ Cardinality(lockouts') <= Cardinality(lockouts) + 1
      /\ Cardinality(lockouts) < MaxLockouts
  <2>1. IsFiniteSet(lockouts) /\ Cardinality(lockouts) < MaxLockouts
    BY <1>1 DEF LedgerInv, CountedLockouts, At, Asking
  <2>2. /\ IsFiniteSet(lockouts \cup {inc})
        /\ Cardinality(lockouts \cup {inc}) <= Cardinality(lockouts) + 1
    <3>1. Cardinality(lockouts) \in Nat
      BY <2>1, FS_CardinalityType
    <3>. QED
      BY <2>1, <3>1, FS_AddElement
  <2>3. lockouts' \subseteq lockouts \cup {inc}
    BY <1>1, <1>5
  <2>4. IsFiniteSet(lockouts') /\ Cardinality(lockouts') <= Cardinality(lockouts \cup {inc})
    BY <2>2, <2>3, FS_Subset
  <2>5. /\ Cardinality(lockouts) \in Nat /\ Cardinality(lockouts') \in Nat
        /\ Cardinality(lockouts \cup {inc}) \in Nat
    BY <2>1, <2>2, <2>4, FS_CardinalityType
  <2>. QED
    BY <2>1, <2>2, <2>4, <2>5
<1>10. CountedLockouts'
  <2>1. ledger'.incidents \subseteq lockouts'
    BY <1>1, <1>7 DEF LedgerInv, CountedLockouts
  <2>2. ledger'.kind = "none" => ledger'.incidents = {}
    BY <1>7 DEF LedgerInv, CountedLockouts
  <2>3. Cardinality(lockouts') <= MaxLockouts
    <3>1. Cardinality(lockouts) \in Nat /\ Cardinality(lockouts') \in Nat
      BY <1>8, FS_CardinalityType DEF LedgerInv, CountedLockouts
    <3>. QED
      BY <1>8, <3>1
  <2>. QED
    BY <1>3, <1>4, <1>8, <2>1, <2>2, <2>3 DEF CountedLockouts, Asking
<1>11. ASSUME "ledger" \notin lost' PROVE ListsRecent' /\ CountsRecent'
  <2>1. /\ ListsRecent /\ CountsRecent
        /\ ledger'.kind = "ok" /\ ledger'.incidents = w.read.incidents
    BY <1>7, <1>11 DEF LedgerInv
  <2>2. Recents \subseteq w.read.incidents
    BY <1>1, <2>1 DEF ListsRecent, At, Asking
  <2>3. Recents' \subseteq w.read.incidents /\ Recents' \subseteq Recents \cup {inc}
    BY <1>1, <1>5, <2>2 DEF Recents
  <2>4. ListsRecent'
    BY <1>3, <1>4, <2>1, <2>3 DEF ListsRecent, Asking
  <2>5. IsFiniteSet(Recents) /\ Cardinality(Recents) \in Nat
    <3>1. Recents \subseteq lockouts /\ IsFiniteSet(lockouts)
      BY DEF Recents, LedgerInv, CountedLockouts
    <3>. QED
      BY <3>1, FS_Subset, FS_CardinalityType
  <2>6. Cardinality(Recents') \in Nat /\ Cardinality(Recents') <= Cardinality(Recents) + 1
    <3>1. /\ IsFiniteSet(Recents \cup {inc})
          /\ Cardinality(Recents \cup {inc}) <= Cardinality(Recents) + 1
      BY <2>5, FS_AddElement
    <3>4. Cardinality(Recents \cup {inc}) \in Nat
      BY <3>1, FS_CardinalityType
    <3>2. IsFiniteSet(Recents') /\ Cardinality(Recents') <= Cardinality(Recents \cup {inc})
      BY <2>3, <3>1, FS_Subset
    <3>3. Cardinality(Recents') \in Nat
      BY <3>2, FS_CardinalityType
    <3>. QED
      BY <2>5, <3>1, <3>2, <3>3, <3>4
  <2>7. w.count = Cap \/ Cardinality(Recents) <= w.count
    BY <1>1, <2>1 DEF CountsRecent, At, Asking
  <2>8. w.count \in Nat
    BY <1>0, ProcFields DEF Cap
  <2>9. w.count + 1 >= Cap \/ Cardinality(Recents') <= w.count + 1
    BY <2>5, <2>6, <2>7, <2>8 DEF Cap
  <2>10. CountsRecent'
    BY <1>3, <1>4, <2>9 DEF CountsRecent, Asking
  <2>. QED
    BY <2>4, <2>10
<1>. QED
  BY <1>10, <1>11 DEF LedgerInv

LEMMA WatcherLedger ==
    ASSUME TypeInv, KeyInv, LedgerInv, WatcherStep
    PROVE  LedgerInv'
<1>. DEFINE w == proc["watcher"]
<1>0. "watcher" \in Processes
  BY DEF Processes
<1>1. CASE Detect
  <2>1. PICK next : next = ReadLedger("count")
    OBVIOUS
  <2>2. /\ proc'["watcher"] = next /\ Cardinality(lockouts) < MaxLockouts
        /\ UNCHANGED <<now, key, ledger, lost, lockouts>>
    BY <1>0, <1>1, <2>1, OthersStay DEF Detect, files, history
  <2>3. /\ next.pc \in Asking /\ next.op = "count"
        /\ next.read.incidents = ledger.incidents
        /\ ledger.kind # "bad"
               => next.read.kind = "none" \/ Verifies(next.read, key)
    BY <2>1, ReadIsLedger DEF LedgerInv
  <2>4. CountedLockouts'
    BY <2>2, <2>3 DEF LedgerInv, CountedLockouts
  <2>5. "ledger" \notin lost => ListsRecent'
    BY <2>2, <2>3 DEF LedgerInv, ListsRecent, Recents, Verifies
  <2>6. CountsRecent'
    BY <2>2, <2>3 DEF CountsRecent, Asking
  <2>. QED
    BY <2>2, <2>4, <2>5, <2>6 DEF LedgerInv
<1>2. CASE Record
  <2>1. PICK read : read = ReadLedger("record")
    OBVIOUS
  <2>2. PICK next : next = [read EXCEPT !.count = w.count]
    OBVIOUS
  <2>3. /\ proc'["watcher"] = next /\ w.pc = "recording"
        /\ UNCHANGED <<now, key, ledger, lost, lockouts>>
    BY <1>0, <1>2, <2>1, <2>2, OthersStay DEF Record, files, history, At
  <2>4. /\ read.pc \in Asking /\ read.op = "record"
        /\ read.read.incidents = ledger.incidents
        /\ ledger.kind # "bad"
               => read.read.kind = "none" \/ Verifies(read.read, key)
    BY <2>1, ReadIsLedger DEF LedgerInv
  <2>5. /\ next.pc = read.pc /\ next.op = "record" /\ next.read = read.read
        /\ next.count = w.count
    BY <2>1, <2>2, <2>4 DEF ReadLedger, Idle
  <2>6. CountedLockouts'
    BY <2>3, <2>4, <2>5 DEF LedgerInv, CountedLockouts
  <2>7. "ledger" \notin lost => ListsRecent'
    <3>1. Recents' = Recents
      BY <2>3 DEF Recents
    <3>2. next.read.incidents = ledger.incidents
      BY <2>4, <2>5
    <3>3. ledger.kind # "bad"
              => next.read.kind = "none" \/ Verifies(next.read, key)
      BY <2>4, <2>5
    <3>. QED
      BY <2>3, <3>1, <3>2, <3>3 DEF LedgerInv, ListsRecent, Verifies
  <2>8. "ledger" \notin lost => CountsRecent'
    BY <2>3, <2>4, <2>5 DEF LedgerInv, CountsRecent, Recents, Asking
  <2>. QED
    BY <2>3, <2>6, <2>7, <2>8 DEF LedgerInv
<1>3. CASE Lock
  <2>1. PICK next : next = Idle
    OBVIOUS
  <2>2. /\ proc'["watcher"] = next
        /\ UNCHANGED <<now, ledger, lost, lockouts>>
    BY <1>0, <1>3, <2>1, OthersStay DEF Lock, files, history
  <2>3. next.op = "none" /\ next.pc = "idle"
    BY <2>1 DEF Idle
  <2>. QED
    BY <2>2, <2>3, WatcherRests DEF Asking
<1>. QED
  BY <1>1, <1>2, <1>3, CountLedger, AppendLedger, SaveLedgerLedger DEF WatcherStep

LEMMA LedgerStep == TypeInv /\ KeyInv /\ LedgerInv /\ [Next]_vars => LedgerInv'
<1>. SUFFICES ASSUME TypeInv, KeyInv, LedgerInv, [Next]_vars PROVE LedgerInv'
  OBVIOUS
<1>0. now \in Nat
  BY TypedFiles
<1>1. ASSUME NEW p \in Processes, NEW next, Goes(p, next),
             next.op = "none", next.pc \in {"idle", "recovery"},
             UNCHANGED <<now, key, ledger, lost, lockouts>>
      PROVE  LedgerInv'
  <2>1. CASE p = "watcher"
    <3>1. proc'["watcher"] = next
      BY <1>1, <2>1, OthersStay
    <3>. QED
      BY <1>1, <3>1, WatcherRests DEF Asking
  <2>2. CASE p # "watcher"
    <3>1. proc'["watcher"] = proc["watcher"]
      BY <1>1, <2>2, OthersStay DEF Processes
    <3>. QED
      BY <1>0, <1>1, <3>1, LedgerRests
  <2>. QED
    BY <2>1, <2>2
<1>2. ASSUME NEW p \in Processes, WriteMarker(p) PROVE LedgerInv'
  <2>1. PICK next \in {Idle, [Idle EXCEPT !.pc = "recovery"]} : Goes(p, next)
    BY <1>2 DEF WriteMarker
  <2>2. next.op = "none" /\ next.pc \in {"idle", "recovery"}
    BY <2>1 DEF Idle
  <2>. QED
    BY <1>1, <1>2, <2>1, <2>2 DEF WriteMarker
<1>3. ASSUME NEW p \in Processes, Crash(p) PROVE LedgerInv'
  <2>1. PICK next : next = Idle
    OBVIOUS
  <2>2. next.op = "none" /\ next.pc = "idle"
    BY <2>1 DEF Idle
  <2>. QED
    BY <1>1, <1>3, <2>1, <2>2 DEF Crash, files, history
<1>4. CASE BridgeStep \/ ServiceStep
  <2>1. PICK p \in {"bridge", "service"} : \E next : Goes(p, next)
    BY <1>4 DEF BridgeStep, ServiceStep, EnsureRecovery, CheckDeletion, Bootstrap,
                CheckRecovery, Generate, Sign, Load, Loaded, Refused, VerifyCode, Save,
                ReplaceState
  <2>2. PICK next : Goes(p, next)
    BY <2>1
  <2>3. proc'["watcher"] = proc["watcher"]
    BY <2>2, OthersStay DEF Processes
  <2>4. UNCHANGED <<now, key, ledger, lost, lockouts>>
    BY <1>4 DEF BridgeStep, ServiceStep, EnsureRecovery, CheckDeletion, Bootstrap,
                CheckRecovery, Generate, Sign, Load, Loaded, Refused, VerifyCode, Save,
                ReplaceState, files, history
  <2>. QED
    BY <1>0, <2>3, <2>4, LedgerRests
<1>5. CASE Tick \/ UNCHANGED vars
  <2>1. /\ UNCHANGED <<proc, key, ledger, lost, lockouts>>
        /\ now' \in Nat /\ now <= now'
    BY <1>0, <1>5 DEF Tick, vars, files, history
  <2>. QED
    BY <2>1, LedgerRests
<1>6. ASSUME NEW file \in {"state", "recovery", "ledger"}, Lose(file) PROVE LedgerInv'
  <2>1. UNCHANGED <<now, key, proc, lockouts>> /\ lost' = lost \cup {file}
    BY <1>6 DEF Lose
  <2>2. CASE file = "ledger"
    <3>1. ledger' \in Remains(now)
      BY <1>6, <2>2 DEF Lose
    <3>2. ledger'.incidents = {}
      BY <3>1 DEF Remains, NoFile, File
    <3>3. CountedLockouts'
      BY <2>1, <3>2 DEF LedgerInv, CountedLockouts
    <3>. QED
      BY <2>1, <2>2, <3>3 DEF LedgerInv
  <2>3. CASE file # "ledger"
    <3>1. ledger' = ledger
      BY <1>6, <2>3 DEF Lose
    <3>. QED
      BY <1>0, <2>1, <3>1, LedgerRests
  <2>. QED
    BY <2>2, <2>3
<1>. QED
  BY <1>2, <1>3, <1>4, <1>5, <1>6, KeyStepLedger, WatcherLedger DEF Next

-----------------------------------------------------------------------------
(* The theorems. *)

SignedInv == TypeInv /\ KeyInv /\ LedgerInv

LEMMA SignedInit == Init => SignedInv
<1>. SUFFICES ASSUME Init PROVE SignedInv
  OBVIOUS
<1>1. Idle \in ProcType /\ NoFile \in FileType /\ NoFile.kind = "none"
      /\ NoFile.incidents = {} /\ Idle.pc = "idle" /\ Idle.op = "none"
  BY IdleType, NoFileType DEF Init
<1>2. \A p \in Processes : proc[p] = Idle
  BY DEF Init
<1>3. TypeInv
  <2>1. proc \in [Processes -> ProcType]
    BY <1>1 DEF Init
  <2>2. \A p \in Processes : /\ proc[p].key \in 0..made
                             /\ proc[p].read \in FileType
                             /\ proc[p].count \in 0..MaxLockouts \cup {Cap}
                             /\ proc[p].at \in 0..now
    BY <1>1, <1>2 DEF ProcType
  <2>3. now = 0 /\ made = 0 /\ key = 0 /\ keyTmp = 0
    BY KeyNone DEF Init
  <2>4. /\ state \in FileType /\ recovery \in FileType /\ ledger \in FileType
        /\ faults \in 0..MaxFaults
        /\ lost \subseteq {"state", "recovery", "ledger"}
        /\ lockouts \subseteq [n : Nat, at : Nat]
    BY <1>1 DEF Init
  <2>7. marker \in BOOLEAN /\ wasOn \in BOOLEAN
    BY DEF Init
  <2>5. now \in Nat /\ key \in Nat /\ keyTmp \in Nat /\ made \in Nat
        /\ {key, keyTmp} \subseteq 0..made
    BY <2>3
  <2>6. TypeOK
    BY <2>2, <2>4, <2>5, <2>7 DEF TypeOK
  <2>. QED
    BY <2>1, <2>6 DEF TypeInv
<1>4. KeyInv
  BY <1>1, <1>2 DEF Init, KeyInv, KeyOk, BridgeFirst, RecordsVerify, At, Processes
<1>5. LedgerInv
  <2>1. Cardinality(lockouts) = 0 /\ IsFiniteSet(lockouts) /\ Recents = {}
    BY FS_EmptySet DEF Init, Recents
  <2>2. proc["watcher"] = Idle
    BY <1>2 DEF Processes
  <2>3. CountedLockouts
    BY <1>1, <2>1, <2>2 DEF Init, CountedLockouts, Asking
  <2>4. ListsRecent /\ CountsRecent
    BY <1>1, <2>1, <2>2 DEF Init, ListsRecent, CountsRecent, Asking
  <2>. QED
    BY <2>3, <2>4 DEF LedgerInv
<1>. QED
  BY <1>3, <1>4, <1>5 DEF SignedInv

\* Every reachable state has the types, the right keys and the right ledger.
THEOREM SignedInvariant == Spec => []SignedInv
<1>1. SignedInv /\ [Next]_vars => SignedInv'
  <2>1. LedgerInv => ReadsLockouts
    BY DEF LedgerInv, CountedLockouts, ReadsLockouts
  <2>. QED
    BY <2>1, TypeStep, KeysStep, LedgerStep DEF SignedInv
<1>. QED
  BY <1>1, SignedInit, PTL DEF Spec

\* What the files and the processes hold has its type.
THEOREM TypesKept == Spec => []TypeOK
<1>1. SignedInv => TypeOK
  BY DEF SignedInv, TypeInv
<1>. QED
  BY <1>1, SignedInvariant, PTL

\* Whatever is signed verifies, for any interleaving of the processes, any
\* number of crashes and of losses (crypto.py:88, the key made once).
THEOREM RecordsAlwaysVerify == Spec => []RecordsVerify
<1>1. SignedInv => RecordsVerify
  BY DEF SignedInv, KeyInv
<1>. QED
  BY <1>1, SignedInvariant, PTL

\* A record that is gone after protection was on is never bootstrapped anew.
THEOREM DeletionAlwaysNoticed == Spec => DeletionNoticed
<1>1. SignedInv /\ [Next]_vars
      => [At("bridge", "checking") /\ proc'["bridge"].pc = "key"
            => ~wasOn \/ state.kind # "none"]_vars
  <2>. SUFFICES ASSUME SignedInv, Next, At("bridge", "checking"),
                       proc'["bridge"].pc = "key", wasOn, state.kind = "none"
                PROVE  FALSE
    OBVIOUS
  <2>1. Deleted
    BY DEF SignedInv, KeyInv, Deleted
  <2>2. "bridge" \in Processes /\ TypeInv /\ proc["bridge"].pc = "checking"
    BY DEF Processes, SignedInv, At
  <2>3. Idle.pc = "idle" /\ proc["bridge"].pc # "key"
    BY <2>2 DEF Idle
  <2>4. ASSUME NEW p \in Processes, NEW next, Goes(p, next),
               p = "bridge" => next.pc # "key"
        PROVE  FALSE
    BY <2>2, <2>3, <2>4, OthersStay
  <2>5. ASSUME NEW p \in Processes, KeyStep(p) \/ WriteMarker(p) PROVE FALSE
    <3>1. p # "bridge"
      BY <2>2, <2>5 DEF KeyStep, GetKey, WriteKey, PutKey, WriteMarker, At
    <3>2. PICK next : Goes(p, next)
      BY <2>5 DEF KeyStep, GetKey, WriteKey, PutKey, WriteMarker
    <3>. QED
      BY <2>4, <3>1, <3>2
  <2>6. ASSUME NEW p \in Processes, Crash(p) PROVE FALSE
    <3>1. PICK next : next = Idle
      OBVIOUS
    <3>. QED
      BY <2>3, <2>4, <2>6, <3>1 DEF Crash
  <2>7. ~BridgeStep
    <3>1. CheckDeletion \/ ~BridgeStep
      BY <2>2 DEF BridgeStep, EnsureRecovery, Bootstrap, CheckRecovery, Generate, Sign,
                  Keyed, At
    <3>2. PICK next : next = Idle
      OBVIOUS
    <3>3. ~CheckDeletion
      BY <2>1, <2>2, <2>3, <2>4, <3>2 DEF CheckDeletion
    <3>. QED
      BY <3>1, <3>3
  <2>8. ~ServiceStep /\ ~WatcherStep
    <3>1. ASSUME ServiceStep \/ WatcherStep
          PROVE  \E p \in {"service", "watcher"} : \E next : Goes(p, next)
      BY <3>1 DEF ServiceStep, Load, Loaded, Refused, VerifyCode, Save, ReplaceState,
                  WatcherStep, Detect, Count, Record, Append, SaveLedger, Lock
    <3>. QED
      BY <2>4, <3>1 DEF Processes
  <2>9. ~Tick /\ \A file \in {"state", "recovery", "ledger"} : ~Lose(file)
    BY <2>3 DEF Tick, Lose
  <2>. QED
    BY <2>5, <2>6, <2>7, <2>8, <2>9 DEF Next
<1>. QED
  BY <1>1, SignedInvariant, PTL DEF Spec, DeletionNoticed

\* A repeated lockout is scaled by all that came in the window before it.
THEOREM RepeatsAlwaysScale == Spec => []RepeatsScale
<1>1. SignedInv => RepeatsScale
  <2>. SUFFICES ASSUME SignedInv, At("watcher", "locking"), "ledger" \notin lost
                PROVE  \/ proc["watcher"].count + 1 >= Cap
                       \/ proc["watcher"].count + 1 >= Cardinality(Recents)
    BY DEF RepeatsScale, Recents
  <2>1. CountsRecent /\ IsFiniteSet(lockouts)
    BY DEF SignedInv, LedgerInv, CountedLockouts
  <2>2. Cardinality(Recents) \in Nat
    <3>1. Recents \subseteq lockouts
      BY DEF Recents
    <3>. QED
      BY <2>1, <3>1, FS_Subset, FS_CardinalityType
  <2>3. proc["watcher"].count \in Nat
    BY ProcFields DEF SignedInv, Processes, Cap
  <2>. QED
    BY <2>1, <2>2, <2>3 DEF CountsRecent, At
<1>. QED
  BY <1>1, SignedInvariant, PTL

\* The key that is there is never replaced, whichever processes ask for it at
\* once and wherever they crash (load_or_create_hmac_key has no lock).
KeyStays == [][key # NoKey => key' = key]_vars

THEOREM KeyNeverReplaced == Spec => KeyStays
<1>1. SignedInv /\ [Next]_vars => [key # NoKey => key' = key]_vars
  <2>. SUFFICES ASSUME SignedInv, Next, key # NoKey PROVE key' = key
    OBVIOUS
  <2>1. ASSUME NEW p \in Processes, PutKey(p) PROVE FALSE
    BY <2>1 DEF PutKey, At, SignedInv, KeyInv, KeyOk
  <2>2. ASSUME NEW p \in Processes, KeyStep(p) \/ WriteMarker(p) \/ Crash(p)
        PROVE  key' = key
    BY <2>1, <2>2 DEF KeyStep, GetKey, WriteKey, WriteMarker, Crash, files
  <2>3. CASE BridgeStep
    BY <2>3 DEF BridgeStep, EnsureRecovery, CheckDeletion, Bootstrap, CheckRecovery,
                Generate, Sign, ReplaceState, files
  <2>4. CASE ServiceStep
    BY <2>4 DEF ServiceStep, Load, Loaded, Refused, VerifyCode, Save, ReplaceState,
                files
  <2>5. CASE WatcherStep
    BY <2>5 DEF WatcherStep, Detect, Count, Record, Append, SaveLedger, Lock, files
  <2>6. CASE Tick \/ \E file \in {"state", "recovery", "ledger"} : Lose(file)
    BY <2>6 DEF Tick, Lose, files
  <2>. QED
    BY <2>2, <2>3, <2>4, <2>5, <2>6 DEF Next
<1>. QED
  BY <1>1, SignedInvariant, PTL DEF Spec, KeyStays

-----------------------------------------------------------------------------
(* No false alarm. *)

\* A record that its readers would not trust was deleted or damaged by someone
\* else: no crash of the three processes leaves such a one.
AlarmIsReal == Deleted \/ state.kind = "bad" => "state" \in lost

Marking == \E p \in Processes : At(p, "marking")

\* The marker is only written, or about to be, where the record has been.
MarkedAfterSave ==
    /\ state.kind = "bad" => "state" \in lost
    /\ marker \/ Marking => state.kind # "none" \/ "state" \in lost

\* A step that does not save starts no marker.
LEMMA NoneMarks ==
    ASSUME TypeInv, NEW p \in Processes, proc'[p].pc # "marking",
           \E next : Goes(p, next)
    PROVE  Marking' => Marking
<1>1. \A q \in Processes : q # p => proc'[q] = proc[q]
  BY OthersStay
<1>. QED
  BY <1>1 DEF Marking, At

LEMMA AlarmStep == TypeInv /\ MarkedAfterSave /\ [Next]_vars => MarkedAfterSave'
<1>. SUFFICES ASSUME TypeInv, MarkedAfterSave, [Next]_vars PROVE MarkedAfterSave'
  OBVIOUS
<1>0. /\ \A p \in Processes : proc[p] \in ProcType
      /\ "bridge" \in Processes /\ "service" \in Processes /\ "watcher" \in Processes
      /\ Idle.pc = "idle" /\ DOMAIN proc = Processes
  BY DEF TypeInv, Processes, Idle
<1>1. ASSUME UNCHANGED <<state, marker>>, lost \subseteq lost', Marking' => Marking
      PROVE  MarkedAfterSave'
  BY <1>1 DEF MarkedAfterSave
<1>2. ASSUME NEW p \in Processes, NEW on, ReplaceState(p, on)
      PROVE  MarkedAfterSave'
  <2>1. state'.kind = "ok"
    BY <1>2 DEF ReplaceState, File
  <2>. QED
    BY <2>1 DEF MarkedAfterSave
<1>3. ASSUME NEW p \in Processes, KeyStep(p) PROVE MarkedAfterSave'
  <2>1. UNCHANGED <<state, marker, lost>>
    BY <1>3 DEF KeyStep, GetKey, WriteKey, PutKey, history
  <2>2. \E next : Goes(p, next)
    BY <1>3 DEF KeyStep, GetKey, WriteKey, PutKey
  <2>3. ASSUME NEW next, Goes(p, next), next.pc # "marking"
        PROVE  proc'[p].pc # "marking"
    BY <2>3, OthersStay
  <2>4. /\ \A k : [proc[p] EXCEPT !.pc = "keyed", !.key = k].pc # "marking"
        /\ \A k : [proc[p] EXCEPT !.pc = "newkey", !.key = k].pc # "marking"
        /\ [proc[p] EXCEPT !.pc = "keyed"].pc # "marking"
        /\ [proc[p] EXCEPT !.pc = "putkey"].pc # "marking"
    BY <1>0 DEF ProcType
  <2>5. ASSUME GetKey(p) PROVE proc'[p].pc # "marking"
    BY <2>3, <2>4, <2>5 DEF GetKey
  <2>6. ASSUME WriteKey(p) PROVE proc'[p].pc # "marking"
    BY <2>3, <2>4, <2>6 DEF WriteKey
  <2>7. ASSUME PutKey(p) PROVE proc'[p].pc # "marking"
    BY <1>0, <2>3, <2>4, <2>7 DEF PutKey
  <2>. QED
    BY <1>1, <1>3, <2>1, <2>2, <2>3, <2>5, <2>6, <2>7, NoneMarks DEF KeyStep
<1>4. ASSUME NEW p \in Processes, WriteMarker(p) PROVE MarkedAfterSave'
  <2>1. At(p, "marking") /\ UNCHANGED <<state, lost>>
    BY <1>4 DEF WriteMarker
  <2>2. Marking
    BY <2>1 DEF Marking
  <2>. QED
    BY <2>1, <2>2 DEF MarkedAfterSave
<1>5. ASSUME NEW p \in Processes, Crash(p) PROVE MarkedAfterSave'
  <2>1. UNCHANGED <<state, marker, lost>> /\ Goes(p, Idle)
    BY <1>5 DEF Crash, files, history
  <2>2. proc'[p].pc = "idle"
    BY <1>0, <2>1, OthersStay
  <2>. QED
    BY <1>1, <2>1, <2>2, NoneMarks
<1>6. CASE BridgeStep
  <2>1. CASE Bootstrap
    BY <1>0, <1>2, <2>1 DEF Bootstrap
  <2>2. CASE ~Bootstrap
    <3>1. UNCHANGED <<state, marker, lost>>
      BY <1>6, <2>2 DEF BridgeStep, EnsureRecovery, CheckDeletion, CheckRecovery,
         Generate, Sign, files, history
    <3>2. \E next : Goes("bridge", next)
      BY <1>6, <2>2 DEF BridgeStep, EnsureRecovery, CheckDeletion, CheckRecovery,
         Generate, Sign
    <3>3. proc'["bridge"].pc # "marking"
      BY <1>0, <1>6, <2>2 DEF BridgeStep, EnsureRecovery, CheckDeletion,
         CheckRecovery, Generate, Sign, Idle, Goes
    <3>. QED
      BY <1>0, <1>1, <3>1, <3>2, <3>3, NoneMarks
  <2>. QED
    BY <2>1, <2>2
<1>7. CASE ServiceStep
  <2>1. CASE Save
    BY <1>0, <1>2, <2>1 DEF Save
  <2>2. CASE ~Save
    <3>1. UNCHANGED <<state, marker, lost>>
      BY <1>7, <2>2 DEF ServiceStep, Load, Loaded, Refused, VerifyCode, files, history
    <3>2. \E next : Goes("service", next)
      BY <1>7, <2>2 DEF ServiceStep, Load, Loaded, Refused, VerifyCode
    <3>3. proc'["service"].pc # "marking"
      BY <1>0, <1>7, <2>2 DEF ServiceStep, Load, Loaded, Refused, VerifyCode, Idle,
         Goes
    <3>. QED
      BY <1>0, <1>1, <3>1, <3>2, <3>3, NoneMarks
  <2>. QED
    BY <2>1, <2>2
<1>8. CASE WatcherStep
  <2>1. UNCHANGED <<state, marker>> /\ lost \subseteq lost'
    BY <1>8 DEF WatcherStep, Detect, Count, Record, Append, SaveLedger, Lock, files,
       history
  <2>2. \E next : Goes("watcher", next)
    BY <1>8 DEF WatcherStep, Detect, Count, Record, Append, SaveLedger, Lock
  <2>3. ASSUME NEW next, Goes("watcher", next), next.pc # "marking"
        PROVE  proc'["watcher"].pc # "marking"
    BY <1>0, <2>3, OthersStay
  <2>4. \A op : ReadLedger(op).pc # "marking"
    BY DEF ReadLedger, Idle
  <2>5. ASSUME Detect PROVE proc'["watcher"].pc # "marking"
    BY <2>3, <2>4, <2>5 DEF Detect
  <2>6. ASSUME Count PROVE proc'["watcher"].pc # "marking"
    BY <2>3, <2>6 DEF Count, Idle
  <2>7. ASSUME Record PROVE proc'["watcher"].pc # "marking"
    <3>1. \A c : [ReadLedger("record") EXCEPT !.count = c].pc # "marking"
      BY DEF ReadLedger, Idle
    <3>. QED
      BY <2>3, <2>7, <3>1 DEF Record
  <2>8. ASSUME Append PROVE proc'["watcher"].pc # "marking"
    <3>1. \A k, read : [proc["watcher"] EXCEPT !.pc = "key", !.op = "save", !.key = k,
                                              !.read = read].pc # "marking"
      BY <1>0 DEF ProcType
    <3>. QED
      BY <2>3, <2>8, <3>1 DEF Append
  <2>9. ASSUME SaveLedger PROVE proc'["watcher"].pc # "marking"
    BY <2>3, <2>9 DEF SaveLedger, Idle
  <2>10. ASSUME Lock PROVE proc'["watcher"].pc # "marking"
    BY <1>0, <2>3, <2>10 DEF Lock
  <2>. QED
    BY <1>0, <1>1, <1>8, <2>1, <2>2, <2>5, <2>6, <2>7, <2>8, <2>9, <2>10, NoneMarks
       DEF WatcherStep
<1>9. ASSUME NEW file \in {"state", "recovery", "ledger"}, Lose(file)
      PROVE  MarkedAfterSave'
  <2>1. /\ lost' = lost \cup {file} /\ UNCHANGED <<marker, proc>>
        /\ file = "state" \/ state' = state
    BY <1>9 DEF Lose
  <2>. QED
    BY <2>1 DEF MarkedAfterSave, Marking, At
<1>10. CASE Tick \/ UNCHANGED vars
  <2>1. UNCHANGED <<state, marker, lost, proc>>
    BY <1>10 DEF Tick, vars, files, history
  <2>. QED
    BY <2>1 DEF MarkedAfterSave, Marking, At
<1>. QED
  BY <1>3, <1>4, <1>5, <1>6, <1>7, <1>8, <1>9, <1>10 DEF Next

\* Protection is never forced on by a crash: what looks deleted or tampered
\* with is (StateStore.save replaces the record before it writes the marker).
THEOREM AlarmAlwaysReal == Spec => []AlarmIsReal
<1>1. Init => MarkedAfterSave
  <2>1. Idle.pc = "idle" /\ NoFile.kind = "none"
    BY DEF Idle, NoFile, File
  <2>. QED
    BY <2>1 DEF Init, MarkedAfterSave, Marking, At
<1>2. MarkedAfterSave => AlarmIsReal
  BY DEF MarkedAfterSave, AlarmIsReal, Deleted
<1>3. SignedInv => TypeInv
  BY DEF SignedInv
<1>. QED
  BY <1>1, <1>2, <1>3, AlarmStep, SignedInvariant, PTL DEF Spec
=============================================================================
