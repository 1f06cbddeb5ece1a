-------------------------- MODULE LockoutLifecycle --------------------------
(***************************************************************************)
(* A full lockout from detection to end: lockout.json, the watcher that    *)
(* spawns the overlay and pauses for it, the overlay processes, the        *)
(* service's release, and the resume checks that bring an overlay back.    *)
(*                                                                         *)
(* The processes share files and nothing else.  One read or one write of a *)
(* file is one step; whatever a process does with what it read comes after *)
(* it, and other processes run in between.                                 *)
(***************************************************************************)
EXTENDS Naturals, FiniteSets

CONSTANTS
    Pids,          \* process ids an overlay can get
    NoPid,
    Strangers,     \* ids that another program can get once they are free
    Lengths,       \* lockout durations a detection asks for
    DefaultLength, \* lockout_duration_seconds of the settings file
    ReleaseDelays, \* lockout_recovery_delay_seconds
    Shutdowns,     \* the values shutdown_after_lockout takes
    MaxTime,       \* bound of the clock
    MaxEvents      \* bound on crashes, kills, reboots, damaged files and
                   \* turns of the switch

ASSUME LifecycleAssumption ==
    /\ NoPid \notin Pids
    /\ Strangers \subseteq Pids
    /\ Lengths \subseteq Nat
    /\ DefaultLength \in Nat
    /\ ReleaseDelays \subseteq Nat
    /\ Shutdowns \subseteq BOOLEAN
    /\ MaxTime \in Nat
    /\ MaxEvents \in Nat

VARIABLES
    now,       \* the clock
    on,        \* protection is enabled
    rec,       \* lockout.json
    pidFile,   \* lockout.pid
    lock,      \* lockout-resume.lock: "none", "fresh", or "stale" after 10 s
    overlay,   \* the overlay process with each id
    strangers, \* ids that belong to other programs
    watcher,   \* the watcher's memory
    events     \* counts what MaxEvents bounds

vars == <<now, on, rec, pidFile, lock, overlay, strangers, watcher, events>>

Record == [kind : {"none", "ok", "damaged"}, end : Nat,
           shut : BOOLEAN,      \* shutdown_on_done
           released : BOOLEAN]  \* message is LOCKOUT_RECOVERY_MESSAGE

NoRecord == [kind |-> "none", end |-> 0, shut |-> FALSE, released |-> FALSE]

\* Mutant: the message is left out.
RecordWithoutMessage(end, shut, released) ==
    [kind |-> "ok", end |-> end, shut |-> shut]

NewRecord(end, shut, released) ==
    [kind |-> "ok", end |-> end, shut |-> shut, released |-> released]

Active(r) == r.kind = "ok" /\ r.end > now

Over(r) == r.kind = "none" \/ (r.kind = "ok" /\ r.end <= now)

\* A process: "starting" has a duration to write down, "resuming" has a
\* record to read, "showing" knows its end, "up" has written its pid,
\* "closing" and "leaving" are about to clear the record.
Stages == {"free", "starting", "resuming", "showing", "up", "closing",
           "leaving"}

Overlay == [pc : Stages, length : Nat, end : Nat, shut : BOOLEAN,
            let : BOOLEAN]   \* history: the service released it

Idle == [pc |-> "free", length |-> 0, end |-> 0, shut |-> FALSE,
         let |-> FALSE]

Watcher == [pc : {"starting", "loop", "clearing"},
            until : Nat,          \* _lockout_until
            grace : BOOLEAN,      \* before _lockout_ui_spawn_grace_until
            recovered : BOOLEAN,  \* _lockout_was_recovered
            calm : BOOLEAN]       \* before _post_lockout_recovery_grace_until

FreshWatcher == [pc |-> "starting", until |-> 0, grace |-> FALSE,
                 recovered |-> FALSE, calm |-> FALSE]

Init ==
    /\ now = 0 /\ on = TRUE
    /\ rec = NoRecord /\ pidFile = NoPid /\ lock = "none"
    /\ overlay = [p \in Pids |-> Idle]
    /\ strangers = {}
    /\ watcher = FreshWatcher
    /\ events = 0

-----------------------------------------------------------------------------
(* Steps that several programs share. *)

Free(p) == overlay[p].pc = "free" /\ p \notin strangers

\* Mutant: the pid file alone is taken for a living overlay.
AliveByFile == pidFile # NoPid

\* psutil.pid_exists of what lockout.pid holds.
Alive == pidFile # NoPid /\ ~Free(pidFile)

\* clear_expired_lockout: unlinks the file, or asks the service to, which
\* may be out of reach or find the record not to be expired.
Clear == rec' \in {NoRecord, rec}

\* The end of spawn_resume_lockout_if_needed for a record that is not over:
\* nothing while an overlay lives or another resume holds the lock.  If no
\* process can be started the lock is given back.
SpawnResume ==
    /\ pidFile' = IF Alive THEN pidFile ELSE NoPid
    /\ \/ /\ Alive \/ lock = "fresh"
          /\ UNCHANGED <<lock, overlay>>
       \/ /\ ~Alive /\ lock # "fresh"
          /\ lock' = "fresh"
          /\ \E p \in Pids :
                 /\ Free(p)
                 /\ overlay' = [overlay EXCEPT
                                  ![p] = [Idle EXCEPT !.pc = "resuming"]]
       \/ /\ ~Alive /\ lock # "fresh"
          /\ \A p \in Pids : ~Free(p)
          /\ lock' = "none"
          /\ UNCHANGED overlay

ResumeIfNeeded ==
    IF Over(rec)
    THEN /\ IF rec.kind = "none" THEN UNCHANGED rec ELSE Clear
         /\ UNCHANGED <<pidFile, lock, overlay>>
    ELSE SpawnResume /\ UNCHANGED rec

\* The login script and the desktop app look for a lockout at any time.
ResumeCheck ==
    /\ ResumeIfNeeded
    /\ UNCHANGED <<now, on, strangers, watcher, events>>

-----------------------------------------------------------------------------
(* The watcher. *)

WatcherStart ==
    /\ watcher.pc = "starting"
    /\ ResumeIfNeeded
    /\ watcher' = [watcher EXCEPT !.pc = "loop"]
    /\ UNCHANGED <<now, on, strangers, events>>

Paused == now < watcher.until

\* _apply_hard_lockout, with the scaled duration and the setting it read.
Detect(length, shut) ==
    /\ watcher.pc = "loop" /\ on /\ ~Paused /\ ~watcher.calm
    /\ now + length <= MaxTime
    /\ \E p \in Pids :
           /\ Free(p)
           /\ overlay' = [overlay EXCEPT
                ![p] = [Idle EXCEPT !.pc = "starting", !.length = length,
                                    !.shut = shut]]
    /\ watcher' = [watcher EXCEPT !.until = now + length, !.grace = TRUE,
                                  !.recovered = FALSE, !.calm = FALSE]
    /\ UNCHANGED <<now, on, rec, pidFile, lock, strangers, events>>

Remembered(r) == watcher.recovered \/ (r.kind = "ok" /\ r.released)

\* _active_lockout_remaining reads a running lockout: the pause follows its
\* end, and an overlay that died is started again.
PollActive ==
    /\ watcher.pc = "loop" /\ on /\ Paused
    /\ Active(rec)
    /\ IF watcher.grace \/ Alive
       THEN /\ watcher' = [watcher EXCEPT !.until = rec.end,
                                          !.recovered = Remembered(rec)]
            /\ UNCHANGED <<pidFile, lock, overlay>>
       ELSE /\ watcher' = [watcher EXCEPT !.until = rec.end, !.grace = TRUE,
                                          !.recovered = Remembered(rec)]
            /\ SpawnResume
    /\ UNCHANGED <<now, on, rec, strangers, events>>

\* Mutant: only an expired record ends the pause, not a missing one.
PollExpired ==
    /\ watcher.pc = "loop" /\ on /\ Paused
    /\ rec.kind = "ok" /\ rec.end <= now
    /\ watcher' = [watcher EXCEPT !.pc = "clearing",
                                  !.recovered = Remembered(rec)]
    /\ UNCHANGED <<now, on, rec, pidFile, lock, overlay, strangers, events>>

\* It reads no lockout, or one that is over.  (One that does not verify
\* leaves the watcher paused until the end it remembers.)
PollOver ==
    /\ watcher.pc = "loop" /\ on /\ Paused
    /\ Over(rec)
    /\ watcher' = [watcher EXCEPT !.pc = "clearing",
                                  !.recovered = Remembered(rec)]
    /\ UNCHANGED <<now, on, rec, pidFile, lock, overlay, strangers, events>>

WatcherClear ==
    /\ watcher.pc = "clearing"
    /\ Clear
    /\ watcher' = [watcher EXCEPT !.pc = "loop", !.until = 0, !.grace = FALSE,
                                  !.recovered = FALSE,
                                  !.calm = @ \/ watcher.recovered]
    /\ UNCHANGED <<now, on, pidFile, lock, overlay, strangers, events>>

-----------------------------------------------------------------------------
(* The overlay process. *)

\* _run_persistent: write the record of this lockout.
StartRecord(p) ==
    /\ overlay[p].pc = "starting"
    /\ rec' = NewRecord(now + overlay[p].length, overlay[p].shut, FALSE)
    /\ overlay' = [overlay EXCEPT ![p].pc = "showing",
                                  ![p].end = now + overlay[p].length]
    /\ UNCHANGED <<now, on, pidFile, lock, strangers, watcher, events>>

\* _run_resume: what the record says, a full default lockout if it does not
\* verify, nothing if it is over.
Resumed(p) ==
    CASE Active(rec) -> [overlay[p] EXCEPT !.pc = "showing", !.end = rec.end,
                                           !.shut = rec.shut]
      [] Over(rec) -> [overlay[p] EXCEPT !.pc = "leaving"]
      [] OTHER -> [overlay[p] EXCEPT !.pc = "starting",
                                     !.length = DefaultLength]

ReadRecord(p) ==
    /\ overlay[p].pc = "resuming"
    /\ overlay' = [overlay EXCEPT ![p] = Resumed(p)]
    /\ UNCHANGED <<now, on, rec, pidFile, lock, strangers, watcher, events>>

\* write_lockout_pid, and the fullscreen windows.
Show(p) ==
    /\ overlay[p].pc = "showing"
    /\ overlay' = [overlay EXCEPT ![p].pc = "up"]
    /\ pidFile' = p
    /\ lock' = "none"
    /\ UNCHANGED <<now, on, rec, strangers, watcher, events>>

\* Mutant: without a record that says otherwise, shut down.
ShutsDownUnlessTold(p) == rec.kind = "ok" => rec.shut

\* on_done: an overlay that was to shut Windows down reads the record again.
ShutsDown(p) == overlay[p].shut /\ (rec.kind = "ok" => rec.shut)

Done(p) ==
    /\ overlay[p].pc = "up"
    /\ overlay[p].end <= now
    /\ overlay' = [overlay EXCEPT ![p].pc = "closing",
                                  ![p].shut = ShutsDown(p)]
    /\ UNCHANGED <<now, on, rec, pidFile, lock, strangers, watcher, events>>

\* Clear the record, shut down if so decided, remove the pid and exit.
Close(p) ==
    /\ overlay[p].pc \in {"closing", "leaving"}
    /\ Clear
    /\ pidFile' = IF pidFile = p THEN NoPid ELSE pidFile
    /\ overlay' = [overlay EXCEPT ![p] = Idle]
    /\ UNCHANGED <<now, on, lock, strangers, watcher, events>>

\* The user enters the recovery code; the service replaces the record of the
\* running lockout.  The overlay learns the new end unless the answer is
\* lost (the client waits five seconds).
Release(p, delay, answered) ==
    /\ overlay[p].pc = "up"
    /\ Active(rec)
    /\ now + delay <= MaxTime
    /\ rec' = NewRecord(now + delay, FALSE, TRUE)
    /\ overlay' = [overlay EXCEPT
         ![p].let = TRUE,
         ![p].end = IF answered THEN now + delay ELSE @]
    /\ UNCHANGED <<now, on, pidFile, lock, strangers, watcher, events>>

-----------------------------------------------------------------------------
(* Time, the switch and faults. *)

Tick ==
    /\ now < MaxTime
    /\ now' = now + 1
    /\ UNCHANGED <<on, rec, pidFile, lock, overlay, strangers, watcher, events>>

LockStales ==
    /\ lock = "fresh"
    /\ lock' = "stale"
    /\ UNCHANGED <<now, on, rec, pidFile, overlay, strangers, watcher, events>>

GraceEnds ==
    /\ watcher.grace
    /\ watcher' = [watcher EXCEPT !.grace = FALSE]
    /\ UNCHANGED <<now, on, rec, pidFile, lock, overlay, strangers, events>>

CalmEnds ==
    /\ watcher.calm
    /\ watcher' = [watcher EXCEPT !.calm = FALSE]
    /\ UNCHANGED <<now, on, rec, pidFile, lock, overlay, strangers, events>>

Event == events < MaxEvents /\ events' = events + 1

\* The service switches protection, by a command or a matured unlock.
Switch ==
    /\ Event
    /\ on' = ~on
    /\ UNCHANGED <<now, rec, pidFile, lock, overlay, strangers, watcher>>

Crash(p) ==
    /\ Event
    /\ overlay[p].pc # "free"
    /\ overlay' = [overlay EXCEPT ![p] = Idle]
    /\ UNCHANGED <<now, on, rec, pidFile, lock, strangers, watcher>>

RestartWatcher ==
    /\ Event
    /\ watcher' = FreshWatcher
    /\ UNCHANGED <<now, on, rec, pidFile, lock, overlay, strangers>>

\* A reboot takes longer than the resume lock stays fresh.
Reboot ==
    /\ Event
    /\ lock' = IF lock = "fresh" THEN "stale" ELSE lock
    /\ overlay' = [p \in Pids |-> Idle]
    /\ strangers' = {}
    /\ watcher' = FreshWatcher
    /\ UNCHANGED <<now, on, rec, pidFile>>

Damage ==
    /\ Event
    /\ rec.kind = "ok"
    /\ rec' = [rec EXCEPT !.kind = "damaged"]
    /\ UNCHANGED <<now, on, pidFile, lock, overlay, strangers, watcher>>

\* A reader finds the record unreadable (not even JSON) and older than
\* STALE_UNREADABLE_LOCKOUT_SECONDS, and deletes it.
DropUnreadable ==
    /\ rec.kind = "damaged"
    /\ rec' = NoRecord
    /\ UNCHANGED <<now, on, pidFile, lock, overlay, strangers, watcher, events>>

TakePid(p) ==
    /\ p \in Strangers
    /\ Free(p)
    /\ strangers' = strangers \cup {p}
    /\ UNCHANGED <<now, on, rec, pidFile, lock, overlay, watcher, events>>

OverlayStep(p) ==
    StartRecord(p) \/ ReadRecord(p) \/ Show(p) \/ Done(p) \/ Close(p)

WatcherStep == WatcherStart \/ PollActive \/ PollOver \/ WatcherClear

Next ==
    \/ ResumeCheck
    \/ WatcherStep
    \/ \E length \in Lengths, shut \in Shutdowns : Detect(length, shut)
    \/ \E p \in Pids : OverlayStep(p)
    \/ \E p \in Pids, delay \in ReleaseDelays, answered \in BOOLEAN :
           Release(p, delay, answered)
    \/ Tick \/ LockStales \/ GraceEnds \/ CalmEnds \/ Switch
    \/ \E p \in Pids : Crash(p)
    \/ RestartWatcher \/ Reboot \/ Damage \/ DropUnreadable
    \/ \E p \in Pids : TakePid(p)

Spec == Init /\ [][Next]_vars

\* Every process that runs takes its steps, the watcher polls, and the
\* delays of the monotonic clock elapse.  Nothing is assumed of the user, of
\* detections, of the service's switch or of the wall clock.
FairSpec ==
    /\ Spec
    /\ WF_vars(WatcherStep)
    /\ \A p \in Pids : WF_vars(OverlayStep(p))
    /\ WF_vars(LockStales) /\ WF_vars(GraceEnds) /\ WF_vars(CalmEnds)

-----------------------------------------------------------------------------
(* Correctness. *)

TypeOK ==
    /\ now \in Nat /\ on \in BOOLEAN
    /\ rec \in Record
    /\ pidFile \in Pids \cup {NoPid}
    /\ lock \in {"none", "fresh", "stale"}
    /\ overlay \in [Pids -> Overlay]
    /\ strangers \subseteq Pids
    /\ watcher \in Watcher
    /\ events \in 0..MaxEvents

\* No overlay decides to shut Windows down where the setting never asked for
\* it: neither one resumed after a crash or a reboot, nor one whose record is
\* gone, replaced or damaged when it ends, adds a shutdown of its own.
ShutdownWasAsked ==
    \A p \in Pids :
        overlay[p].pc = "closing" /\ overlay[p].shut => TRUE \in Shutdowns

Shown == \E p \in Pids : overlay[p].pc = "up"

Supervised == watcher.pc = "loop" /\ on /\ Paused

\* lockout.pid names a dead overlay whose id another program has got.
Misled == pidFile \in strangers

\* An overlay that died during a lockout the watcher is paused for comes
\* back, whatever crashed on the way and whatever the pid file and the resume
\* lock were left holding, short of a reused process id.
OverlayReturns ==
    (Active(rec) /\ Supervised)
        ~> (Shown \/ Misled \/ ~Active(rec) \/ ~Supervised)

\* "Scanning resumes promptly after recovery completes" (watcher.py): with
\* the lockout over, cleared or released, the watcher does not sleep until
\* the end it once remembered, even if the clock never gets there.
ScanningResumes ==
    (Supervised /\ Over(rec)) ~> (~Supervised \/ ~Over(rec))

\* A released lockout "skips shutdown at the end" (docs/RECOVERY_CODE.md).
ReleaseSkipsShutdown ==
    \A p \in Pids :
        overlay[p].let /\ overlay[p].pc = "closing" => ~overlay[p].shut
=============================================================================
