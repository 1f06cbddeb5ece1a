------------------------ MODULE LockoutLifecycleProofs ------------------------
(***************************************************************************)
(* Proofs about LockoutLifecycle, for any process ids, any number of       *)
(* overlays at once, any lengths and delays, and any number of faults.     *)
(***************************************************************************)
EXTENDS LockoutLifecycle, TLAPS

-----------------------------------------------------------------------------
(* What a step can do to an overlay, to the record and to the watcher. *)

\* The process that a resume check starts.
Resuming == [Idle EXCEPT !.pc = "resuming"]

\* The process that a detection starts.
Asked(length, shut) ==
    [Idle EXCEPT !.pc = "starting", !.length = length, !.shut = shut]

\* One of its own steps, or a release.
Moved(p) ==
    {[overlay[p] EXCEPT !.pc = "showing", !.end = now + overlay[p].length],
     Resumed(p),
     [overlay[p] EXCEPT !.pc = "up"],
     [overlay[p] EXCEPT !.pc = "closing", !.shut = ShutsDown(p)]}
    \cup {[overlay[p] EXCEPT !.let = TRUE, !.end = now + d] : d \in ReleaseDelays}
    \cup {[overlay[p] EXCEPT !.let = TRUE, !.end = overlay[p].end]}

OverlayChange(p) ==
    \/ overlay'[p] \in {overlay[p], Idle, Resuming}
    \/ \E length \in Lengths, shut \in Shutdowns : overlay'[p] = Asked(length, shut)
    \/ overlay'[p] \in Moved(p)

RecordChange ==
    \/ rec' \in {rec, NoRecord, [rec EXCEPT !.kind = "damaged"]}
    \/ \E p \in Pids : rec' = NewRecord(now + overlay[p].length, overlay[p].shut, FALSE)
    \/ \E d \in ReleaseDelays : rec' = NewRecord(now + d, FALSE, TRUE)

PauseChange ==
    \/ watcher'.until \in {watcher.until, 0, rec.end}
    \/ \E length \in Lengths : watcher'.until = now + length

\* Every step touches one overlay, all of them, or none.
LEMMA OneOverlay ==
    ASSUME overlay \in [Pids -> Overlay], NEW p \in Pids, NEW o,
           overlay' = [overlay EXCEPT ![p] = o]
    PROVE  /\ overlay' = [q \in Pids |-> overlay'[q]]
           /\ overlay'[p] = o
           /\ \A q \in Pids : q # p => overlay'[q] = overlay[q]
OBVIOUS

OverlaysChange == /\ overlay' = [q \in Pids |-> overlay'[q]]
                  /\ \A q \in Pids : OverlayChange(q)

LEMMA OverlayKept ==
    ASSUME TypeOK, overlay' = overlay
    PROVE  OverlaysChange
BY DEF TypeOK, OverlaysChange, OverlayChange

LEMMA OverlayOfOne ==
    ASSUME TypeOK, NEW p \in Pids, NEW o, overlay' = [overlay EXCEPT ![p] = o],
           \/ o \in {Idle, Resuming}
           \/ \E length \in Lengths, shut \in Shutdowns : o = Asked(length, shut)
           \/ o \in Moved(p)
    PROVE  OverlaysChange
<1>1. overlay \in [Pids -> Overlay]
  BY DEF TypeOK
<1>2. /\ overlay' = [q \in Pids |-> overlay'[q]] /\ overlay'[p] = o
      /\ \A q \in Pids : q # p => overlay'[q] = overlay[q]
  BY <1>1, OneOverlay
<1>. QED
  BY <1>2 DEF OverlaysChange, OverlayChange

\* spawn_resume_lockout_if_needed starts one process at most.
LEMMA ResumeChanges ==
    ASSUME TypeOK, SpawnResume \/ ResumeIfNeeded
    PROVE  /\ OverlaysChange
           /\ pidFile' \in Pids \cup {NoPid}
           /\ lock' \in {"none", "fresh", "stale"}
           /\ ResumeIfNeeded => rec' \in {NoRecord, rec}
<1>1. ASSUME SpawnResume
      PROVE  /\ OverlaysChange /\ pidFile' \in Pids \cup {NoPid}
             /\ lock' \in {"none", "fresh", "stale"}
  <2>1. pidFile' \in Pids \cup {NoPid}
    BY <1>1 DEF SpawnResume, TypeOK
  <2>2. lock' \in {"none", "fresh", "stale"}
    BY <1>1 DEF SpawnResume, TypeOK
  <2>3. \/ overlay' = overlay
        \/ \E p \in Pids : overlay' = [overlay EXCEPT ![p] = Resuming]
    BY <1>1 DEF SpawnResume, Resuming
  <2>4. OverlaysChange
    BY <2>3, OverlayKept, OverlayOfOne
  <2>. QED
    BY <2>1, <2>2, <2>4
<1>2. CASE SpawnResume /\ ~ResumeIfNeeded
  BY <1>1, <1>2
<1>3. CASE ResumeIfNeeded
  <2>1. rec' \in {NoRecord, rec}
    BY <1>3 DEF ResumeIfNeeded, Clear
  <2>2. SpawnResume \/ UNCHANGED <<pidFile, lock, overlay>>
    BY <1>3 DEF ResumeIfNeeded
  <2>3. UNCHANGED <<pidFile, lock, overlay>> =>
            /\ OverlaysChange /\ pidFile' \in Pids \cup {NoPid}
            /\ lock' \in {"none", "fresh", "stale"}
    BY OverlayKept DEF TypeOK
  <2>. QED
    BY <1>1, <2>1, <2>2, <2>3
<1>. QED
  BY <1>2, <1>3

Changes == OverlaysChange /\ RecordChange /\ PauseChange

\* The steps of the watcher.
LEMMA WatcherChanges ==
    ASSUME TypeOK,
           \/ WatcherStep
           \/ \E length \in Lengths, shut \in Shutdowns : Detect(length, shut)
    PROVE  Changes
<1>1. CASE WatcherStart
  <2>1. watcher'.until = watcher.until
    BY <1>1 DEF WatcherStart, TypeOK, Watcher
  <2>2. OverlaysChange /\ rec' \in {NoRecord, rec}
    BY <1>1, ResumeChanges DEF WatcherStart
  <2>. QED
    BY <2>1, <2>2 DEF Changes, RecordChange, PauseChange
<1>2. CASE PollActive
  <2>1. watcher'.until = rec.end /\ rec' = rec
    BY <1>2 DEF PollActive, TypeOK, Watcher
  <2>2. SpawnResume \/ overlay' = overlay
    BY <1>2 DEF PollActive
  <2>3. OverlaysChange
    BY <2>2, OverlayKept, ResumeChanges
  <2>. QED
    BY <2>1, <2>3 DEF Changes, RecordChange, PauseChange
<1>3. CASE PollOver
  <2>1. watcher'.until = watcher.until /\ rec' = rec /\ overlay' = overlay
    BY <1>3 DEF PollOver, TypeOK, Watcher
  <2>. QED
    BY <2>1, OverlayKept DEF Changes, RecordChange, PauseChange
<1>4. CASE WatcherClear
  <2>1. watcher'.until = 0 /\ rec' \in {NoRecord, rec} /\ overlay' = overlay
    BY <1>4 DEF WatcherClear, Clear, TypeOK, Watcher
  <2>. QED
    BY <2>1, OverlayKept DEF Changes, RecordChange, PauseChange
<1>5. ASSUME NEW length \in Lengths, NEW shut \in Shutdowns, Detect(length, shut)
      PROVE  Changes
  <2>1. watcher'.until = now + length /\ rec' = rec
    BY <1>5 DEF Detect, TypeOK, Watcher
  <2>2. PICK p \in Pids : overlay' = [overlay EXCEPT ![p] = Asked(length, shut)]
    BY <1>5 DEF Detect, Asked
  <2>3. OverlaysChange
    BY <2>2, OverlayOfOne
  <2>. QED
    BY <2>1, <2>3 DEF Changes, RecordChange, PauseChange
<1>. QED
  BY <1>1, <1>2, <1>3, <1>4, <1>5 DEF WatcherStep

\* The steps of an overlay, and its release.
LEMMA OverlayChanges ==
    ASSUME TypeOK, NEW p \in Pids,
           \/ OverlayStep(p)
           \/ \E d \in ReleaseDelays, answered \in BOOLEAN : Release(p, d, answered)
    PROVE  Changes
<1>0. overlay \in [Pids -> Overlay]
  BY DEF TypeOK
<1>1. CASE StartRecord(p)
  <2>1. overlay' = [overlay EXCEPT ![p] =
                      [overlay[p] EXCEPT !.pc = "showing",
                                         !.end = now + overlay[p].length]]
    BY <1>0, <1>1 DEF StartRecord
  <2>2. OverlaysChange
    BY <2>1, OverlayOfOne DEF Moved
  <2>. QED
    BY <1>1, <2>2 DEF StartRecord, Changes, RecordChange, PauseChange
<1>2. CASE ReadRecord(p)
  <2>1. overlay' = [overlay EXCEPT ![p] = Resumed(p)]
    BY <1>2 DEF ReadRecord
  <2>2. OverlaysChange
    BY <2>1, OverlayOfOne DEF Moved
  <2>. QED
    BY <1>2, <2>2 DEF ReadRecord, Changes, RecordChange, PauseChange
<1>3. CASE Show(p)
  <2>1. overlay' = [overlay EXCEPT ![p] = [overlay[p] EXCEPT !.pc = "up"]]
    BY <1>0, <1>3 DEF Show
  <2>2. OverlaysChange
    BY <2>1, OverlayOfOne DEF Moved
  <2>. QED
    BY <1>3, <2>2 DEF Show, Changes, RecordChange, PauseChange
<1>4. CASE Done(p)
  <2>1. overlay' = [overlay EXCEPT ![p] =
                      [overlay[p] EXCEPT !.pc = "closing", !.shut = ShutsDown(p)]]
    BY <1>0, <1>4 DEF Done
  <2>2. OverlaysChange
    BY <2>1, OverlayOfOne DEF Moved
  <2>. QED
    BY <1>4, <2>2 DEF Done, Changes, RecordChange, PauseChange
<1>5. CASE Close(p)
  <2>1. OverlaysChange
    BY <1>5, OverlayOfOne DEF Close
  <2>. QED
    BY <1>5, <2>1 DEF Close, Clear, Changes, RecordChange, PauseChange
<1>6. ASSUME NEW d \in ReleaseDelays, NEW answered \in BOOLEAN,
             Release(p, d, answered)
      PROVE  Changes
  <2>1. \/ overlay' = [overlay EXCEPT ![p] =
                         [overlay[p] EXCEPT !.let = TRUE, !.end = now + d]]
        \/ overlay' = [overlay EXCEPT ![p] =
                         [overlay[p] EXCEPT !.let = TRUE, !.end = overlay[p].end]]
    BY <1>0, <1>6 DEF Release
  <2>2. OverlaysChange
    BY <2>1, OverlayOfOne DEF Moved
  <2>3. rec' = NewRecord(now + d, FALSE, TRUE) /\ watcher' = watcher
    BY <1>6 DEF Release
  <2>. QED
    BY <2>2, <2>3 DEF Changes, RecordChange, PauseChange
<1>. QED
  BY <1>1, <1>2, <1>3, <1>4, <1>5, <1>6 DEF OverlayStep

\* Every step.
LEMMA StepChanges == TypeOK /\ [Next]_vars => Changes
<1>. SUFFICES ASSUME TypeOK, [Next]_vars PROVE Changes
  OBVIOUS
<1>1. CASE ResumeCheck
  <2>1. OverlaysChange /\ rec' \in {NoRecord, rec}
    BY <1>1, ResumeChanges DEF ResumeCheck
  <2>. QED
    BY <1>1, <2>1 DEF ResumeCheck, Changes, RecordChange, PauseChange
<1>2. CASE \/ Tick \/ LockStales \/ Switch \/ UNCHANGED vars
           \/ \E p \in Pids : TakePid(p)
  <2>1. UNCHANGED <<rec, overlay, watcher>>
    BY <1>2 DEF Tick, LockStales, Switch, TakePid, vars
  <2>. QED
    BY <2>1, OverlayKept DEF Changes, RecordChange, PauseChange
<1>3. CASE GraceEnds \/ CalmEnds
  <2>1. UNCHANGED <<rec, overlay>> /\ watcher'.until = watcher.until
    BY <1>3 DEF GraceEnds, CalmEnds, TypeOK, Watcher
  <2>. QED
    BY <2>1, OverlayKept DEF Changes, RecordChange, PauseChange
<1>4. ASSUME NEW p \in Pids, Crash(p) PROVE Changes
  <2>1. OverlaysChange
    BY <1>4, OverlayOfOne DEF Crash
  <2>. QED
    BY <1>4, <2>1 DEF Crash, Changes, RecordChange, PauseChange
<1>5. CASE RestartWatcher
  <2>1. UNCHANGED <<rec, overlay>> /\ watcher'.until = 0
    BY <1>5 DEF RestartWatcher, FreshWatcher
  <2>. QED
    BY <2>1, OverlayKept DEF Changes, RecordChange, PauseChange
<1>6. CASE Reboot
  <2>1. rec' = rec /\ watcher'.until = 0 /\ overlay' = [p \in Pids |-> Idle]
    BY <1>6 DEF Reboot, FreshWatcher
  <2>. QED
    BY <2>1 DEF Changes, OverlaysChange, OverlayChange, RecordChange, PauseChange
<1>7. CASE Damage \/ DropUnreadable
  <2>1. /\ rec' \in {NoRecord, [rec EXCEPT !.kind = "damaged"]}
        /\ UNCHANGED <<overlay, watcher>>
    BY <1>7 DEF Damage, DropUnreadable
  <2>. QED
    BY <2>1, OverlayKept DEF Changes, RecordChange, PauseChange
<1>. QED
  BY <1>1, <1>2, <1>3, <1>4, <1>5, <1>6, <1>7, WatcherChanges, OverlayChanges
  DEF Next

-----------------------------------------------------------------------------
(* Types. *)

LEMMA IdleType ==
    /\ Idle \in Overlay /\ Resuming \in Overlay
    /\ NoRecord \in Record /\ FreshWatcher \in Watcher
BY DEF Idle, Resuming, Overlay, Stages, NoRecord, Record, FreshWatcher, Watcher

LEMMA MovedType ==
    ASSUME TypeOK, NEW p \in Pids
    PROVE  Moved(p) \subseteq Overlay
<1>1. overlay[p] \in Overlay /\ now \in Nat /\ rec \in Record
  BY DEF TypeOK
<1>2. ASSUME NEW o \in Overlay, NEW n \in Nat, NEW b \in BOOLEAN
      PROVE  /\ [o EXCEPT !.pc = "showing", !.end = n] \in Overlay
             /\ [o EXCEPT !.pc = "showing", !.end = n, !.shut = b] \in Overlay
             /\ [o EXCEPT !.pc = "leaving"] \in Overlay
             /\ [o EXCEPT !.pc = "starting", !.length = n] \in Overlay
             /\ [o EXCEPT !.pc = "up"] \in Overlay
             /\ [o EXCEPT !.pc = "closing", !.shut = b] \in Overlay
             /\ [o EXCEPT !.let = TRUE, !.end = n] \in Overlay
  BY DEF Overlay, Stages
<1>3. /\ overlay[p].end \in Nat /\ now + overlay[p].length \in Nat
      /\ \A d \in ReleaseDelays : now + d \in Nat
  BY <1>1, LifecycleAssumption DEF Overlay
<1>4. ShutsDown(p) \in BOOLEAN
  BY <1>1 DEF ShutsDown, Overlay, Record
<1>5. rec.end \in Nat /\ rec.shut \in BOOLEAN /\ DefaultLength \in Nat
  BY <1>1, LifecycleAssumption DEF Record
<1>6. Resumed(p) \in Overlay
  BY <1>1, <1>2, <1>5 DEF Resumed
<1>7. /\ [overlay[p] EXCEPT !.pc = "showing", !.end = now + overlay[p].length]
             \in Overlay
      /\ [overlay[p] EXCEPT !.pc = "up"] \in Overlay
      /\ [overlay[p] EXCEPT !.let = TRUE, !.end = overlay[p].end] \in Overlay
  BY <1>1, <1>2, <1>3
<1>8. [overlay[p] EXCEPT !.pc = "closing", !.shut = ShutsDown(p)] \in Overlay
  BY <1>1, <1>2, <1>4
<1>9. \A d \in ReleaseDelays :
          [overlay[p] EXCEPT !.let = TRUE, !.end = now + d] \in Overlay
  BY <1>1, <1>2, <1>3
<1>. QED
  BY <1>6, <1>7, <1>8, <1>9 DEF Moved

\* Overlays, record and watcher keep their types.
LEMMA ChangesTyped ==
    ASSUME TypeOK, Changes
    PROVE  overlay' \in [Pids -> Overlay] /\ rec' \in Record
<1>1. /\ overlay \in [Pids -> Overlay] /\ now \in Nat /\ rec \in Record
  BY DEF TypeOK
<1>2. ASSUME NEW p \in Pids PROVE overlay'[p] \in Overlay
  <2>1. ASSUME NEW length \in Lengths, NEW shut \in Shutdowns
        PROVE  Asked(length, shut) \in Overlay
    <3>1. length \in Nat /\ shut \in BOOLEAN
      BY LifecycleAssumption
    <3>. QED
      BY <3>1 DEF Asked, Idle, Overlay, Stages
  <2>2. overlay[p] \in Overlay
    BY <1>1
  <2>3. OverlayChange(p)
    BY DEF Changes, OverlaysChange
  <2>. QED
    BY <2>1, <2>2, <2>3, IdleType, MovedType DEF OverlayChange
<1>3. overlay' \in [Pids -> Overlay]
  BY <1>2 DEF Changes, OverlaysChange
<1>4. rec' \in Record
  <2>1. NoRecord \in Record /\ [rec EXCEPT !.kind = "damaged"] \in Record
    BY <1>1 DEF NoRecord, Record
  <2>2. ASSUME NEW n \in Nat, NEW shut \in BOOLEAN, NEW released \in BOOLEAN
        PROVE  NewRecord(n, shut, released) \in Record
    BY DEF NewRecord, Record
  <2>3. \A p \in Pids : now + overlay[p].length \in Nat /\ overlay[p].shut \in BOOLEAN
    BY <1>1 DEF Overlay
  <2>4. \A d \in ReleaseDelays : now + d \in Nat
    BY <1>1, LifecycleAssumption
  <2>. QED
    BY <1>1, <2>1, <2>2, <2>3, <2>4 DEF Changes, RecordChange
<1>. QED
  BY <1>3, <1>4

LEMMA TypeInit == Init => TypeOK
<1>1. ASSUME Init PROVE on \in BOOLEAN
  BY <1>1 DEF Init
<1>. QED
  BY <1>1, IdleType, LifecycleAssumption DEF Init, TypeOK

\* Every step keeps the types.
LEMMA TypeStep == TypeOK /\ [Next]_vars => TypeOK'
<1>. SUFFICES ASSUME TypeOK, [Next]_vars PROVE TypeOK'
  OBVIOUS
<1>1. overlay' \in [Pids -> Overlay] /\ rec' \in Record
  BY StepChanges, ChangesTyped
<1>2. now' \in Nat
  <2>1. now' = now \/ now' = now + 1
    BY Zenon DEF Next, ResumeCheck, WatcherStep, WatcherStart, PollActive, PollOver,
       WatcherClear, Detect, OverlayStep, StartRecord, ReadRecord, Show, Done, Close,
       Release, Tick, LockStales, GraceEnds, CalmEnds, Switch, Crash,
       RestartWatcher, Reboot, Damage, DropUnreadable, TakePid, vars
  <2>. QED
    BY <2>1 DEF TypeOK
<1>3. on' \in BOOLEAN
  <2>1. on' = on \/ on' = ~on
    BY Zenon DEF Next, ResumeCheck, WatcherStep, WatcherStart, PollActive, PollOver,
       WatcherClear, Detect, OverlayStep, StartRecord, ReadRecord, Show, Done, Close,
       Release, Tick, LockStales, GraceEnds, CalmEnds, Switch, Crash,
       RestartWatcher, Reboot, Damage, DropUnreadable, TakePid, vars
  <2>. QED
    BY <2>1 DEF TypeOK
<1>4. /\ pidFile' \in Pids \cup {NoPid}
      /\ lock' \in {"none", "fresh", "stale"}
  <2>1. CASE ResumeCheck \/ WatcherStart \/ PollActive
    <3>1. SpawnResume \/ ResumeIfNeeded \/ UNCHANGED <<pidFile, lock>>
      BY <2>1 DEF ResumeCheck, WatcherStart, PollActive
    <3>. QED
      BY <3>1, ResumeChanges DEF TypeOK
  <2>2. CASE ~(ResumeCheck \/ WatcherStart \/ PollActive)
    BY <2>2 DEF TypeOK, Next, WatcherStep, PollOver,
       WatcherClear, Detect, OverlayStep, StartRecord, ReadRecord, Show, Done, Close,
       Release, Tick, LockStales, GraceEnds, CalmEnds, Switch, Crash,
       RestartWatcher, Reboot, Damage, DropUnreadable, TakePid, vars
  <2>. QED
    BY <2>1, <2>2
<1>5. strangers' \subseteq Pids
  BY DEF TypeOK, Next, ResumeCheck, WatcherStep, WatcherStart, PollActive, PollOver,
     WatcherClear, Detect, OverlayStep, StartRecord, ReadRecord, Show, Done, Close,
     Release, Tick, LockStales, GraceEnds, CalmEnds, Switch, Crash,
     RestartWatcher, Reboot, Damage, DropUnreadable, TakePid, vars
<1>6. watcher' \in Watcher
  <2>1. /\ watcher \in Watcher /\ now \in Nat /\ rec.end \in Nat
        /\ rec.released \in BOOLEAN
    BY DEF TypeOK, Record
  <2>2. Remembered(rec) \in BOOLEAN
    BY <2>1 DEF Remembered, Watcher
  <2>3. ASSUME NEW w \in Watcher, NEW n \in Nat, NEW b \in BOOLEAN
        PROVE  /\ [w EXCEPT !.pc = "loop"] \in Watcher
               /\ [w EXCEPT !.until = n, !.recovered = b] \in Watcher
               /\ [w EXCEPT !.until = n, !.grace = TRUE, !.recovered = b] \in Watcher
               /\ [w EXCEPT !.pc = "clearing", !.recovered = b] \in Watcher
               /\ [w EXCEPT !.pc = "loop", !.until = 0, !.grace = FALSE,
                            !.recovered = FALSE, !.calm = b] \in Watcher
               /\ [w EXCEPT !.until = n, !.grace = TRUE, !.recovered = FALSE,
                            !.calm = FALSE] \in Watcher
               /\ [w EXCEPT !.grace = FALSE] \in Watcher
               /\ [w EXCEPT !.calm = FALSE] \in Watcher
    BY DEF Watcher
  <2>4. CASE WatcherStart
    BY <2>1, <2>3, <2>4 DEF WatcherStart
  <2>5. CASE PollActive
    <3>1. \/ watcher' = [watcher EXCEPT !.until = rec.end,
                                        !.recovered = Remembered(rec)]
          \/ watcher' = [watcher EXCEPT !.until = rec.end, !.grace = TRUE,
                                        !.recovered = Remembered(rec)]
      BY <2>5 DEF PollActive
    <3>2. /\ [watcher EXCEPT !.until = rec.end,
                             !.recovered = Remembered(rec)] \in Watcher
          /\ [watcher EXCEPT !.until = rec.end, !.grace = TRUE,
                             !.recovered = Remembered(rec)] \in Watcher
      BY <2>1, <2>2, <2>3
    <3>. QED
      BY <3>1, <3>2
  <2>6. CASE PollOver
    BY <2>1, <2>2, <2>3, <2>6 DEF PollOver
  <2>7. CASE WatcherClear
    <3>1. (watcher.calm \/ watcher.recovered) \in BOOLEAN
      OBVIOUS
    <3>. QED
      BY <2>1, <2>3, <2>7, <3>1 DEF WatcherClear
  <2>8. ASSUME NEW length \in Lengths, NEW shut \in Shutdowns, Detect(length, shut)
        PROVE  watcher' \in Watcher
    <3>1. now + length \in Nat
      BY <2>1, LifecycleAssumption
    <3>2. watcher' = [watcher EXCEPT !.until = now + length, !.grace = TRUE,
                                     !.recovered = FALSE, !.calm = FALSE]
      BY <2>8 DEF Detect
    <3>. QED
      BY <2>1, <2>3, <3>1, <3>2
  <2>9. CASE GraceEnds \/ CalmEnds
    BY <2>1, <2>3, <2>9 DEF GraceEnds, CalmEnds
  <2>10. CASE RestartWatcher \/ Reboot
    BY <2>10, IdleType DEF RestartWatcher, Reboot
  <2>11. CASE watcher' = watcher
    BY <2>1, <2>11
  <2>. QED
    BY <2>4, <2>5, <2>6, <2>7, <2>8, <2>9, <2>10, <2>11 DEF WatcherStep, Next,
       ResumeCheck, OverlayStep, StartRecord, ReadRecord, Show, Done, Close, Release,
       Tick, LockStales, Switch, Crash, Damage, DropUnreadable, TakePid, vars
<1>7. events' \in 0..MaxEvents
  <2>1. events' = events \/ (events < MaxEvents /\ events' = events + 1)
    BY DEF Event, Next, ResumeCheck, WatcherStep, WatcherStart, PollActive, PollOver,
       WatcherClear, Detect, OverlayStep, StartRecord, ReadRecord, Show, Done, Close,
       Release, Tick, LockStales, GraceEnds, CalmEnds, Switch, Crash,
       RestartWatcher, Reboot, Damage, DropUnreadable, TakePid, vars
  <2>. QED
    BY <2>1, LifecycleAssumption DEF TypeOK
<1>. QED
  BY <1>1, <1>2, <1>3, <1>4, <1>5, <1>6, <1>7 DEF TypeOK

\* Every variable keeps its type, whatever the processes leave behind.
THEOREM TypeCorrect == Spec => []TypeOK
BY TypeInit, TypeStep, PTL DEF Spec

-----------------------------------------------------------------------------
(* Shutdowns. *)

\* A flag that asks for a shutdown, in the record or in any process, was
\* asked for by the setting: a resumed overlay takes it from the record, and
\* one that finds the record damaged takes no flag at all.
AskedFor ==
    /\ rec.shut => TRUE \in Shutdowns
    /\ \A p \in Pids : overlay[p].shut => TRUE \in Shutdowns

\* The record of a release asks for none, damaged or not.
ReleasedIsQuiet == rec.released => ~rec.shut

ShutdownInv == AskedFor /\ ReleasedIsQuiet

LEMMA ShutdownInit == Init => ShutdownInv
<1>1. ~NoRecord.shut /\ ~Idle.shut
  BY DEF NoRecord, Idle
<1>. QED
  BY <1>1 DEF Init, ShutdownInv, AskedFor, ReleasedIsQuiet

\* What a step makes of one overlay's flag.
LEMMA FlagOfChange ==
    ASSUME TypeOK, AskedFor, NEW p \in Pids, OverlayChange(p), overlay'[p].shut
    PROVE  TRUE \in Shutdowns
<1>1. overlay[p] \in Overlay
  BY DEF TypeOK
<1>2. CASE overlay'[p] \in {overlay[p], Idle, Resuming}
  <2>1. ~Idle.shut /\ ~Resuming.shut
    BY DEF Idle, Resuming
  <2>2. overlay'[p] = overlay[p]
    BY <1>2, <2>1
  <2>3. overlay[p].shut
    BY <2>2, Zenon
  <2>. QED
    BY <2>3 DEF AskedFor
<1>3. ASSUME NEW length \in Lengths, NEW shut \in Shutdowns,
             overlay'[p] = Asked(length, shut)
      PROVE  TRUE \in Shutdowns
  <2>1. overlay'[p].shut = shut /\ shut \in BOOLEAN
    BY <1>3, LifecycleAssumption DEF Asked, Idle
  <2>2. shut = TRUE
    BY <2>1, Zenon
  <2>. QED
    BY <2>2
<1>4. CASE overlay'[p] \in Moved(p)
  <2>1. Resumed(p).shut => rec.shut \/ overlay[p].shut
    BY <1>1 DEF Resumed, Overlay
  <2>2. ShutsDown(p) => overlay[p].shut
    BY DEF ShutsDown
  <2>3. overlay[p].shut \/ rec.shut
    BY <1>1, <1>4, <2>1, <2>2 DEF Moved, Overlay
  <2>. QED
    BY <2>3 DEF AskedFor
<1>. QED
  BY <1>2, <1>3, <1>4 DEF OverlayChange

LEMMA ShutdownStep == TypeOK /\ ShutdownInv /\ [Next]_vars => ShutdownInv'
<1>. SUFFICES ASSUME TypeOK, ShutdownInv, [Next]_vars PROVE ShutdownInv'
  OBVIOUS
<1>. USE DEF ShutdownInv
<1>1. OverlaysChange /\ RecordChange
  BY StepChanges DEF Changes
<1>2. \A p \in Pids : overlay'[p].shut => TRUE \in Shutdowns
  BY <1>1, FlagOfChange DEF OverlaysChange
<1>3. /\ rec'.shut => rec.shut \/ \E p \in Pids : overlay[p].shut
      /\ rec'.released /\ rec'.shut => rec.released /\ rec.shut
  <2>1. CASE rec' \in {rec, NoRecord, [rec EXCEPT !.kind = "damaged"]}
    <3>1. ~NoRecord.shut /\ rec \in Record
      BY DEF NoRecord, TypeOK
    <3>. QED
      BY <2>1, <3>1 DEF Record
  <2>2. ASSUME NEW p \in Pids,
               rec' = NewRecord(now + overlay[p].length, overlay[p].shut, FALSE)
        PROVE  rec'.shut = overlay[p].shut /\ rec'.released = FALSE
    BY <2>2 DEF NewRecord
  <2>3. ASSUME NEW d \in ReleaseDelays, rec' = NewRecord(now + d, FALSE, TRUE)
        PROVE  rec'.shut = FALSE
    BY <2>3 DEF NewRecord
  <2>. QED
    BY <1>1, <2>1, <2>2, <2>3 DEF RecordChange
<1>4. AskedFor'
  BY <1>2, <1>3 DEF AskedFor
<1>5. ReleasedIsQuiet'
  BY <1>3 DEF ReleasedIsQuiet
<1>. QED
  BY <1>4, <1>5

\* Nothing shuts Windows down that the setting did not ask to: the flag that
\* _on_done acts on has come from _apply_hard_lockout, through any number of
\* records, crashes and resumes.
THEOREM ShutdownAlwaysAsked == Spec => []ShutdownWasAsked
<1>1. ShutdownInv => ShutdownWasAsked
  BY DEF ShutdownInv, AskedFor, ShutdownWasAsked
<1>. QED
  BY <1>1, TypeInit, TypeStep, ShutdownInit, ShutdownStep, PTL DEF Spec

\* Neither the record nor any process asks for a shutdown.
NoFlag == ~rec.shut /\ \A p \in Pids : ~overlay[p].shut

\* With the setting turned on and off between the lockouts: where nothing asks
\* for a shutdown, only a new lockout whose detection read that it is on brings
\* a flag (shutdown_after_lockout as _apply_hard_lockout passes it on); no
\* resume, restart, release or damaged record does.
FlagsOnlyDetected ==
    [][NoFlag /\ ~NoFlag'
       => \E p \in Pids, length \in Lengths : overlay'[p] = Asked(length, TRUE)]_vars

THEOREM FlagsAlwaysDetected == Spec => FlagsOnlyDetected
<1>1. ASSUME TypeOK, [Next]_vars, NoFlag, ~NoFlag'
      PROVE  \E p \in Pids, length \in Lengths : overlay'[p] = Asked(length, TRUE)
  <2>1. OverlaysChange /\ RecordChange
    BY <1>1, StepChanges DEF Changes
  <2>2. rec \in Record /\ ~NoRecord.shut /\ ~Idle.shut /\ ~Resuming.shut
    BY <1>1 DEF TypeOK, NoRecord, Idle, Resuming
  <2>3. ~rec'.shut
    <3>1. CASE rec' \in {rec, NoRecord, [rec EXCEPT !.kind = "damaged"]}
      BY <1>1, <2>2, <3>1 DEF Record, NoFlag
    <3>2. ASSUME NEW p \in Pids,
                 rec' = NewRecord(now + overlay[p].length, overlay[p].shut, FALSE)
          PROVE  ~rec'.shut
      <4>1. rec'.shut = overlay[p].shut
        BY <3>2 DEF NewRecord
      <4>. QED
        BY <1>1, <4>1 DEF NoFlag
    <3>3. ASSUME NEW d \in ReleaseDelays, rec' = NewRecord(now + d, FALSE, TRUE)
          PROVE  ~rec'.shut
      BY <3>3 DEF NewRecord
    <3>. QED
      BY <2>1, <3>1, <3>2, <3>3 DEF RecordChange
  <2>4. PICK p \in Pids : overlay'[p].shut
    BY <1>1, <2>3 DEF NoFlag
  <2>5. overlay[p] \in Overlay /\ ~overlay[p].shut /\ ~rec.shut
    BY <1>1 DEF TypeOK, NoFlag
  <2>6. OverlayChange(p)
    BY <2>1 DEF OverlaysChange
  <2>7. overlay'[p] \notin {overlay[p], Idle, Resuming}
    BY <2>2, <2>4, <2>5, Zenon
  <2>8. overlay'[p] \notin Moved(p)
    <3>1. ~Resumed(p).shut /\ ~ShutsDown(p)
      BY <2>5 DEF Resumed, Overlay, ShutsDown
    <3>. QED
      BY <2>4, <2>5, <3>1 DEF Moved, Overlay
  <2>9. PICK length \in Lengths, shut \in Shutdowns : overlay'[p] = Asked(length, shut)
    BY <2>6, <2>7, <2>8 DEF OverlayChange
  <2>10. shut = TRUE
    <3>1. Asked(length, shut).shut = shut /\ shut \in BOOLEAN
      BY LifecycleAssumption DEF Asked, Idle
    <3>2. shut
      BY <2>4, <2>9, <3>1, Zenon
    <3>. QED
      BY <3>1, <3>2
  <2>. QED
    BY <2>9, <2>10
<1>2. TypeOK /\ [Next]_vars =>
        [NoFlag /\ ~NoFlag'
         => \E p \in Pids, length \in Lengths : overlay'[p] = Asked(length, TRUE)]_vars
  BY <1>1
<1>. QED
  BY <1>2, TypeInit, TypeStep, PTL DEF Spec, FlagsOnlyDetected

\* An overlay that ends while the record of a release can be read does not
\* shut Windows down, whoever wrote the record and whatever it was started
\* with.  (What is left of docs/RECOVERY_CODE.md where ReleaseSkipsShutdown
\* fails: only a record that is gone, damaged or replaced makes it.)
ReleaseHonouredIfRead ==
    [][\A p \in Pids :
         /\ overlay[p].pc = "up" /\ overlay'[p].pc = "closing"
         /\ rec.kind = "ok" /\ rec.released
         => ~overlay'[p].shut]_vars

THEOREM ReleaseAlwaysHonouredIfRead == Spec => ReleaseHonouredIfRead
<1>1. ASSUME TypeOK, ShutdownInv, [Next]_vars, NEW p \in Pids,
             overlay[p].pc = "up", overlay'[p].pc = "closing",
             rec.kind = "ok", rec.released
      PROVE  ~overlay'[p].shut
  <2>1. overlay[p] \in Overlay /\ rec \in Record
    BY <1>1 DEF TypeOK
  <2>2. OverlayChange(p)
    BY <1>1, StepChanges DEF Changes, OverlaysChange
  <2>3. overlay'[p] \notin {overlay[p], Idle, Resuming}
    BY <1>1 DEF Idle, Resuming
  <2>4. \A length \in Lengths, shut \in Shutdowns : overlay'[p] # Asked(length, shut)
    BY <1>1 DEF Asked, Idle
  <2>5. overlay'[p] \in Moved(p)
    BY <2>2, <2>3, <2>4 DEF OverlayChange
  <2>6. Resumed(p).pc # "closing"
    BY <2>1 DEF Resumed, Overlay
  <2>7. overlay'[p] = [overlay[p] EXCEPT !.pc = "closing", !.shut = ShutsDown(p)]
    BY <1>1, <2>1, <2>5, <2>6 DEF Moved, Overlay
  <2>8. ~ShutsDown(p)
    BY <1>1 DEF ShutsDown, ShutdownInv, ReleasedIsQuiet
  <2>9. overlay'[p].shut = ShutsDown(p)
    BY <2>1, <2>7 DEF Overlay
  <2>. QED
    BY <2>8, <2>9
<1>2. TypeOK /\ ShutdownInv /\ [Next]_vars =>
        [\A p \in Pids :
           /\ overlay[p].pc = "up" /\ overlay'[p].pc = "closing"
           /\ rec.kind = "ok" /\ rec.released
           => ~overlay'[p].shut]_vars
  BY <1>1
<1>. QED
  BY <1>2, TypeInit, TypeStep, ShutdownInit, ShutdownStep, PTL
  DEF Spec, ReleaseHonouredIfRead

-----------------------------------------------------------------------------
(* How long it can last. *)

Longest(bound) ==
    \A n \in Lengths \cup {DefaultLength} \cup ReleaseDelays : n <= bound

\* Nothing in files or processes reaches further than the longest lockout.
InReach(bound) ==
    /\ rec.end <= now + bound
    /\ watcher.until <= now + bound
    /\ \A p \in Pids : overlay[p].end <= now + bound /\ overlay[p].length <= bound

LEMMA ReachStep ==
    ASSUME NEW bound \in Nat, Longest(bound)
    PROVE  TypeOK /\ InReach(bound) /\ [Next]_vars => InReach(bound)'
<1>. SUFFICES ASSUME TypeOK, InReach(bound), [Next]_vars PROVE InReach(bound)'
  OBVIOUS
<1>1. /\ OverlaysChange /\ RecordChange /\ PauseChange
  BY StepChanges DEF Changes
<1>2. /\ now \in Nat /\ rec \in Record /\ watcher.until \in Nat
      /\ rec.end \in Nat /\ \A p \in Pids : overlay[p] \in Overlay
      /\ rec.end <= now + bound /\ watcher.until <= now + bound
      /\ \A p \in Pids : /\ overlay[p].end \in Nat /\ overlay[p].length \in Nat
                         /\ overlay[p].end <= now + bound
                         /\ overlay[p].length <= bound
  BY DEF TypeOK, Record, Watcher, Overlay, InReach
<1>3. /\ DefaultLength \in Nat /\ DefaultLength <= bound
      /\ \A d \in ReleaseDelays \cup Lengths : d \in Nat /\ d <= bound
  BY LifecycleAssumption DEF Longest
<1>4. now' \in Nat /\ now' >= now
  <2>1. now' = now \/ now' = now + 1
    BY Zenon DEF Next, ResumeCheck, WatcherStep, WatcherStart, PollActive, PollOver,
       WatcherClear, Detect, OverlayStep, StartRecord, ReadRecord, Show, Done, Close,
       Release, Tick, LockStales, GraceEnds, CalmEnds, Switch, Crash,
       RestartWatcher, Reboot, Damage, DropUnreadable, TakePid, vars
  <2>. QED
    BY <1>2, <2>1
<1>5. rec'.end \in Nat /\ rec'.end <= now + bound
  <2>1. CASE rec' \in {rec, NoRecord, [rec EXCEPT !.kind = "damaged"]}
    <3>1. rec'.end \in {rec.end, 0}
      BY <1>2, <2>1 DEF NoRecord, Record
    <3>. QED
      BY <1>2, <3>1
  <2>2. ASSUME NEW p \in Pids,
               rec' = NewRecord(now + overlay[p].length, overlay[p].shut, FALSE)
        PROVE  rec'.end \in Nat /\ rec'.end <= now + bound
    <3>1. rec'.end = now + overlay[p].length
      BY <2>2 DEF NewRecord
    <3>. QED
      BY <1>2, <3>1
  <2>3. ASSUME NEW d \in ReleaseDelays, rec' = NewRecord(now + d, FALSE, TRUE)
        PROVE  rec'.end \in Nat /\ rec'.end <= now + bound
    <3>1. rec'.end = now + d
      BY <2>3 DEF NewRecord
    <3>. QED
      BY <1>2, <1>3, <3>1
  <2>. QED
    BY <1>1, <2>1, <2>2, <2>3 DEF RecordChange
<1>6. watcher'.until \in Nat /\ watcher'.until <= now + bound
  BY <1>1, <1>2, <1>3 DEF PauseChange
<1>7. ASSUME NEW p \in Pids
      PROVE  /\ overlay'[p].end \in Nat /\ overlay'[p].end <= now + bound
             /\ overlay'[p].length \in Nat /\ overlay'[p].length <= bound
  <2>1. OverlayChange(p)
    BY <1>1 DEF OverlaysChange
  <2>2. CASE overlay'[p] \in {overlay[p], Idle, Resuming}
    <3>1. /\ overlay'[p].end \in {overlay[p].end, 0}
          /\ overlay'[p].length \in {overlay[p].length, 0}
      BY <2>2 DEF Idle, Resuming
    <3>. QED
      BY <1>2, <3>1
  <2>3. ASSUME NEW length \in Lengths, NEW shut \in Shutdowns,
               overlay'[p] = Asked(length, shut)
        PROVE  overlay'[p].end = 0 /\ overlay'[p].length = length
    BY <2>3 DEF Asked, Idle
  <2>4. CASE overlay'[p] \in Moved(p)
    <3>1. /\ overlay'[p].end \in {overlay[p].end, rec.end, now + overlay[p].length}
                                 \cup {now + d : d \in ReleaseDelays}
          /\ overlay'[p].length \in {overlay[p].length, DefaultLength}
      BY <1>2, <2>4 DEF Moved, Resumed, Overlay
    <3>. QED
      BY <1>2, <1>3, <3>1
  <2>5. CASE \E length \in Lengths, shut \in Shutdowns :
                 overlay'[p] = Asked(length, shut)
    BY <1>2, <1>3, <2>3, <2>5
  <2>. QED
    BY <2>1, <2>2, <2>4, <2>5 DEF OverlayChange
<1>. QED
  BY <1>2, <1>4, <1>5, <1>6, <1>7 DEF InReach

\* However often overlays, watchers and records are lost and brought back, no
\* lockout that is left reaches further than the longest one there is, from
\* any moment on: resumes and restarts add nothing to it.
THEOREM LockoutsStayInReach ==
    ASSUME NEW CONSTANT bound \in Nat, Longest(bound)
    PROVE  Spec => []InReach(bound)
<1>1. Init => InReach(bound)
  BY DEF Init, InReach, NoRecord, FreshWatcher, Idle
<1>2. TypeOK /\ InReach(bound) /\ [Next]_vars => InReach(bound)'
  BY ReachStep
<1>. QED
  BY <1>1, <1>2, TypeInit, TypeStep, PTL DEF Spec
=============================================================================
