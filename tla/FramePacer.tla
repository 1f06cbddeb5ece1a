----------------------------- MODULE FramePacer -----------------------------
(***************************************************************************)
(* When the watcher looks at the screen, and how                           *)
(* (brake/service/scan_pacer.py, scan_environment.py and the loop of       *)
(* brake/service/watcher.py around them).                                  *)
(*                                                                         *)
(* One pass of the loop is Wake, which lets the time slept go by, and one  *)
(* of the actions that follow it.  A clock would grow for ever; the code   *)
(* only compares it with times it stored, so what is kept here is how long *)
(* ago each of them was, up to Far.  A frame is its content, as far as the *)
(* block diff of two frames can tell contents apart: a change it does not  *)
(* notice, such as a slow fade, is none.  What a scan finds is an input.   *)
(***************************************************************************)
EXTENDS Naturals

CONSTANTS
    Contents,        \* what the screen can show
    NoFrame,         \* no frame has been seen yet
    Lateness,        \* by how much a pass can be late: inference, load
    ActiveTick,      \* ACTIVE_TICK_SECONDS
    SustainedTick,   \* SUSTAINED_TICK_SECONDS
    IdleTick,        \* IDLE_TICK_SECONDS
    IdleAfter,       \* IDLE_AFTER_SECONDS
    SustainedAfter,  \* SUSTAINED_AFTER_SECONDS
    BurstMin,        \* BURST_MIN_SPACING_SECONDS
    BurstSpacing,    \* BURST_SCAN_SPACING_SECONDS
    SustainedScan,   \* sustained_scan_seconds
    FullSweep,       \* SUSTAINED_FULL_SWEEP_SECONDS
    SettleMin,       \* SETTLE_MIN_SPACING_SECONDS
    SafetySweep,     \* SAFETY_SWEEP_SECONDS
    ShareTick,       \* the least tick beside a screen share
    FullscreenTick,  \* and under a fullscreen window
    TransitionPause, \* transition_pause_seconds
    DeferTick,       \* the longest sleep of a deferred pass
    IdlePass,        \* the sleep of a pass that does not look
    Far              \* bound of every age

MaxStreak == 2       \* FAST_RESCAN_MAX_STREAK

\* _paced, with POWER_SAVER_FACTOR.
PacedBy(saver, time) == IF saver THEN (3 * time) \div 2 ELSE time

ASSUME PacerAssumption ==
    /\ NoFrame \notin Contents
    /\ Lateness \subseteq Nat
    /\ {ActiveTick, SustainedTick, IdleTick, IdleAfter, SustainedAfter,
        BurstMin, BurstSpacing, SustainedScan, FullSweep, SettleMin,
        SafetySweep, ShareTick, FullscreenTick, TransitionPause, DeferTick,
        IdlePass, Far} \subseteq Nat
    /\ SettleMin <= ActiveTick /\ TransitionPause # 0
    /\ ActiveTick <= SustainedTick /\ ActiveTick <= IdleTick
    /\ BurstMin <= BurstSpacing /\ IdleAfter <= Far
    /\ \A age \in {SustainedAfter, BurstMin, BurstSpacing, SustainedScan,
                   FullSweep, SettleMin, SafetySweep} :
           PacedBy(TRUE, age) <= Far

VARIABLES
    frame,       \* _prev: what the last frame showed
    lastScan,    \* ages of _last_scan_at,
    lastFull,    \*         _last_full_sweep_at,
    lastChange,  \*         _last_change_at
    changing,    \* _change_started_at is set,
    changeFor,   \*         and its age, 0 if it is not
    accum,       \* _accum_box is set
    saver,       \* power_saver
    fullscreen,  \* _last_fullscreen
    defer,       \* what is left until _transition_until
    zoom,        \* pending_zoom is set
    streak,      \* confirm_streak
    awake, tick, \* in a pass; the sleep that the last pass chose
    last,        \* why and how the last pass scanned
    scanned,     \* history: what the last scan looked at
    unlooked     \* history: frames since a change that no scan has covered

pacer == <<frame, lastScan, lastFull, lastChange, changing, changeFor, accum>>
history == <<scanned, unlooked>>
vars == <<pacer, saver, fullscreen, defer, zoom, streak, awake, tick, last,
          history>>

Reasons == {"startup", "burst", "sustained", "settle", "periodic", "window",
            "confirm", "none", "skipped"}

Skipped == [reason |-> "skipped", sweep |-> "none"]

Init ==
    /\ frame = NoFrame /\ scanned = NoFrame
    /\ lastScan = Far /\ lastFull = Far /\ lastChange = Far
    /\ changing = FALSE /\ changeFor = 0 /\ accum = FALSE
    /\ saver = FALSE /\ fullscreen \in BOOLEAN /\ defer = 0
    /\ zoom = FALSE /\ streak = 0
    /\ awake = TRUE /\ tick = 0
    /\ last = Skipped /\ unlooked = 0

-----------------------------------------------------------------------------
(* FramePacer.observe: what a frame leads to.  A frame is a record of its  *)
(* content, whether its size is a new one, and whether the foreground      *)
(* window is another one than at the last frame.                           *)

Frames == [content : Contents, resized : BOOLEAN, window : BOOLEAN]

Paced(time) == PacedBy(saver, time)

Forced(f) == zoom \/ f.window
First(f) == frame = NoFrame \/ f.resized
Changed(f) == ~First(f) /\ f.content # frame

\* Mutant: the spacing is taken from the last change.
ChangeReasonByChange ==
    CASE ~changing /\ lastScan >= BurstMin -> "burst"
      [] changing /\ changeFor >= SustainedAfter
         /\ lastChange >= Paced(SustainedScan) -> "sustained"
      [] changing /\ changeFor < SustainedAfter
         /\ lastChange >= Paced(BurstSpacing) -> "burst"
      [] OTHER -> "none"

\* The frame differs from the one before: the first change is looked at
\* right away, a short one at the burst spacing, a long one on a budget.
ChangeReason ==
    CASE ~changing /\ lastScan >= BurstMin -> "burst"
      [] changing /\ changeFor >= SustainedAfter
         /\ lastScan >= Paced(SustainedScan) -> "sustained"
      [] changing /\ changeFor < SustainedAfter
         /\ lastScan >= Paced(BurstSpacing) -> "burst"
      [] OTHER -> "none"

\* Mutant: the settled frame is looked at after long changes only.
CalmReasonLong ==
    CASE changing /\ accum /\ changeFor >= SustainedAfter -> "settle"
      [] ~changing /\ lastScan >= Paced(SafetySweep) -> "periodic"
      [] OTHER -> "none"

\* Mutant: a sweep that is due comes before the question whether the change
\* has just stopped.
CalmReasonSweepFirst ==
    CASE lastScan >= Paced(SafetySweep) -> "periodic"
      [] changing /\ accum /\ lastScan >= SettleMin
         /\ lastScan < Paced(SafetySweep) -> "settle"
      [] OTHER -> "none"

\* The frame is the one before: the end of a change is looked at unless the
\* last scan saw all of it, and a still screen once in a while.
CalmReason ==
    CASE changing /\ accum /\ lastScan >= SettleMin -> "settle"
      [] ~changing /\ lastScan >= Paced(SafetySweep) -> "periodic"
      [] OTHER -> "none"

Reason(f) ==
    CASE zoom -> "confirm"
      [] ~zoom /\ f.window -> "window"
      [] ~Forced(f) /\ First(f) -> "startup"
      [] ~Forced(f) /\ Changed(f) -> ChangeReason
      [] OTHER -> CalmReason

\* Mutant: the wide sweep of a long change is never due.
SweepTargeted(f) ==
    IF Reason(f) \in {"confirm", "burst", "sustained"} THEN "targeted"
    ELSE "full"

Sweep(f) ==
    IF \/ Reason(f) \in {"confirm", "burst"}
       \/ Reason(f) = "sustained" /\ lastFull < Paced(FullSweep)
    THEN "targeted" ELSE "full"

Scans(f) == Reason(f) # "none"

\* A change goes on until a frame that is looked at for no other reason is
\* the one before.
StillChanging(f) == Changed(f) \/ (changing /\ (Forced(f) \/ First(f)))

Observe(f) ==
    /\ frame' = f.content
    /\ changing' = StillChanging(f)
    /\ changeFor' = IF changing /\ StillChanging(f) THEN changeFor ELSE 0
    /\ lastChange' = IF Changed(f) \/ (First(f) /\ ~Forced(f)) THEN 0
                     ELSE lastChange
    /\ accum' = (~Scans(f) /\ (accum \/ Changed(f)))
    /\ lastScan' = IF Scans(f) THEN 0 ELSE lastScan
    /\ lastFull' = IF Scans(f) /\ Sweep(f) = "full" THEN 0 ELSE lastFull

AtLeast(a, b) == IF a < b THEN b ELSE a

\* The next tick of the pacer, which the watcher lengthens beside a share and
\* under a fullscreen window.
NextTick(f, sharing) ==
    LET own == CASE Changed(f) /\ changeFor' >= SustainedAfter ->
                        Paced(SustainedTick)
                 [] ~(Changed(f) /\ changeFor' >= SustainedAfter)
                    /\ lastChange' >= IdleAfter -> Paced(IdleTick)
                 [] OTHER -> Paced(ActiveTick)
    IN  AtLeast(own, AtLeast(IF sharing THEN ShareTick ELSE 0,
                             IF fullscreen THEN FullscreenTick ELSE 0))

-----------------------------------------------------------------------------
(* The passes of Watcher.run_forever. *)

Aged(age, time) == IF age + time < Far THEN age + time ELSE Far

\* The sleep is over, possibly late.  A pass then looks at the battery, if it
\* has not done so for POWER_CHECK_SECONDS; here it may in every pass.
Wake(late, battery) ==
    LET time == tick + late
    IN  /\ ~awake /\ awake' = TRUE
        /\ lastScan' = Aged(lastScan, time)
        /\ lastFull' = Aged(lastFull, time)
        /\ lastChange' = Aged(lastChange, time)
        /\ changeFor' = IF changing THEN Aged(changeFor, time) ELSE 0
        /\ defer' = IF defer > time THEN defer - time ELSE 0
        /\ saver' = battery
        /\ UNCHANGED <<frame, changing, accum, fullscreen, zoom, streak, tick,
                       last, history>>

\* Protection is off, a lockout is on, or its release has just ended.
PassIdle ==
    /\ awake /\ awake' = FALSE
    /\ zoom' = FALSE /\ streak' = 0
    /\ tick' = IdlePass
    /\ last' = Skipped
    /\ UNCHANGED <<pacer, saver, fullscreen, defer, history>>

\* A fullscreen window came or went, or the displays changed, a moment ago:
\* no frame is taken.
PassDeferred(full, moved) ==
    /\ awake /\ awake' = FALSE
    /\ fullscreen' = full
    /\ defer' = IF full # fullscreen \/ moved THEN TransitionPause ELSE defer
    /\ defer' > 0
    /\ tick' = IF defer' < DeferTick THEN defer' ELSE DeferTick
    /\ last' = Skipped
    /\ UNCHANGED <<pacer, saver, zoom, streak, history>>

\* capture_all_monitors raised.
PassFailed ==
    /\ awake /\ awake' = FALSE
    /\ defer = 0
    /\ tick' = IdleTick
    /\ last' = Skipped
    /\ UNCHANGED <<pacer, saver, fullscreen, defer, zoom, streak, history>>

\* What a scan can lead to: nothing was found; a confirmation is wanted;
\* something was found that wants none, or the lockout started.
Findings == {"clean", "confirm", "other"}

\* Mutant: one confirmation too many.
ZoomsAgain(f, finding) ==
    Scans(f) /\ finding = "confirm" /\ streak <= MaxStreak

\* A confirmation is due, which the next pass forces.
Zooms(f, finding) == Scans(f) /\ finding = "confirm" /\ streak < MaxStreak

\* A frame is taken and, if the pacer says so, scanned.
PassLook(f, finding, sharing) ==
    /\ awake /\ awake' = FALSE
    /\ defer = 0
    /\ Observe(f)
    /\ tick' = NextTick(f, sharing)
    /\ last' = [reason |-> Reason(f),
                sweep |-> IF Scans(f) THEN Sweep(f) ELSE "none"]
    /\ zoom' = Zooms(f, finding)
    /\ streak' = CASE zoom' -> streak + 1
                   [] Scans(f) /\ finding = "clean" -> 0
                   [] OTHER -> streak
    /\ scanned' = IF Scans(f) THEN f.content ELSE scanned
    /\ unlooked' = IF Scans(f) THEN 0
                   ELSE IF accum' THEN unlooked + 1 ELSE unlooked
    /\ UNCHANGED <<saver, fullscreen, defer>>

Look == \E f \in Frames, finding \in Findings, sharing \in BOOLEAN :
            PassLook(f, finding, sharing)

Next ==
    \/ \E late \in Lateness, battery \in BOOLEAN : Wake(late, battery)
    \/ PassIdle
    \/ \E full, moved \in BOOLEAN : PassDeferred(full, moved)
    \/ PassFailed
    \/ Look

Spec == Init /\ [][Next]_vars /\ WF_vars(Next)

-----------------------------------------------------------------------------
(* Correctness. *)

Ages == 0..Far

TypeOK ==
    /\ frame \in Contents \cup {NoFrame}
    /\ lastScan \in Ages /\ lastFull \in Ages /\ lastChange \in Ages
    /\ changing \in BOOLEAN /\ changeFor \in Ages /\ accum \in BOOLEAN
    /\ saver \in BOOLEAN /\ fullscreen \in BOOLEAN /\ defer \in Nat
    /\ zoom \in BOOLEAN /\ streak \in 0..MaxStreak
    /\ awake \in BOOLEAN /\ tick \in Nat
    /\ last \in [reason : Reasons, sweep : {"full", "targeted", "none"}]
    /\ scanned \in Contents \cup {NoFrame}
    /\ unlooked \in Nat

\* A screen that has come to rest has been looked at: once a frame is the one
\* before, the last scan saw this very content, whatever deferrals, failed
\* captures, lockouts, forced scans and resized screens came between.
SettledIsScanned == ~changing => scanned = frame

\* "Periodic safety sweeps re-scan unchanged pixels" (watcher.py), on which
\* the detection policy relies when it takes them for no new evidence: a
\* periodic sweep sees what the last scan saw.
PeriodicRescansOnly ==
    [][last'.reason = "periodic" /\ ~awake' => frame' = scanned]_vars

\* No change waits longer than the slowest cadence for a scan, counted in
\* frames so that passes that take none do not count.
NoticedSoon ==
    unlooked * ActiveTick <= AtLeast(PacedBy(TRUE, SustainedScan),
                                     PacedBy(TRUE, BurstSpacing))

\* A screen that keeps changing is swept wide again and again, whatever
\* forced and confirmation scans come between.
VideoSweptWide ==
    (<>[]changing /\ []<>(last.reason # "skipped")) => []<>(last.sweep = "full")
=============================================================================
