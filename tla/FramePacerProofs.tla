--------------------------- MODULE FramePacerProofs ---------------------------
(***************************************************************************)
(* Proofs about FramePacer, for all contents, all lateness of the loop and *)
(* every choice of its times that is ordered as in the code.               *)
(***************************************************************************)
EXTENDS FramePacer, TLAPS

-----------------------------------------------------------------------------
(* Arithmetic. *)

\* The times are numbers.
LEMMA TimesAreNumbers ==
    /\ ActiveTick \in Nat /\ SustainedTick \in Nat /\ IdleTick \in Nat
    /\ IdleAfter \in Nat /\ SustainedAfter \in Nat
    /\ BurstMin \in Nat /\ BurstSpacing \in Nat /\ SustainedScan \in Nat
    /\ FullSweep \in Nat /\ SettleMin \in Nat /\ SafetySweep \in Nat
    /\ ShareTick \in Nat /\ FullscreenTick \in Nat
    /\ TransitionPause \in Nat /\ DeferTick \in Nat /\ IdlePass \in Nat
    /\ Far \in Nat
BY PacerAssumption

\* A settle scan is never due sooner than the next tick.
LEMMA SettleIsShort == SettleMin <= ActiveTick
BY PacerAssumption

\* The power saver only ever lengthens a time.
LEMMA PacedLonger ==
    ASSUME NEW time \in Nat, NEW s \in BOOLEAN
    PROVE  /\ PacedBy(s, time) \in Nat
           /\ time <= PacedBy(s, time)
           /\ PacedBy(s, time) <= PacedBy(TRUE, time)
<1>1. (3 * time) \div 2 \in Nat /\ time <= (3 * time) \div 2
  OBVIOUS
<1>. QED
  BY <1>1 DEF PacedBy

\* An age grows by the time that went by, or is Far.
LEMMA AgedType ==
    ASSUME NEW age \in Ages, NEW time \in Nat
    PROVE  /\ Aged(age, time) \in Ages
           /\ Aged(age, time) = age + time \/ Aged(age, time) = Far
BY TimesAreNumbers DEF Aged, Ages

\* No spacing the pacer compares an age with is beyond Far.
LEMMA SpacingsWithinFar ==
    /\ SettleMin <= Far /\ BurstMin <= Far
    /\ \A s \in BOOLEAN : /\ PacedBy(s, BurstSpacing) <= Far
                          /\ PacedBy(s, SustainedScan) <= Far
<1>1. ASSUME NEW time \in {SettleMin, BurstMin, BurstSpacing, SustainedScan},
             NEW s \in BOOLEAN
      PROVE  time <= Far /\ PacedBy(s, time) <= Far
  <2>1. time \in Nat
    BY TimesAreNumbers
  <2>2. (3 * time) \div 2 <= Far
    BY PacerAssumption DEF PacedBy
  <2>3. time <= (3 * time) \div 2 /\ (3 * time) \div 2 \in Nat
    BY <2>1
  <2>. QED
    BY <2>1, <2>2, <2>3, TimesAreNumbers DEF PacedBy
<1>. QED
  BY <1>1

\* Adding to a time keeps it above a bound.
LEMMA Sums ==
    ASSUME NEW a \in Nat, NEW b \in Nat, NEW c \in Nat, c <= b
    PROVE  c <= a + b /\ c <= b + a
OBVIOUS

-----------------------------------------------------------------------------
(* What observe returns. *)

\* A frame is scanned for one of the reasons, and full or targeted.
LEMMA ReasonType ==
    ASSUME NEW f \in Frames
    PROVE  /\ Reason(f) \in Reasons
           /\ Sweep(f) \in {"full", "targeted"}
<1>1. ChangeReason \in {"burst", "sustained", "none"}
  BY DEF ChangeReason
<1>2. CalmReason \in {"settle", "periodic", "none"}
  BY DEF CalmReason
<1>. QED
  BY <1>1, <1>2 DEF Reason, Reasons, Sweep

\* The sleep after a look is at least an active tick.
LEMMA TickLong ==
    ASSUME NEW f \in Frames, NEW sharing \in BOOLEAN, saver \in BOOLEAN
    PROVE  /\ NextTick(f, sharing) \in Nat
           /\ ActiveTick <= NextTick(f, sharing)
<1>. DEFINE own == CASE Changed(f) /\ changeFor' >= SustainedAfter ->
                            Paced(SustainedTick)
                     [] ~(Changed(f) /\ changeFor' >= SustainedAfter)
                        /\ lastChange' >= IdleAfter -> Paced(IdleTick)
                     [] OTHER -> Paced(ActiveTick)
<1>1. /\ Paced(SustainedTick) \in Nat /\ ActiveTick <= Paced(SustainedTick)
      /\ Paced(IdleTick) \in Nat /\ ActiveTick <= Paced(IdleTick)
      /\ Paced(ActiveTick) \in Nat /\ ActiveTick <= Paced(ActiveTick)
  <2>1. ActiveTick <= SustainedTick /\ ActiveTick <= IdleTick
    BY PacerAssumption
  <2>2. /\ Paced(SustainedTick) \in Nat /\ SustainedTick <= Paced(SustainedTick)
        /\ Paced(IdleTick) \in Nat /\ IdleTick <= Paced(IdleTick)
        /\ Paced(ActiveTick) \in Nat /\ ActiveTick <= Paced(ActiveTick)
    BY PacedLonger, TimesAreNumbers DEF Paced
  <2>. QED
    BY <2>1, <2>2, TimesAreNumbers
<1>2. own \in Nat /\ ActiveTick <= own
  BY <1>1
<1>. HIDE DEF own
<1>3. NextTick(f, sharing) =
          AtLeast(own, AtLeast(IF sharing THEN ShareTick ELSE 0,
                               IF fullscreen THEN FullscreenTick ELSE 0))
  BY DEF NextTick, own
<1>. QED
  BY <1>2, <1>3, TimesAreNumbers DEF AtLeast

-----------------------------------------------------------------------------
(* Types. *)

LEMMA TypeInit == Init => TypeOK
<1>. SUFFICES ASSUME Init
              PROVE  TypeOK
  OBVIOUS
<1>1. /\ frame \in Contents \cup {NoFrame} /\ scanned \in Contents \cup {NoFrame}
      /\ lastScan \in Ages /\ lastFull \in Ages /\ lastChange \in Ages
      /\ changeFor \in Ages /\ defer \in Nat /\ tick \in Nat /\ unlooked \in Nat
  BY TimesAreNumbers DEF Init, Ages
<1>2. /\ changing \in BOOLEAN /\ accum \in BOOLEAN /\ saver \in BOOLEAN
      /\ fullscreen \in BOOLEAN /\ zoom \in BOOLEAN /\ awake \in BOOLEAN
  BY Zenon DEF Init
<1>3. streak \in 0..MaxStreak
  BY DEF Init, MaxStreak
<1>4. last \in [reason : Reasons, sweep : {"full", "targeted", "none"}]
  BY DEF Init, Skipped, Reasons
<1>. QED
  BY <1>1, <1>2, <1>3, <1>4 DEF TypeOK

LEMMA TypeStep == TypeOK /\ [Next]_vars => TypeOK'
<1>. SUFFICES ASSUME TypeOK, [Next]_vars
              PROVE  TypeOK'
  OBVIOUS
<1>. USE DEF TypeOK
<1>1. ASSUME NEW late \in Lateness, NEW battery \in BOOLEAN, Wake(late, battery)
      PROVE  TypeOK'
  <2>1. late \in Nat /\ tick + late \in Nat
    BY PacerAssumption
  <2>2. /\ lastScan' \in Ages /\ lastFull' \in Ages /\ lastChange' \in Ages
        /\ Aged(changeFor, tick + late) \in Ages
    BY <1>1, <2>1, AgedType DEF Wake
  <2>3. changeFor' \in Ages
    BY <1>1, <2>2, TimesAreNumbers DEF Wake, Ages
  <2>4. defer' \in Nat
    BY <1>1, <2>1 DEF Wake
  <2>. QED
    BY <1>1, <2>2, <2>3, <2>4 DEF Wake, history
<1>2. ASSUME PassIdle
      PROVE  TypeOK'
  <2>1. /\ frame' = frame /\ lastScan' = lastScan /\ lastFull' = lastFull
        /\ lastChange' = lastChange /\ changing' = changing
        /\ changeFor' = changeFor /\ accum' = accum
        /\ scanned' = scanned /\ unlooked' = unlooked
    BY <1>2 DEF PassIdle, pacer, history
  <2>2. /\ zoom' \in BOOLEAN /\ streak' \in 0..MaxStreak
        /\ awake' \in BOOLEAN /\ tick' \in Nat
        /\ last' \in [reason : Reasons, sweep : {"full", "targeted", "none"}]
    <3>1. zoom' \in BOOLEAN /\ awake' \in BOOLEAN
      BY <1>2, Zenon DEF PassIdle
    <3>2. streak' \in 0..MaxStreak
      BY <1>2 DEF PassIdle, MaxStreak
    <3>3. /\ tick' \in Nat
          /\ last' \in [reason : Reasons, sweep : {"full", "targeted", "none"}]
      BY <1>2, TimesAreNumbers DEF PassIdle, Skipped, Reasons
    <3>. QED
      BY <3>1, <3>2, <3>3
  <2>. QED
    BY <1>2, <2>1, <2>2 DEF PassIdle
<1>3. ASSUME NEW full \in BOOLEAN, NEW moved \in BOOLEAN,
             PassDeferred(full, moved)
      PROVE  TypeOK'
  BY <1>3, TimesAreNumbers DEF PassDeferred, pacer, history, Skipped, Reasons
<1>4. ASSUME PassFailed
      PROVE  TypeOK'
  BY <1>4, TimesAreNumbers DEF PassFailed, pacer, history, Skipped, Reasons
<1>5. ASSUME NEW f \in Frames, NEW finding \in Findings,
             NEW sharing \in BOOLEAN, PassLook(f, finding, sharing)
      PROVE  TypeOK'
  <2>1. /\ frame' \in Contents \cup {NoFrame} /\ changing' \in BOOLEAN
        /\ accum' \in BOOLEAN /\ lastScan' \in Ages /\ lastFull' \in Ages
        /\ lastChange' \in Ages /\ changeFor' \in Ages
    BY <1>5, TimesAreNumbers
       DEF PassLook, Observe, Frames, Ages, Scans, StillChanging, Changed, First
  <2>2. tick' \in Nat
    BY <1>5, TickLong DEF PassLook
  <2>3. last' \in [reason : Reasons, sweep : {"full", "targeted", "none"}]
    BY <1>5, ReasonType DEF PassLook
  <2>4. zoom' \in BOOLEAN /\ streak' \in 0..MaxStreak
    <3>1. zoom' \in BOOLEAN
      BY <1>5, Zenon DEF PassLook, Zooms
    <3>2. zoom' => streak < MaxStreak
      BY <1>5 DEF PassLook, Zooms
    <3>3. streak' \in {streak + 1, 0, streak} /\ (streak' = streak + 1 => zoom')
      BY <1>5 DEF PassLook, MaxStreak
    <3>. QED
      BY <3>1, <3>2, <3>3 DEF MaxStreak
  <2>5. scanned' \in Contents \cup {NoFrame} /\ unlooked' \in Nat
    BY <1>5 DEF PassLook, Frames
  <2>. QED
    BY <1>5, <2>1, <2>2, <2>3, <2>4, <2>5 DEF PassLook
<1>6. CASE UNCHANGED vars
  BY <1>6 DEF vars, pacer, history
<1>. QED
  BY <1>1, <1>2, <1>3, <1>4, <1>5, <1>6 DEF Next, Look

\* The pacer and the loop stay within their types, ages within Far and
\* confirmations within MaxStreak.
THEOREM TypeCorrect == Spec => []TypeOK
BY TypeInit, TypeStep, PTL DEF Spec

-----------------------------------------------------------------------------
(* What has been looked at. *)

\* What makes SettledIsScanned and PeriodicRescansOnly inductive: nothing has
\* changed unseen when accum is not set, a calm pacer has no such change, and
\* the sleep of a pass keeps a settle scan clear of the settle spacing.
LookedAt ==
    /\ ~accum => scanned = frame
    /\ ~changing => ~accum
    /\ awake => SettleMin <= lastScan
    /\ ~awake => SettleMin <= lastScan + tick

LEMMA LookedAtInit == Init => LookedAt
BY SpacingsWithinFar DEF Init, LookedAt

\* After calm, a frame that is not scanned is the frame before, and no change
\* is left unseen: the settle scan is never too soon.
LEMMA CalmIsSeen ==
    ASSUME TypeOK, LookedAt, awake, NEW f \in Frames,
           NEW finding \in Findings, NEW sharing \in BOOLEAN,
           PassLook(f, finding, sharing)
    PROVE  /\ ~accum' => scanned' = frame'
           /\ ~changing' => ~accum'
           /\ Reason(f) = "periodic" => f.content = scanned
<1>1. CASE Scans(f)
  <2>1. accum' = FALSE /\ scanned' = frame'
    BY <1>1 DEF PassLook, Observe
  <2>2. Reason(f) = "periodic" => ~Forced(f) /\ ~First(f) /\ ~Changed(f) /\ ~changing
    BY DEF Reason, ChangeReason, CalmReason, Forced
  <2>. QED
    BY <2>1, <2>2 DEF LookedAt, Changed
<1>2. CASE ~Scans(f)
  <2>1. ~Forced(f) /\ ~First(f)
    <3>1. Reason(f) = "none"
      BY <1>2 DEF Scans
    <3>2. zoom => Reason(f) = "confirm"
      BY DEF Reason, Forced, Changed
    <3>3. ~zoom /\ f.window => Reason(f) = "window"
      BY DEF Reason, Forced, Changed
    <3>4. ~Forced(f) /\ First(f) => Reason(f) = "startup"
      BY DEF Reason, Forced, Changed
    <3>. QED
      <4>1. ~Forced(f)
        BY <3>1, <3>2, <3>3 DEF Forced
      <4>. QED
        BY <4>1, <3>1, <3>4
  <2>2. Changed(f) \/ (f.content = frame /\ CalmReason = "none")
    BY <1>2, <2>1 DEF Scans, Reason, Changed, Forced
  <2>3. /\ accum' = (accum \/ Changed(f)) /\ scanned' = scanned
        /\ frame' = f.content /\ changing' = Changed(f)
    <3>1. accum' = (accum \/ Changed(f))
      BY <1>2, Zenon DEF PassLook, Observe
    <3>2. changing' = Changed(f)
      <4>1. StillChanging(f) <=> Changed(f)
        BY <2>1, Zenon DEF StillChanging
      <4>2. changing' = StillChanging(f)
        BY DEF PassLook, Observe
      <4>. QED
        BY <4>1, <4>2, Zenon DEF StillChanging, Changed
    <3>. QED
      BY <1>2, <3>1, <3>2 DEF PassLook, Observe
  <2>4. CASE Changed(f)
    BY <1>2, <2>3, <2>4 DEF Scans
  <2>5. CASE f.content = frame /\ CalmReason = "none"
    <3>1. ~(changing /\ accum)
      BY <2>5 DEF CalmReason, LookedAt
    <3>2. ~accum
      BY <3>1 DEF LookedAt
    <3>. QED
      BY <1>2, <2>3, <2>5, <3>2 DEF LookedAt, Changed, Scans
  <2>. QED
    BY <2>2, <2>4, <2>5
<1>. QED
  BY <1>1, <1>2

LEMMA LookedAtStep == TypeOK /\ LookedAt /\ [Next]_vars => LookedAt'
<1>. SUFFICES ASSUME TypeOK, LookedAt, [Next]_vars
              PROVE  LookedAt'
  OBVIOUS
<1>0. SettleMin \in Nat /\ ActiveTick \in Nat
  BY TimesAreNumbers
<1>1. lastScan \in Nat /\ tick \in Nat
  BY TimesAreNumbers DEF TypeOK, Ages
<1>2. ASSUME NEW late \in Lateness, NEW battery \in BOOLEAN, Wake(late, battery)
      PROVE  LookedAt'
  <2>1. late \in Nat
    BY PacerAssumption
  <2>2. lastScan' = lastScan + (tick + late) \/ lastScan' = Far
    BY <1>1, <1>2, <2>1, AgedType DEF Wake, TypeOK
  <2>3. SettleMin <= lastScan'
    BY <1>1, <1>2, <2>1, <2>2, SpacingsWithinFar, TimesAreNumbers
       DEF Wake, LookedAt
  <2>. QED
    BY <1>2, <2>3 DEF Wake, LookedAt, history
<1>3. ASSUME \/ PassIdle \/ PassFailed
             \/ \E full, moved \in BOOLEAN : PassDeferred(full, moved)
      PROVE  LookedAt'
  <2>1. /\ frame' = frame /\ changing' = changing /\ accum' = accum
        /\ scanned' = scanned /\ lastScan' = lastScan /\ awake /\ ~awake'
    BY <1>3 DEF PassIdle, PassFailed, PassDeferred, pacer, history
  <2>2. tick' \in Nat
    BY <1>3, TypeStep DEF TypeOK
  <2>. QED
    <3>1. SettleMin <= lastScan
      BY <2>1 DEF LookedAt
    <3>2. lastScan' = lastScan
      BY <2>1
    <3>3. SettleMin <= lastScan' + tick'
      BY <1>1, <2>2, <3>1, <3>2, <1>0, Sums
    <3>. QED
      BY <2>1, <3>3 DEF LookedAt
<1>4. ASSUME NEW f \in Frames, NEW finding \in Findings,
             NEW sharing \in BOOLEAN, PassLook(f, finding, sharing)
      PROVE  LookedAt'
  <2>1. awake /\ ~awake'
    BY <1>4 DEF PassLook
  <2>2. tick' \in Nat /\ ActiveTick <= tick' /\ lastScan' \in Nat
    <3>1. tick' \in Nat /\ ActiveTick <= tick'
      BY <1>4, TickLong DEF PassLook, TypeOK
    <3>2. lastScan' \in Nat
      BY <1>1, <1>4 DEF PassLook, Observe
    <3>. QED
      BY <3>1, <3>2
  <2>3. SettleMin <= lastScan' + tick'
    <3>1. SettleMin <= tick'
      BY <1>0, <2>2, SettleIsShort
    <3>. QED
      BY <1>0, <2>2, <3>1, Sums
  <2>. QED
    BY <1>4, <2>1, <2>3, CalmIsSeen DEF LookedAt
<1>5. CASE UNCHANGED vars
  BY <1>5 DEF vars, pacer, history, LookedAt
<1>. QED
  BY <1>2, <1>3, <1>4, <1>5 DEF Next, Look

\* A screen that has come to rest has been looked at.
THEOREM SettledAlwaysScanned == Spec => []SettledIsScanned
<1>1. LookedAt => SettledIsScanned
  BY DEF LookedAt, SettledIsScanned
<1>. QED
  BY <1>1, TypeInit, TypeStep, LookedAtInit, LookedAtStep, PTL DEF Spec

\* A periodic sweep sees what the last scan saw.
THEOREM PeriodicOnlyRescans == Spec => PeriodicRescansOnly
<1>1. TypeOK /\ LookedAt /\ [Next]_vars
        => [last'.reason = "periodic" /\ ~awake' => frame' = scanned]_vars
  <2>. SUFFICES ASSUME TypeOK, LookedAt, Next,
                       last'.reason = "periodic", ~awake'
                PROVE  frame' = scanned
    OBVIOUS
  <2>1. ~PassIdle /\ ~PassFailed
    BY DEF PassIdle, PassFailed, Skipped
  <2>2. ~\E full, moved \in BOOLEAN : PassDeferred(full, moved)
    BY DEF PassDeferred, Skipped
  <2>3. ~\E late \in Lateness, battery \in BOOLEAN : Wake(late, battery)
    BY DEF Wake
  <2>4. PICK f \in Frames, finding \in Findings, sharing \in BOOLEAN :
             PassLook(f, finding, sharing)
    BY <2>1, <2>2, <2>3 DEF Next, Look
  <2>5. awake /\ frame' = f.content /\ Reason(f) = "periodic"
    BY <2>4 DEF PassLook, Observe
  <2>. QED
    BY <2>4, <2>5, CalmIsSeen
<1>. QED
  BY <1>1, TypeInit, TypeStep, LookedAtInit, LookedAtStep, PTL
     DEF Spec, PeriodicRescansOnly

-----------------------------------------------------------------------------
(* How long a change can wait. *)

\* The time that a number of frames takes at least.
Ticks(n) == n * ActiveTick

\* The bound of NoticedSoon.
Longest == AtLeast(PacedBy(TRUE, SustainedScan), PacedBy(TRUE, BurstSpacing))

\* What makes NoticedSoon inductive: the frames that no scan has covered lie
\* an active tick apart, so the last scan is that long ago for each of them
\* and for the frame that comes next; an age that has reached Far says no
\* more, but then every spacing is over.  There are none without a change.
WaitInv ==
    /\ accum \/ unlooked = 0
    /\ awake => lastScan = Far \/ Ticks(unlooked + 1) <= lastScan
    /\ ~awake => lastScan = Far \/ Ticks(unlooked + 1) <= lastScan + tick
    /\ Ticks(unlooked) <= Longest

\* One more frame is one more active tick.
LEMMA OneMore ==
    ASSUME NEW n \in Nat
    PROVE  /\ Ticks(n) \in Nat
           /\ Ticks(n + 1) = Ticks(n) + ActiveTick
<1>1. n * ActiveTick \in Nat /\ (n + 1) * ActiveTick = n * ActiveTick + ActiveTick
  BY TimesAreNumbers
<1>. QED
  BY <1>1 DEF Ticks

LEMMA NoTicks == Ticks(0) = 0 /\ Ticks(0 + 1) = ActiveTick
BY TimesAreNumbers DEF Ticks

LEMMA AtLeastBoth ==
    ASSUME NEW a \in Nat, NEW b \in Nat
    PROVE  AtLeast(a, b) \in Nat /\ a <= AtLeast(a, b) /\ b <= AtLeast(a, b)
BY DEF AtLeast

\* The spacings are at most the bound of NoticedSoon, and it is within Far.
LEMMA SpacingsBounded ==
    /\ Longest \in Nat /\ Longest <= Far /\ BurstMin <= Longest
    /\ \A s \in BOOLEAN : /\ PacedBy(s, SustainedScan) <= Longest
                          /\ PacedBy(s, BurstSpacing) <= Longest
<1>. DEFINE a == PacedBy(TRUE, SustainedScan)
            b == PacedBy(TRUE, BurstSpacing)
<1>1. /\ a \in Nat /\ b \in Nat /\ BurstSpacing <= b
      /\ \A s \in BOOLEAN : /\ PacedBy(s, SustainedScan) \in Nat
                            /\ PacedBy(s, BurstSpacing) \in Nat
                            /\ PacedBy(s, SustainedScan) <= a
                            /\ PacedBy(s, BurstSpacing) <= b
  BY TimesAreNumbers, PacedLonger
<1>2. a <= Far /\ b <= Far
  BY SpacingsWithinFar
<1>3. Longest = AtLeast(a, b)
  BY DEF Longest
<1>. HIDE DEF a, b
<1>4. Longest \in Nat /\ a <= Longest /\ b <= Longest
  BY <1>1, <1>3, AtLeastBoth
<1>5. Longest <= Far
  BY <1>1, <1>2, <1>3 DEF AtLeast
<1>6. BurstMin <= Longest
  <2>1. BurstMin <= BurstSpacing
    BY PacerAssumption
  <2>. QED
    BY <1>1, <1>4, <2>1, TimesAreNumbers
<1>7. ASSUME NEW s \in BOOLEAN
      PROVE  PacedBy(s, SustainedScan) <= Longest /\ PacedBy(s, BurstSpacing) <= Longest
  <2>1. /\ PacedBy(s, SustainedScan) \in Nat /\ PacedBy(s, BurstSpacing) \in Nat
        /\ PacedBy(s, SustainedScan) <= a /\ PacedBy(s, BurstSpacing) <= b
    BY <1>1
  <2>. QED
    BY <1>1, <1>4, <2>1
<1>. QED
  BY <1>4, <1>5, <1>6, <1>7

LEMMA WaitInit == Init => WaitInv
<1>. SUFFICES ASSUME Init PROVE WaitInv
  OBVIOUS
<1>1. unlooked = 0 /\ lastScan = Far /\ awake = TRUE
  BY DEF Init
<1>2. Ticks(unlooked) <= Longest
  BY <1>1, NoTicks, SpacingsBounded
<1>. QED
  BY <1>1, <1>2 DEF WaitInv

\* A change is left for later only while one of the spacings is not over.
LEMMA ChangeWaits ==
    ASSUME TypeOK, LookedAt, awake, NEW f \in Frames, NEW finding \in Findings,
           NEW sharing \in BOOLEAN, PassLook(f, finding, sharing), accum'
    PROVE  /\ ~Scans(f)
           /\ \/ ~changing /\ lastScan < BurstMin
              \/ lastScan < Paced(SustainedScan)
              \/ lastScan < Paced(BurstSpacing)
<1>1. ~Scans(f) /\ (accum \/ Changed(f))
  BY DEF PassLook, Observe
<1>2. Reason(f) = "none"
  BY <1>1 DEF Scans
<1>3. ~Forced(f) /\ ~First(f)
  <2>1. zoom => Reason(f) = "confirm"
    BY DEF Reason, Forced, Changed
  <2>2. ~zoom /\ f.window => Reason(f) = "window"
    BY DEF Reason, Forced, Changed
  <2>3. ~Forced(f) /\ First(f) => Reason(f) = "startup"
    BY DEF Reason, Forced, Changed
  <2>4. ~Forced(f)
    BY <1>2, <2>1, <2>2 DEF Forced
  <2>. QED
    BY <1>2, <2>3, <2>4
<1>4. Changed(f)
  <2>1. CASE ~Changed(f)
    <3>1. CalmReason = "none"
      BY <1>2, <1>3, <2>1 DEF Reason, Forced
    <3>2. ~(changing /\ accum)
      BY <3>1 DEF CalmReason, LookedAt
    <3>. QED
      BY <1>1, <2>1, <3>2 DEF LookedAt
  <2>. QED
    BY <2>1
<1>5. ChangeReason = "none"
  BY <1>2, <1>3, <1>4 DEF Reason, Forced
<1>6. /\ ~(~changing /\ lastScan >= BurstMin)
      /\ ~(/\ changing /\ changeFor >= SustainedAfter
           /\ lastScan >= Paced(SustainedScan))
      /\ ~(/\ changing /\ changeFor < SustainedAfter
           /\ lastScan >= Paced(BurstSpacing))
  BY <1>5 DEF ChangeReason
<1>7. /\ lastScan \in Nat /\ changeFor \in Nat
      /\ BurstMin \in Nat /\ SustainedAfter \in Nat
      /\ Paced(SustainedScan) \in Nat /\ Paced(BurstSpacing) \in Nat
  <2>1. saver \in BOOLEAN
    BY DEF TypeOK
  <2>2. lastScan \in Nat /\ changeFor \in Nat
    BY TimesAreNumbers DEF TypeOK, Ages
  <2>. QED
    BY <2>1, <2>2, TimesAreNumbers, PacedLonger DEF Paced
<1>8. changing \in BOOLEAN
  BY DEF TypeOK
<1>. QED
  BY <1>1, <1>6, <1>7, <1>8

\* With an unlooked frame, the last scan is that many active ticks ago.
LEMMA WaitLook ==
    ASSUME TypeOK, LookedAt, WaitInv, NEW f \in Frames,
           NEW finding \in Findings, NEW sharing \in BOOLEAN,
           PassLook(f, finding, sharing)
    PROVE  WaitInv'
<1>0. awake /\ ~awake'
  BY DEF PassLook
<1>1. lastScan \in Nat /\ unlooked \in Nat
  BY TimesAreNumbers DEF TypeOK, Ages
<1>2. saver \in BOOLEAN
  BY DEF TypeOK
<1>3. tick' \in Nat /\ ActiveTick <= tick'
  BY <1>2, TickLong DEF PassLook
<1>4. CASE Scans(f)
  <2>1. unlooked' = 0 /\ lastScan' = 0
    BY <1>4 DEF PassLook, Observe
  <2>2. Ticks(unlooked') = 0 /\ Ticks(unlooked' + 1) = ActiveTick
    BY <2>1, NoTicks
  <2>3. Ticks(unlooked') <= Longest
    BY <2>2, SpacingsBounded
  <2>4. Ticks(unlooked' + 1) <= lastScan' + tick'
    BY <1>3, <2>1, <2>2, TimesAreNumbers
  <2>. QED
    BY <1>0, <2>1, <2>3, <2>4 DEF WaitInv
<1>5. CASE ~Scans(f) /\ ~accum'
  <2>1. unlooked' = unlooked /\ lastScan' = lastScan /\ ~accum
    BY <1>5 DEF PassLook, Observe
  <2>2. unlooked' = 0
    BY <2>1 DEF WaitInv
  <2>3. Ticks(unlooked' + 1) <= lastScan' + tick'
    BY <1>1, <1>3, <2>1, <2>2, NoTicks, TimesAreNumbers
  <2>4. Ticks(unlooked') <= Longest
    BY <2>1 DEF WaitInv
  <2>. QED
    BY <1>0, <2>2, <2>3, <2>4 DEF WaitInv
<1>6. CASE ~Scans(f) /\ accum'
  <2>1. unlooked' = unlooked + 1 /\ lastScan' = lastScan
    BY <1>6 DEF PassLook, Observe
  <2>2. lastScan < Longest
    <3>1. \/ ~changing /\ lastScan < BurstMin
          \/ lastScan < Paced(SustainedScan)
          \/ lastScan < Paced(BurstSpacing)
      BY <1>0, <1>6, ChangeWaits
    <3>2. /\ Paced(SustainedScan) <= Longest /\ Paced(BurstSpacing) <= Longest
          /\ Paced(SustainedScan) \in Nat /\ Paced(BurstSpacing) \in Nat
      BY <1>2, SpacingsBounded, TimesAreNumbers, PacedLonger DEF Paced
    <3>. QED
      BY <1>1, <3>1, <3>2, SpacingsBounded, TimesAreNumbers
  <2>3. lastScan # Far
    BY <1>1, <2>2, SpacingsBounded, TimesAreNumbers
  <2>4. Ticks(unlooked + 1) <= lastScan
    BY <1>0, <2>3 DEF WaitInv
  <2>5. /\ Ticks(unlooked + 1) \in Nat
        /\ Ticks((unlooked + 1) + 1) = Ticks(unlooked + 1) + ActiveTick
    BY <1>1, OneMore
  <2>6. Ticks(unlooked') <= Longest
    BY <1>1, <2>1, <2>2, <2>4, <2>5, SpacingsBounded
  <2>7. Ticks(unlooked' + 1) <= lastScan' + tick'
    BY <1>1, <1>3, <2>1, <2>4, <2>5, TimesAreNumbers
  <2>. QED
    BY <1>0, <1>6, <2>6, <2>7 DEF WaitInv
<1>7. accum' \in BOOLEAN
  BY Zenon DEF PassLook, Observe
<1>. QED
  BY <1>4, <1>5, <1>6, <1>7

LEMMA WaitStep == TypeOK /\ LookedAt /\ WaitInv /\ [Next]_vars => WaitInv'
<1>. SUFFICES ASSUME TypeOK, LookedAt, WaitInv, [Next]_vars
              PROVE  WaitInv'
  OBVIOUS
<1>1. /\ lastScan \in Nat /\ tick \in Nat /\ unlooked \in Nat
      /\ Ticks(unlooked + 1) \in Nat
  BY OneMore, TimesAreNumbers DEF TypeOK, Ages
<1>2. ASSUME NEW late \in Lateness, NEW battery \in BOOLEAN, Wake(late, battery)
      PROVE  WaitInv'
  <2>1. late \in Nat
    BY PacerAssumption
  <2>2. lastScan' = lastScan + (tick + late) \/ lastScan' = Far
    BY <1>1, <1>2, <2>1, AgedType DEF Wake, TypeOK
  <2>3. ~awake /\ awake' /\ unlooked' = unlooked /\ accum' = accum
    BY <1>2 DEF Wake, history
  <2>4. lastScan = Far => lastScan' = Far
    BY <1>1, <1>2, <2>1, TimesAreNumbers DEF Wake, Aged
  <2>5. lastScan' = Far \/ Ticks(unlooked + 1) <= lastScan'
    BY <1>1, <2>1, <2>2, <2>3, <2>4 DEF WaitInv
  <2>. QED
    BY <2>3, <2>5 DEF WaitInv
<1>3. ASSUME \/ PassIdle \/ PassFailed
             \/ \E full, moved \in BOOLEAN : PassDeferred(full, moved)
      PROVE  WaitInv'
  <2>1. /\ accum' = accum /\ unlooked' = unlooked
        /\ lastScan' = lastScan /\ awake /\ ~awake'
    BY <1>3 DEF PassIdle, PassFailed, PassDeferred, pacer, history
  <2>2. tick' \in Nat
    BY <1>3, TypeStep DEF TypeOK
  <2>3. lastScan' = Far \/ Ticks(unlooked + 1) <= lastScan' + tick'
    BY <1>1, <2>1, <2>2 DEF WaitInv
  <2>. QED
    BY <2>1, <2>3 DEF WaitInv
<1>4. ASSUME NEW f \in Frames, NEW finding \in Findings,
             NEW sharing \in BOOLEAN, PassLook(f, finding, sharing)
      PROVE  WaitInv'
  BY <1>4, WaitLook
<1>5. CASE UNCHANGED vars
  BY <1>5 DEF vars, pacer, history, WaitInv
<1>. QED
  BY <1>2, <1>3, <1>4, <1>5 DEF Next, Look

\* No change waits longer than the slowest cadence for a scan, however late
\* the passes of the loop are and whatever runs between them.
THEOREM ChangeNoticedSoon == Spec => []NoticedSoon
<1>1. WaitInv => NoticedSoon
  BY DEF WaitInv, NoticedSoon, Ticks, Longest
<1>. QED
  BY <1>1, TypeInit, TypeStep, LookedAtInit, LookedAtStep, WaitInit, WaitStep,
     PTL DEF Spec
=============================================================================
