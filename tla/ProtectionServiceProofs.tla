----------------------- MODULE ProtectionServiceProofs -----------------------
(***************************************************************************)
(* Proofs about ProtectionService, for every set of texts, every request   *)
(* range, every window and every bound of the clock.                       *)
(***************************************************************************)
EXTENDS ProtectionService, FiniteSetTheorems, TLAPS

USE SchemaAssumption, ServiceAssumption

-----------------------------------------------------------------------------
(* The record functions keep a record a record. *)

\* Applying a matured unlock keeps the type, and changes three fields only.
LEMMA AfterDueUnlockType ==
    ASSUME NEW s \in State, NEW t \in Nat
    PROVE  AfterDueUnlock(s, t) \in State
BY DEF AfterDueUnlock, UnlockDue, State

\* A recorded use is a use, and the record stays in its type.
LEMMA RecordUseType ==
    ASSUME NEW s \in State, NEW t \in Nat, IsFiniteSet(s.used)
    PROVE  /\ NextUse(s, t) \in Use
           /\ RecordUse(s, t) \in State
<1>1. {u \in s.used : u[1] = t} \subseteq s.used
  OBVIOUS
<1>2. Cardinality({u \in s.used : u[1] = t}) \in Nat
  BY <1>1, FS_Subset, FS_CardinalityType
<1>3. NextUse(s, t) \in Use
  BY <1>2 DEF NextUse, Use
<1>4. RecentUses(s, t) \cup {NextUse(s, t)} \in SUBSET Use
  BY <1>3 DEF RecentUses, State
<1>. QED
  BY <1>3, <1>4 DEF RecordUse, State

\* The list of uses is never infinite, so counting it makes sense.
UsedFinite == IsFiniteSet(st.used)

\* What a disable request leaves is a record.
LEMMA DisableResultType ==
    ASSUME NEW s \in State, NEW p, now \in Nat
    PROVE  /\ DisableResult(s, p) \in State
           /\ DisableResult(s, p).used = s.used
<1>1. Overridden(s) \in State /\ Overridden(s).used = s.used
  BY DEF Overridden, State
<1>2. Scheduled(s) \in State /\ Scheduled(s).used = s.used
  BY DEF Scheduled, UnlockPending, State, UnlockDelayRange
<1>3. TurnedOff(s) \in State /\ TurnedOff(s).used = s.used
  BY DEF TurnedOff, State
<1>. QED
  BY <1>1, <1>2, <1>3 DEF DisableResult

-----------------------------------------------------------------------------
(* Types. *)

TypeInv == TypeOK /\ UsedFinite

LEMMA LoadedType ==
    TypeInv => Loaded \in State /\ IsFiniteSet(Loaded.used)
BY AfterDueUnlockType DEF TypeInv, TypeOK, UsedFinite, Loaded, AfterDueUnlock, State

LEMMA TypeInit == Init => TypeInv
<1>. SUFFICES ASSUME Init PROVE TypeInv
  OBVIOUS
<1>1. NewState(Placeholder, FALSE) \in State
  BY DEF NewState, State, DurationRange, UnlockDelayRange, ReleaseDelayRange, UsesAllowed
<1>2. NewState(Placeholder, FALSE).used = {}
  BY DEF NewState
<1>. QED
  BY <1>1, <1>2, FS_EmptySet DEF Init, TypeInv, TypeOK, UsedFinite

LEMMA TypeStep == TypeInv /\ [Next]_vars => TypeInv'
<1>. SUFFICES ASSUME TypeInv, [Next]_vars PROVE TypeInv'
  OBVIOUS
<1>. USE DEF TypeInv, TypeOK, UsedFinite
<1>1. Loaded \in State /\ IsFiniteSet(Loaded.used)
  BY LoadedType
<1>2. CASE Status
  BY <1>1, <1>2 DEF Status
<1>3. ASSUME NEW p \in Texts, Enable(p) PROVE TypeInv'
  BY <1>1, <1>3 DEF Enable, State
<1>4. ASSUME NEW p \in Texts, Disable(p) PROVE TypeInv'
  <2>1. DisableResult(Loaded, p) \in State /\ DisableResult(Loaded, p).used = Loaded.used
    BY <1>1, DisableResultType
  <2>2. now + st.unlockDelay \in Nat
    BY DEF State, UnlockDelayRange
  <2>. QED
    BY <1>1, <1>4, <2>1, <2>2 DEF Disable
<1>5. ASSUME NEW code \in Texts, NEW p \in Texts, ResetPassword(code, p) PROVE TypeInv'
  BY <1>1, <1>5 DEF ResetPassword, State
<1>6. ASSUME NEW code \in Texts, NEW p \in Texts, Repair(code, p) PROVE TypeInv'
  <2>1. NewState(p, TRUE) \in State /\ NewState(p, TRUE).used = {}
    BY DEF NewState, State, DurationRange, UnlockDelayRange, ReleaseDelayRange, UsesAllowed
  <2>. QED
    BY <1>6, <2>1, FS_EmptySet DEF Repair
<1>7. ASSUME NEW m \in Durations, SetDuration(m) PROVE TypeInv'
  <2>. DEFINE t == [Loaded EXCEPT !.duration = m]
  <2>1. m \in DurationRange => t \in State /\ t.used = Loaded.used
    BY <1>1 DEF State
  <2>. QED
    BY <1>1, <1>7, <2>1 DEF SetDuration, DurationAllowed
<1>8. ASSUME NEW on \in Toggles, NEW ready \in BOOLEAN, NEW p \in Texts,
             SetAnimeEnabled(on, ready, p) PROVE TypeInv'
  BY <1>1, <1>8 DEF SetAnimeEnabled, State
<1>9. ASSUME NEW on \in Toggles, NEW p \in Texts,
             SetShutdownAfterLockout(on, p) PROVE TypeInv'
  BY <1>1, <1>9 DEF SetShutdownAfterLockout, State
<1>10. ASSUME NEW delay \in UnlockDelays, NEW release \in Releases,
              NEW releaseDelay \in ReleaseDelays, NEW uses \in UseLimits,
              NEW p \in Texts,
              SetRecoverySettings(delay, release, releaseDelay, uses, p)
       PROVE  TypeInv'
  BY <1>1, <1>10 DEF SetRecoverySettings, RecoveryAllowed, State
<1>11. CASE CancelRecoveryUnlock
  BY <1>1, <1>11 DEF CancelRecoveryUnlock, State
<1>12. ASSUME NEW d \in Horizons, NEW p \in Texts, SetCommitment(d, p) PROVE TypeInv'
  <2>1. Committed(Loaded, d) \in State /\ Committed(Loaded, d).used = Loaded.used
    BY <1>1 DEF Committed, State
  <2>. QED
    BY <1>1, <1>12, <2>1 DEF SetCommitment
<1>13. ASSUME NEW code \in Texts, NEW lockout \in Lockouts,
              LockoutRecovery(code, lockout) PROVE TypeInv'
  <2>1. NextUse(st, now) \in Use /\ RecordUse(st, now) \in State
    BY RecordUseType
  <2>2. RecordUse(st, now).used = RecentUses(st, now) \cup {NextUse(st, now)}
    BY DEF RecordUse, State
  <2>3. IsFiniteSet(RecentUses(st, now))
    BY FS_Subset DEF RecentUses
  <2>4. IsFiniteSet(RecordUse(st, now).used)
    BY <2>2, <2>3, FS_AddElement
  <2>. QED
    BY <1>13, <2>1, <2>4 DEF LockoutRecovery
<1>14. CASE EnsureRecovery
  BY <1>14 DEF EnsureRecovery
<1>15. CASE Environment
  <2>1. /\ st' = st /\ codes' = codes /\ releases' = releases
        /\ now' \in {now, now + 1}
        /\ file' \in {"ok", "damaged", "missing", file}
        /\ recovery' \in {"none", "damaged", recovery}
    BY <1>15 DEF Environment, Tick, LoseState, ReadAgain, LoseRecovery
  <2>2. now' \in Nat
    BY <2>1
  <2>. QED
    BY <2>1, <2>2
<1>16. CASE UNCHANGED vars
  BY <1>16 DEF vars
<1>. QED
  BY <1>2, <1>3, <1>4, <1>5, <1>6, <1>7, <1>8, <1>9, <1>10, <1>11, <1>12,
     <1>13, <1>14, <1>15, <1>16 DEF Next, Command

LEMMA TypeInvariant == Spec => []TypeInv
BY TypeInit, TypeStep, PTL DEF Spec

\* Whatever is requested, lost or repaired, every variable keeps its type:
\* in particular no accepted setting leaves its documented range.
THEOREM TypeCorrect == Spec => []TypeOK
BY TypeInvariant, PTL DEF TypeInv

-----------------------------------------------------------------------------
(* Safety invariants.                                                      *)
(*                                                                         *)
(* CommitmentProtects is not inductive: a record that cannot be read may   *)
(* be read again, so what it says must hold of the record whatever the     *)
(* state of the file is.                                                   *)

SafetyInv ==
    /\ CommitmentActive(st, now) => st.enabled
    /\ UnlockWasEarned

\* A matured unlock ends the commitment together with the protection.
LEMMA LoadedSafe ==
    TypeInv /\ SafetyInv =>
        /\ CommitmentActive(Loaded, now) => Loaded.enabled
        /\ Loaded.unlockAfter # 0 => Loaded.unlockAfter \in codes
        /\ ~UnlockDue(st, now) => Loaded = st
        /\ UnlockDue(st, now) =>
              Loaded = [st EXCEPT !.enabled = FALSE, !.until = 0, !.unlockAfter = 0]
        /\ ~UnlockDue(Loaded, now)
<1>. SUFFICES ASSUME TypeInv, SafetyInv
     PROVE  /\ CommitmentActive(Loaded, now) => Loaded.enabled
            /\ Loaded.unlockAfter # 0 => Loaded.unlockAfter \in codes
            /\ ~UnlockDue(st, now) => Loaded = st
            /\ UnlockDue(st, now) =>
                  Loaded = [st EXCEPT !.enabled = FALSE, !.until = 0, !.unlockAfter = 0]
            /\ ~UnlockDue(Loaded, now)
  OBVIOUS
<1>. USE DEF TypeInv, TypeOK, SafetyInv, UnlockWasEarned, CommitmentActive, Loaded,
             AfterDueUnlock, State
<1>1. CASE UnlockDue(st, now)
  BY <1>1 DEF UnlockDue
<1>2. CASE ~UnlockDue(st, now)
  BY <1>2
<1>. QED
  BY <1>1, <1>2

LEMMA SafetyInit == Init => SafetyInv
BY DEF Init, SafetyInv, UnlockWasEarned, NewState, CommitmentActive

LEMMA SafetyStep == TypeInv /\ SafetyInv /\ [Next]_vars => SafetyInv'
<1>. SUFFICES ASSUME TypeInv, SafetyInv, [Next]_vars PROVE SafetyInv'
  OBVIOUS
<1>1. /\ Loaded \in State
      /\ CommitmentActive(Loaded, now) => Loaded.enabled
      /\ Loaded.unlockAfter # 0 => Loaded.unlockAfter \in codes
      /\ Loaded.unlockDelay = st.unlockDelay
  BY LoadedType, LoadedSafe DEF Loaded, AfterDueUnlock, TypeInv, TypeOK, State
<1>. USE DEF TypeInv, TypeOK, SafetyInv, UnlockWasEarned, CommitmentActive
<1>2. CASE Status
  BY <1>1, <1>2 DEF Status
<1>3. ASSUME NEW p \in Texts, Enable(p) PROVE SafetyInv'
  BY <1>1, <1>3 DEF Enable, State
<1>4. ASSUME NEW p \in Texts, Disable(p) PROVE SafetyInv'
  <2>1. CASE IsBackdoor(p)
    <3>1. st' = Overridden(Loaded)
      BY <1>4, <2>1 DEF Disable, DisableResult
    <3>2. ~st'.enabled /\ st'.until = 0 /\ st'.unlockAfter = 0
      BY <1>1, <3>1 DEF Overridden, State
    <3>. QED
      BY <1>4, <3>2 DEF Disable
  <2>2. CASE ~IsBackdoor(p) /\ CodeOk(p)
    <3>1. DisableResult(Loaded, p) = Scheduled(Loaded)
      BY <2>2 DEF DisableResult
    <3>2. codes' = codes \cup {now + st.unlockDelay}
      BY <1>4, <2>2 DEF Disable
    <3>3. CASE UnlockPending(Loaded, now)
      <4>1. st' = Loaded
        BY <1>4, <3>1, <3>3 DEF Disable, Scheduled
      <4>. QED
        BY <1>1, <1>4, <3>2, <4>1 DEF Disable
    <3>4. CASE ~UnlockPending(Loaded, now)
      <4>1. st' = [Loaded EXCEPT !.unlockAfter = now + Loaded.unlockDelay]
        BY <1>4, <3>1, <3>4 DEF Disable, Scheduled
      <4>2. /\ st'.until = Loaded.until /\ st'.enabled = Loaded.enabled
            /\ st'.unlockAfter = now + Loaded.unlockDelay
        BY <1>1, <4>1 DEF State
      <4>. QED
        BY <1>1, <1>4, <3>2, <4>2 DEF Disable
    <3>. QED
      BY <3>3, <3>4
  <2>3. CASE ~IsBackdoor(p) /\ ~CodeOk(p)
    <3>1. codes' = codes
      BY <1>4, <2>3 DEF Disable
    <3>2. \/ DisableResult(Loaded, p) = Loaded
          \/ /\ DisableResult(Loaded, p) = TurnedOff(Loaded)
             /\ ~CommitmentActive(Loaded, now)
      BY <2>3 DEF DisableResult
    <3>. QED
      BY <1>1, <1>4, <3>1, <3>2 DEF Disable, TurnedOff, State
  <2>. QED
    BY <2>1, <2>2, <2>3
<1>5. ASSUME NEW code \in Texts, NEW p \in Texts, ResetPassword(code, p) PROVE SafetyInv'
  BY <1>1, <1>5 DEF ResetPassword, State
<1>6. ASSUME NEW code \in Texts, NEW p \in Texts, Repair(code, p) PROVE SafetyInv'
  BY <1>6 DEF Repair, NewState
<1>7. ASSUME NEW m \in Durations, SetDuration(m) PROVE SafetyInv'
  BY <1>1, <1>7 DEF SetDuration, State
<1>8. ASSUME NEW on \in Toggles, NEW ready \in BOOLEAN, NEW p \in Texts,
             SetAnimeEnabled(on, ready, p) PROVE SafetyInv'
  BY <1>1, <1>8 DEF SetAnimeEnabled, State
<1>9. ASSUME NEW on \in Toggles, NEW p \in Texts,
             SetShutdownAfterLockout(on, p) PROVE SafetyInv'
  BY <1>1, <1>9 DEF SetShutdownAfterLockout, State
<1>10. ASSUME NEW delay \in UnlockDelays, NEW release \in Releases,
              NEW releaseDelay \in ReleaseDelays, NEW uses \in UseLimits,
              NEW p \in Texts,
              SetRecoverySettings(delay, release, releaseDelay, uses, p)
       PROVE  SafetyInv'
  BY <1>1, <1>10 DEF SetRecoverySettings, State
<1>11. CASE CancelRecoveryUnlock
  BY <1>1, <1>11 DEF CancelRecoveryUnlock, State
<1>12. ASSUME NEW d \in Horizons, NEW p \in Texts, SetCommitment(d, p) PROVE SafetyInv'
  <2>1. Committed(Loaded, d).enabled /\ Committed(Loaded, d).unlockAfter = 0
    BY <1>1 DEF Committed, State
  <2>. QED
    BY <1>1, <1>12, <2>1 DEF SetCommitment
<1>13. ASSUME NEW code \in Texts, NEW lockout \in Lockouts,
              LockoutRecovery(code, lockout) PROVE SafetyInv'
  BY <1>13 DEF LockoutRecovery, RecordUse, State
<1>14. CASE EnsureRecovery
  BY <1>14 DEF EnsureRecovery
<1>15. CASE Environment
  <2>1. st' = st /\ codes' = codes /\ now' \in {now, now + 1}
    BY <1>15 DEF Environment, Tick, LoseState, ReadAgain, LoseRecovery
  <2>2. st.until \in Nat
    BY DEF State
  <2>3. CommitmentActive(st', now') => CommitmentActive(st, now)
    BY <2>1, <2>2
  <2>. QED
    BY <2>1, <2>3
<1>16. CASE UNCHANGED vars
  BY <1>16 DEF vars
<1>. QED
  BY <1>2, <1>3, <1>4, <1>5, <1>6, <1>7, <1>8, <1>9, <1>10, <1>11, <1>12,
     <1>13, <1>14, <1>15, <1>16 DEF Next, Command

LEMMA SafetyInvariant == Spec => [](TypeInv /\ SafetyInv)
BY TypeInit, TypeStep, SafetyInit, SafetyStep, PTL DEF Spec

\* A running commitment means protection is on, for every request sequence.
THEOREM CommitmentProtectsAlways == Spec => []CommitmentProtects
<1>1. SafetyInv => CommitmentProtects
  BY DEF SafetyInv, CommitmentProtects
<1>. QED
  BY <1>1, SafetyInvariant, PTL

\* No unlock timer exists that a recovery code did not start, after the last
\* commitment and with the full delay ahead of it.
THEOREM UnlockAlwaysEarned == Spec => []UnlockWasEarned
<1>1. SafetyInv => UnlockWasEarned
  BY DEF SafetyInv
<1>. QED
  BY <1>1, SafetyInvariant, PTL

-----------------------------------------------------------------------------
(* What a step may do to a record whose unlock timer has not matured.      *)

\* The settings a command may change without touching the switch.
SameSwitch(s, t) ==
    t.enabled = s.enabled /\ t.until = s.until /\ t.unlockAfter = s.unlockAfter

SameSettings(s, t) ==
    /\ t.duration = s.duration /\ t.anime = s.anime /\ t.shutdown = s.shutdown
    /\ t.unlockDelay = s.unlockDelay /\ t.release = s.release
    /\ t.releaseDelay = s.releaseDelay /\ t.releaseUses = s.releaseUses

NotLooser(s, t) ==
    /\ t.duration >= s.duration
    /\ s.anime => t.anime
    /\ s.shutdown => t.shutdown
    /\ ~LooserRecovery(s, t.unlockDelay, t.release, t.releaseDelay, t.releaseUses)

LEMMA SameIsNotLooser ==
    ASSUME NEW s \in State, NEW t, SameSettings(s, t)
    PROVE  NotLooser(s, t)
BY DEF SameSettings, NotLooser, LooserRecovery, LooserUses, State, DurationRange,
       UnlockDelayRange, ReleaseDelayRange, UsesAllowed

\* How each step treats the switch of a trusted record with no matured
\* timer: it leaves it, turns it on, withdraws or starts the timer, turns
\* protection off when no commitment runs, commits, or overrides.
LEMMA SwitchStep ==
    ASSUME TypeInv, SafetyInv, [Next]_vars, file = "ok", file' = "ok",
           ~UnlockDue(st, now)
    PROVE  \/ SameSwitch(st, st')
           \/ st'.enabled /\ st'.until = st.until /\ st'.unlockAfter = st.unlockAfter
           \/ /\ st'.enabled = st.enabled /\ st'.until = st.until
              /\ \/ st'.unlockAfter = 0
                 \/ ~UnlockPending(st, now) /\ st'.unlockAfter = now + st.unlockDelay
           \/ /\ ~CommitmentActive(st, now) /\ ~st'.enabled
              /\ st'.until = st.until /\ st'.unlockAfter = st.unlockAfter
           \/ /\ st'.enabled /\ st'.until > now /\ st'.unlockAfter = 0
              /\ CommitmentActive(st, now) => st'.until >= st.until
           \/ /\ BackdoorSet
              /\ ~st'.enabled /\ st'.until = 0 /\ st'.unlockAfter = 0
<1>1. Loaded = st
  BY LoadedSafe
<1>2. st \in State
  BY DEF TypeInv, TypeOK
<1>. USE <1>1, <1>2 DEF SameSwitch
<1>3. CASE Status
  BY <1>3 DEF Status
<1>4. ASSUME NEW p \in Texts, Enable(p)
      PROVE  \/ SameSwitch(st, st')
             \/ st'.enabled /\ st'.until = st.until /\ st'.unlockAfter = st.unlockAfter
  BY <1>4 DEF Enable, State
<1>5. ASSUME NEW p \in Texts, Disable(p)
      PROVE  \/ SameSwitch(st, st')
             \/ /\ st'.enabled = st.enabled /\ st'.until = st.until
                /\ ~UnlockPending(st, now) /\ st'.unlockAfter = now + st.unlockDelay
             \/ /\ ~CommitmentActive(st, now) /\ ~st'.enabled
                /\ st'.until = st.until /\ st'.unlockAfter = st.unlockAfter
             \/ /\ BackdoorSet
                /\ ~st'.enabled /\ st'.until = 0 /\ st'.unlockAfter = 0
  <2>1. st' = DisableResult(st, p)
    BY <1>5 DEF Disable
  <2>2. CASE IsBackdoor(p)
    <3>1. st' = Overridden(st)
      BY <2>1, <2>2 DEF DisableResult
    <3>2. BackdoorSet
      BY <2>2 DEF IsBackdoor
    <3>. QED
      BY <3>1, <3>2 DEF Overridden, State
  <2>3. CASE ~IsBackdoor(p) /\ CodeOk(p)
    <3>1. st' = Scheduled(st)
      BY <2>1, <2>3 DEF DisableResult
    <3>. QED
      BY <3>1 DEF Scheduled, State
  <2>4. CASE ~IsBackdoor(p) /\ ~CodeOk(p)
    <3>1. \/ st' = st
          \/ st' = TurnedOff(st) /\ ~CommitmentActive(st, now)
      BY <2>1, <2>4 DEF DisableResult
    <3>2. /\ ~TurnedOff(st).enabled
          /\ TurnedOff(st).until = st.until
          /\ TurnedOff(st).unlockAfter = st.unlockAfter
      BY DEF TurnedOff, State
    <3>. QED
      BY <3>1, <3>2
  <2>. QED
    BY <2>2, <2>3, <2>4
<1>6. ASSUME NEW code \in Texts, NEW p \in Texts, ResetPassword(code, p)
      PROVE  SameSwitch(st, st')
  BY <1>6 DEF ResetPassword, State
<1>7. ASSUME NEW code \in Texts, NEW p \in Texts, Repair(code, p) PROVE FALSE
  BY <1>7 DEF Repair, Untrusted
<1>8. ASSUME NEW m \in Durations, SetDuration(m) PROVE SameSwitch(st, st')
  BY <1>8 DEF SetDuration, State
<1>9. ASSUME NEW on \in Toggles, NEW ready \in BOOLEAN, NEW p \in Texts,
             SetAnimeEnabled(on, ready, p)
      PROVE  SameSwitch(st, st')
  BY <1>9 DEF SetAnimeEnabled, State
<1>10. ASSUME NEW on \in Toggles, NEW p \in Texts, SetShutdownAfterLockout(on, p)
       PROVE  SameSwitch(st, st')
  BY <1>10 DEF SetShutdownAfterLockout, State
<1>11. ASSUME NEW delay \in UnlockDelays, NEW release \in Releases,
              NEW releaseDelay \in ReleaseDelays, NEW uses \in UseLimits,
              NEW p \in Texts,
              SetRecoverySettings(delay, release, releaseDelay, uses, p)
       PROVE  SameSwitch(st, st')
  BY <1>11 DEF SetRecoverySettings, State
<1>12. CASE CancelRecoveryUnlock
  BY <1>12 DEF CancelRecoveryUnlock, State
<1>13. ASSUME NEW d \in Horizons, NEW p \in Texts, SetCommitment(d, p)
       PROVE  \/ SameSwitch(st, st')
              \/ /\ st'.enabled /\ st'.until > now /\ st'.unlockAfter = 0
                 /\ CommitmentActive(st, now) => st'.until >= st.until
  <2>1. /\ Committed(st, d).enabled /\ Committed(st, d).until = d
        /\ Committed(st, d).unlockAfter = 0
    BY DEF Committed, State
  <2>. QED
    BY <1>13, <2>1 DEF SetCommitment, MayCommit
<1>14. ASSUME NEW code \in Texts, NEW lockout \in Lockouts,
              LockoutRecovery(code, lockout)
       PROVE  SameSwitch(st, st')
  BY <1>14 DEF LockoutRecovery, RecordUse, State
<1>15. CASE EnsureRecovery
  BY <1>15 DEF EnsureRecovery
<1>16. CASE Environment
  BY <1>16 DEF Environment, Tick, LoseState, ReadAgain, LoseRecovery
<1>17. CASE UNCHANGED vars
  BY <1>17 DEF vars
<1>. QED
  BY <1>3, <1>4, <1>5, <1>6, <1>7, <1>8, <1>9, <1>10, <1>11, <1>12, <1>13,
     <1>14, <1>15, <1>16, <1>17 DEF Next, Command

\* How each step treats the settings of a trusted record: it keeps them or,
\* while a commitment runs, makes none of them looser.
LEMMA SettingsStep ==
    ASSUME TypeInv, SafetyInv, [Next]_vars, file = "ok", file' = "ok",
           CommitmentActive(Loaded, now)
    PROVE  NotLooser(Loaded, st')
<1>1. Loaded \in State
  BY LoadedType
<1>2. Loaded = st
  BY <1>1, LoadedSafe DEF CommitmentActive, TypeInv, TypeOK, State
<1>3. ASSUME SameSettings(st, st') PROVE NotLooser(st, st')
  BY <1>1, <1>2, <1>3, SameIsNotLooser
<1>. USE <1>1, <1>2 DEF SameSettings, MayLoosen
<1>4. CASE Status
  BY <1>3, <1>4 DEF Status
<1>5. ASSUME NEW p \in Texts, Enable(p) PROVE SameSettings(st, st')
  BY <1>5 DEF Enable, State
<1>6. ASSUME NEW p \in Texts, Disable(p) PROVE SameSettings(st, st')
  <2>1. st' \in {st, Overridden(st), Scheduled(st), TurnedOff(st)}
    BY <1>6 DEF Disable, DisableResult
  <2>2. SameSettings(st, Overridden(st)) /\ SameSettings(st, TurnedOff(st))
    BY DEF Overridden, TurnedOff, State
  <2>3. SameSettings(st, Scheduled(st))
    BY DEF Scheduled, State
  <2>. QED
    BY <2>1, <2>2, <2>3
<1>7. ASSUME NEW code \in Texts, NEW p \in Texts, ResetPassword(code, p)
      PROVE  SameSettings(st, st')
  BY <1>7 DEF ResetPassword, State
<1>8. ASSUME NEW code \in Texts, NEW p \in Texts, Repair(code, p) PROVE FALSE
  BY <1>8 DEF Repair, Untrusted
<1>9. ASSUME NEW m \in Durations, SetDuration(m) PROVE NotLooser(st, st')
  <2>1. CASE DurationAllowed(st, m)
    BY <1>9, <2>1 DEF SetDuration, DurationAllowed, NotLooser, LooserRecovery,
       LooserUses, State, UnlockDelayRange, ReleaseDelayRange, UsesAllowed
  <2>2. CASE ~DurationAllowed(st, m)
    BY <1>9, <1>3, <2>2 DEF SetDuration
  <2>. QED
    BY <2>1, <2>2
<1>10. ASSUME NEW on \in Toggles, NEW ready \in BOOLEAN, NEW p \in Texts,
              SetAnimeEnabled(on, ready, p)
       PROVE  NotLooser(st, st')
  <2>1. CASE AnimeAllowed(st, on, ready, p)
    BY <1>10, <2>1 DEF SetAnimeEnabled, AnimeAllowed, NotLooser, LooserRecovery,
       LooserUses, State, DurationRange, UnlockDelayRange, ReleaseDelayRange, UsesAllowed
  <2>2. CASE ~AnimeAllowed(st, on, ready, p)
    BY <1>10, <1>3, <2>2 DEF SetAnimeEnabled
  <2>. QED
    BY <2>1, <2>2
<1>11. ASSUME NEW on \in Toggles, NEW p \in Texts, SetShutdownAfterLockout(on, p)
       PROVE  NotLooser(st, st')
  <2>1. CASE ShutdownAllowed(st, on, p)
    BY <1>11, <2>1 DEF SetShutdownAfterLockout, ShutdownAllowed, NotLooser,
       LooserRecovery, LooserUses, State, DurationRange, UnlockDelayRange,
       ReleaseDelayRange, UsesAllowed
  <2>2. CASE ~ShutdownAllowed(st, on, p)
    BY <1>11, <1>3, <2>2 DEF SetShutdownAfterLockout
  <2>. QED
    BY <2>1, <2>2
<1>12. ASSUME NEW delay \in UnlockDelays, NEW release \in Releases,
              NEW releaseDelay \in ReleaseDelays, NEW uses \in UseLimits,
              NEW p \in Texts,
              SetRecoverySettings(delay, release, releaseDelay, uses, p)
       PROVE  NotLooser(st, st')
  <2>1. CASE RecoveryAllowed(st, delay, release, releaseDelay, uses, p)
    <3>1. ~LooserRecovery(st, delay, release, releaseDelay, uses)
      BY <2>1 DEF RecoveryAllowed
    <3>2. /\ st'.unlockDelay = delay /\ st'.release = release
          /\ st'.releaseDelay = releaseDelay /\ st'.releaseUses = uses
          /\ st'.duration = st.duration /\ st'.anime = st.anime
          /\ st'.shutdown = st.shutdown
      BY <1>12, <2>1 DEF SetRecoverySettings, State
    <3>. QED
      BY <3>1, <3>2 DEF NotLooser, State, DurationRange
  <2>2. CASE ~RecoveryAllowed(st, delay, release, releaseDelay, uses, p)
    BY <1>12, <1>3, <2>2 DEF SetRecoverySettings
  <2>. QED
    BY <2>1, <2>2
<1>13. CASE CancelRecoveryUnlock
  BY <1>3, <1>13 DEF CancelRecoveryUnlock, State
<1>14. ASSUME NEW d \in Horizons, NEW p \in Texts, SetCommitment(d, p)
       PROVE  SameSettings(st, st')
  BY <1>14 DEF SetCommitment, Committed, State
<1>15. ASSUME NEW code \in Texts, NEW lockout \in Lockouts,
              LockoutRecovery(code, lockout)
       PROVE  SameSettings(st, st')
  BY <1>15 DEF LockoutRecovery, RecordUse, State
<1>16. CASE EnsureRecovery
  BY <1>3, <1>16 DEF EnsureRecovery
<1>17. CASE Environment
  BY <1>3, <1>17 DEF Environment, Tick, LoseState, ReadAgain, LoseRecovery
<1>18. CASE UNCHANGED vars
  BY <1>3, <1>18 DEF vars
<1>. QED
  BY <1>3, <1>4, <1>5, <1>6, <1>7, <1>8, <1>9, <1>10, <1>11, <1>12, <1>13,
     <1>14, <1>15, <1>16, <1>17, <1>18 DEF Next, Command

\* A matured timer ends the commitment, and the command that finds it may
\* accept a new one, but then it leaves every setting as it was.
LEMMA DueStep ==
    ASSUME TypeInv, SafetyInv, [Next]_vars, file = "ok", file' = "ok",
           UnlockDue(st, now), CommitmentActive(st', now)
    PROVE  SameSettings(st, st')
<1>1. /\ Loaded \in State
      /\ Loaded.until = 0
      /\ SameSettings(st, Loaded)
  BY LoadedType, LoadedSafe DEF SameSettings, TypeInv, TypeOK, State
<1>2. ASSUME st' = st PROVE SameSettings(st, st')
  BY <1>2 DEF SameSettings
<1>. USE <1>1 DEF CommitmentActive, TypeInv, TypeOK
<1>3. CASE Status
  BY <1>3 DEF Status
<1>4. ASSUME NEW p \in Texts, Enable(p) PROVE st'.until = 0
  BY <1>4 DEF Enable, State
<1>5. ASSUME NEW p \in Texts, Disable(p) PROVE st'.until = 0
  <2>1. st' \in {Loaded, Overridden(Loaded), Scheduled(Loaded), TurnedOff(Loaded)}
    BY <1>5 DEF Disable, DisableResult
  <2>2. Overridden(Loaded).until = 0 /\ TurnedOff(Loaded).until = 0
    BY DEF Overridden, TurnedOff, State
  <2>3. Scheduled(Loaded).until = 0
    BY DEF Scheduled, State
  <2>. QED
    BY <2>1, <2>2, <2>3
<1>6. ASSUME NEW code \in Texts, NEW p \in Texts, ResetPassword(code, p)
      PROVE  st'.until = 0
  BY <1>6 DEF ResetPassword, State
<1>7. ASSUME NEW code \in Texts, NEW p \in Texts, Repair(code, p) PROVE FALSE
  BY <1>7 DEF Repair, Untrusted
<1>8. ASSUME NEW m \in Durations, SetDuration(m) PROVE st'.until = 0
  BY <1>8 DEF SetDuration, State
<1>9. ASSUME NEW on \in Toggles, NEW ready \in BOOLEAN, NEW p \in Texts,
             SetAnimeEnabled(on, ready, p)
      PROVE  st'.until = 0
  BY <1>9 DEF SetAnimeEnabled, State
<1>10. ASSUME NEW on \in Toggles, NEW p \in Texts, SetShutdownAfterLockout(on, p)
       PROVE  st'.until = 0
  BY <1>10 DEF SetShutdownAfterLockout, State
<1>11. ASSUME NEW delay \in UnlockDelays, NEW release \in Releases,
              NEW releaseDelay \in ReleaseDelays, NEW uses \in UseLimits,
              NEW p \in Texts,
              SetRecoverySettings(delay, release, releaseDelay, uses, p)
       PROVE  st'.until = 0
  BY <1>11 DEF SetRecoverySettings, State
<1>12. CASE CancelRecoveryUnlock
  BY <1>12 DEF CancelRecoveryUnlock, State
<1>13. ASSUME NEW d \in Horizons, NEW p \in Texts, SetCommitment(d, p)
       PROVE  SameSettings(st, st')
  <2>1. SameSettings(Loaded, Committed(Loaded, d))
    BY DEF SameSettings, Committed, State
  <2>. QED
    BY <1>13, <2>1 DEF SetCommitment, SameSettings
<1>14. ASSUME NEW code \in Texts, NEW lockout \in Lockouts,
              LockoutRecovery(code, lockout)
       PROVE  SameSettings(st, st')
  BY <1>14 DEF LockoutRecovery, RecordUse, SameSettings, State
<1>15. CASE EnsureRecovery
  BY <1>2, <1>15 DEF EnsureRecovery
<1>16. CASE Environment
  BY <1>2, <1>16 DEF Environment, Tick, LoseState, ReadAgain, LoseRecovery
<1>17. CASE UNCHANGED vars
  BY <1>2, <1>17 DEF vars
<1>. QED
  BY <1>3, <1>4, <1>5, <1>6, <1>7, <1>8, <1>9, <1>10, <1>11, <1>12, <1>13,
     <1>14, <1>15, <1>16, <1>17 DEF Next, Command

-----------------------------------------------------------------------------
(* Action properties.                                                      *)

\* A running commitment is ended or shortened by a matured recovery unlock
\* that was requested after it, by the override, and by nothing else.
THEOREM CommitmentAlwaysHonoured == Spec => CommitmentHonoured
<1>1. ASSUME TypeInv, SafetyInv, [Next]_vars, file = "ok", file' = "ok",
             CommitmentActive(st, now), st'.until < st.until
      PROVE  BackdoorSet \/ (\E c \in codes : c <= now)
  <2>1. CASE UnlockDue(st, now)
    BY <1>1, <2>1 DEF UnlockDue, SafetyInv, UnlockWasEarned
  <2>2. CASE ~UnlockDue(st, now)
    <3>1. st.until \in Nat /\ st'.until \in Nat
      BY <1>1, TypeStep DEF TypeInv, TypeOK, State
    <3>2. st'.until = st.until \/ st'.until >= st.until \/ BackdoorSet
      BY <1>1, <2>2, SwitchStep DEF SameSwitch
    <3>. QED
      BY <1>1, <3>1, <3>2
  <2>. QED
    BY <2>1, <2>2
<1>2. TypeInv /\ SafetyInv /\ [Next]_vars =>
        [(/\ file = "ok" /\ file' = "ok" /\ CommitmentActive(st, now)
          /\ st'.until < st.until)
         => BackdoorSet \/ (\E c \in codes : c <= now)]_vars
  BY <1>1
<1>. QED
  BY <1>2, SafetyInvariant, PTL DEF Spec, CommitmentHonoured

\* While a commitment runs no setting becomes looser.
THEOREM NothingEverLoosens == Spec => NothingLoosens
<1>1. ASSUME TypeInv, SafetyInv, [Next]_vars, file = "ok", file' = "ok",
             CommitmentActive(st, now), CommitmentActive(st', now)
      PROVE  NotLooser(st, st')
  <2>1. CASE UnlockDue(st, now)
    BY <1>1, <2>1, DueStep, SameIsNotLooser DEF TypeInv, TypeOK
  <2>2. CASE ~UnlockDue(st, now)
    <3>1. Loaded = st
      BY <1>1, <2>2, LoadedSafe
    <3>. QED
      BY <1>1, <3>1, SettingsStep
  <2>. QED
    BY <2>1, <2>2
<1>2. TypeInv /\ SafetyInv /\ [Next]_vars =>
        [(/\ file = "ok" /\ file' = "ok"
          /\ CommitmentActive(st, now) /\ CommitmentActive(st', now))
         => /\ st'.duration >= st.duration
            /\ st.anime => st'.anime
            /\ st.shutdown => st'.shutdown
            /\ ~LooserRecovery(st, st'.unlockDelay, st'.release,
                               st'.releaseDelay, st'.releaseUses)]_vars
  BY <1>1 DEF NotLooser
<1>. QED
  BY <1>2, SafetyInvariant, PTL DEF Spec, NothingLoosens

\* A pending unlock is withdrawn or kept, never moved.
THEOREM UnlockNeverHastened == Spec => UnlockNotHastened
<1>1. ASSUME TypeInv, SafetyInv, [Next]_vars, file = "ok", file' = "ok",
             UnlockPending(st, now)
      PROVE  st'.unlockAfter \in {0, st.unlockAfter}
  <2>1. ~UnlockDue(st, now)
    BY <1>1 DEF UnlockPending, UnlockDue, TypeInv, TypeOK, State
  <2>. QED
    BY <1>1, <2>1, SwitchStep DEF SameSwitch
<1>2. TypeInv /\ SafetyInv /\ [Next]_vars =>
        [(file = "ok" /\ file' = "ok" /\ UnlockPending(st, now))
         => st'.unlockAfter \in {0, st.unlockAfter}]_vars
  BY <1>1
<1>. QED
  BY <1>2, SafetyInvariant, PTL DEF Spec, UnlockNotHastened

-----------------------------------------------------------------------------
(* The limit on releases.  Pruning must never drop a release that still     *)
(* counts: every release inside the window is in the record.               *)

ReleasesRecorded == {u \in releases : u[1] + Window > now} \subseteq st.used

LEMMA ReleasesInit == Init => ReleasesRecorded
BY DEF Init, ReleasesRecorded

LEMMA ReleasesStep == TypeInv /\ ReleasesRecorded /\ [Next]_vars => ReleasesRecorded'
<1>. SUFFICES ASSUME TypeInv, ReleasesRecorded, [Next]_vars PROVE ReleasesRecorded'
  OBVIOUS
<1>. USE DEF ReleasesRecorded
<1>1. ASSUME st'.used = st.used, releases' = releases, now' = now PROVE ReleasesRecorded'
  BY <1>1
<1>2. Loaded \in State /\ Loaded.used = st.used
  BY LoadedType DEF Loaded, AfterDueUnlock, TypeInv, TypeOK, State
<1>3. CASE Status
  BY <1>1, <1>2, <1>3 DEF Status
<1>4. ASSUME NEW p \in Texts, Enable(p) PROVE ReleasesRecorded'
  BY <1>1, <1>2, <1>4 DEF Enable, State
<1>5. ASSUME NEW p \in Texts, Disable(p) PROVE ReleasesRecorded'
  BY <1>1, <1>2, <1>5, DisableResultType DEF Disable, TypeInv, TypeOK
<1>6. ASSUME NEW code \in Texts, NEW p \in Texts, ResetPassword(code, p)
      PROVE  ReleasesRecorded'
  BY <1>1, <1>2, <1>6 DEF ResetPassword, State
<1>7. ASSUME NEW code \in Texts, NEW p \in Texts, Repair(code, p)
      PROVE  ReleasesRecorded'
  BY <1>7 DEF Repair
<1>8. ASSUME NEW m \in Durations, SetDuration(m) PROVE ReleasesRecorded'
  BY <1>1, <1>2, <1>8 DEF SetDuration, State
<1>9. ASSUME NEW on \in Toggles, NEW ready \in BOOLEAN, NEW p \in Texts,
             SetAnimeEnabled(on, ready, p)
      PROVE  ReleasesRecorded'
  BY <1>1, <1>2, <1>9 DEF SetAnimeEnabled, State
<1>10. ASSUME NEW on \in Toggles, NEW p \in Texts, SetShutdownAfterLockout(on, p)
       PROVE  ReleasesRecorded'
  BY <1>1, <1>2, <1>10 DEF SetShutdownAfterLockout, State
<1>11. ASSUME NEW delay \in UnlockDelays, NEW release \in Releases,
              NEW releaseDelay \in ReleaseDelays, NEW uses \in UseLimits,
              NEW p \in Texts,
              SetRecoverySettings(delay, release, releaseDelay, uses, p)
       PROVE  ReleasesRecorded'
  BY <1>1, <1>2, <1>11 DEF SetRecoverySettings, State
<1>12. CASE CancelRecoveryUnlock
  BY <1>1, <1>2, <1>12 DEF CancelRecoveryUnlock, State
<1>13. ASSUME NEW d \in Horizons, NEW p \in Texts, SetCommitment(d, p)
       PROVE  ReleasesRecorded'
  <2>1. Committed(Loaded, d).used = st.used
    BY <1>2 DEF Committed, State
  <2>. QED
    BY <1>1, <1>2, <1>13, <2>1 DEF SetCommitment
<1>14. ASSUME NEW code \in Texts, NEW lockout \in Lockouts,
              LockoutRecovery(code, lockout)
       PROVE  ReleasesRecorded'
  <2>1. RecordUse(st, now).used = RecentUses(st, now) \cup {NextUse(st, now)}
    BY DEF RecordUse, TypeInv, TypeOK, State
  <2>2. {u \in releases : u[1] + Window > now} \subseteq RecentUses(st, now)
    BY DEF RecentUses
  <2>. QED
    BY <1>14, <2>1, <2>2 DEF LockoutRecovery
<1>15. CASE EnsureRecovery
  BY <1>1, <1>15 DEF EnsureRecovery
<1>16. CASE Environment
  <2>1. st' = st /\ releases' = releases /\ now' \in {now, now + 1}
    BY <1>16 DEF Environment, Tick, LoseState, ReadAgain, LoseRecovery
  <2>2. ASSUME NEW u \in releases, u[1] + Window > now'
        PROVE  u[1] + Window > now
    <3>1. u[1] \in Nat
      BY DEF TypeInv, TypeOK, Use
    <3>. QED
      BY <2>1, <2>2, <3>1 DEF TypeInv, TypeOK
  <2>. QED
    BY <2>1, <2>2
<1>17. CASE UNCHANGED vars
  BY <1>1, <1>17 DEF vars
<1>. QED
  BY <1>3, <1>4, <1>5, <1>6, <1>7, <1>8, <1>9, <1>10, <1>11, <1>12, <1>13,
     <1>14, <1>15, <1>16, <1>17 DEF Next, Command

\* Only a release adds to the releases, and only below the limit.
LEMMA ReleaseOnlyBelowLimit ==
    ASSUME [Next]_vars, releases' # releases, file = "ok"
    PROVE  /\ LimitAvailable(st, now)
           /\ releases' = releases \cup {NextUse(st, now)}
<1>1. ~ UNCHANGED releases
  OBVIOUS
<1>2. \E code \in Texts, lockout \in Lockouts : LockoutRecovery(code, lockout)
  BY <1>1 DEF Next, Command, Environment, vars, Status, Enable, Disable,
     ResetPassword, Repair, Untrusted, SetDuration, SetAnimeEnabled,
     SetShutdownAfterLockout, SetRecoverySettings, CancelRecoveryUnlock,
     SetCommitment, EnsureRecovery, Tick, LoseState, ReadAgain, LoseRecovery
<1>. QED
  BY <1>1, <1>2 DEF LockoutRecovery

\* In any window of the given length at most the allowed number of releases
\* is granted, counted over all releases ever granted and not over the
\* pruned list the code keeps.
THEOREM ReleaseLimitAlwaysKept == Spec => ReleaseLimitKept
<1>. DEFINE InWindow(R) == {u \in R : u[1] + Window > now}
<1>1. ASSUME TypeInv, ReleasesRecorded, [Next]_vars,
             releases' # releases, file = "ok", st.releaseUses # Unlimited
      PROVE  Cardinality(InWindow(releases')) <= st.releaseUses
  <2>1. Cardinality(RecentUses(st, now)) < st.releaseUses
    BY <1>1, ReleaseOnlyBelowLimit DEF LimitAvailable
  <2>2. IsFiniteSet(RecentUses(st, now))
    BY <1>1, FS_Subset DEF TypeInv, UsedFinite, RecentUses
  <2>. DEFINE Next1 == RecentUses(st, now) \cup {NextUse(st, now)}
  <2>3. /\ IsFiniteSet(Next1)
        /\ Cardinality(Next1) <= Cardinality(RecentUses(st, now)) + 1
    <3>1. Cardinality(RecentUses(st, now)) \in Nat
      BY <2>2, FS_CardinalityType
    <3>2. /\ IsFiniteSet(Next1)
          /\ \/ Cardinality(Next1) = Cardinality(RecentUses(st, now))
             \/ Cardinality(Next1) = Cardinality(RecentUses(st, now)) + 1
      BY <2>2, FS_AddElement, Zenon
    <3>. HIDE DEF Next1
    <3>. QED
      BY <3>1, <3>2
  <2>4. InWindow(releases') \subseteq Next1
    BY <1>1, ReleaseOnlyBelowLimit DEF ReleasesRecorded, RecentUses
  <2>5. /\ IsFiniteSet(InWindow(releases'))
        /\ Cardinality(InWindow(releases')) <= Cardinality(Next1)
    <3>. HIDE DEF InWindow, Next1
    <3>. QED
      BY <2>3, <2>4, FS_Subset
  <2>6. /\ Cardinality(RecentUses(st, now)) \in Nat
        /\ Cardinality(Next1) \in Nat
        /\ Cardinality(InWindow(releases')) \in Nat
    BY <2>2, <2>3, <2>5, FS_CardinalityType
  <2>7. st.releaseUses \in Nat
    BY <1>1 DEF TypeInv, TypeOK, State, UsesAllowed
  <2>. QED
    <3>. HIDE DEF InWindow, Next1
    <3>. QED
      BY <2>1, <2>3, <2>5, <2>6, <2>7
<1>2. TypeInv /\ ReleasesRecorded /\ [Next]_vars =>
        [(releases' # releases /\ file = "ok" /\ st.releaseUses # Unlimited)
         => Cardinality({u \in releases' : u[1] + Window > now})
              <= st.releaseUses]_vars
  BY <1>1
<1>. QED
  BY <1>2, TypeInit, TypeStep, ReleasesInit, ReleasesStep, PTL DEF Spec, ReleaseLimitKept

-----------------------------------------------------------------------------
(* The service implements Protection: each of its steps, seen through the    *)
(* record a reader acts on, is a step of the abstract switch or leaves it as *)
(* it was.  The moment an unlock matures is a Tick of the service in which   *)
(* no file changes; the command that later persists it changes nothing that  *)
(* a reader sees.                                                            *)

\* What is seen of a record is itself a record with no matured timer, and
\* the command that persists it does not change what is seen.
LEMMA EffectiveIsLoaded ==
    TypeInv => /\ Effective = Loaded
               /\ Loaded \in State
               /\ ~UnlockDue(Loaded, now)
               /\ AfterDueUnlock(Loaded, now) = Loaded
<1>. SUFFICES ASSUME TypeInv PROVE ~UnlockDue(Loaded, now)
  BY LoadedType DEF Effective, Loaded, AfterDueUnlock
<1>1. CASE UnlockDue(st, now)
  <2>1. Loaded.unlockAfter = 0
    BY <1>1 DEF Loaded, AfterDueUnlock, TypeInv, TypeOK, State
  <2>. QED
    BY <2>1 DEF UnlockDue
<1>2. CASE ~UnlockDue(st, now)
  BY <1>2 DEF Loaded, AfterDueUnlock
<1>. QED
  BY <1>1, <1>2

\* A record with no matured timer is seen as it is.
LEMMA SeenAsIs ==
    ASSUME ~UnlockDue(st', now')
    PROVE  Effective' = st'
BY DEF Effective, AfterDueUnlock

\* A command that leaves the switch of the loaded record alone is invisible.
LEMMA InvisibleStep ==
    ASSUME TypeInv, now' = now, SameSwitch(Loaded, st'), Untrusted' = Untrusted
    PROVE  UNCHANGED Abstract!vars
<1>1. ~UnlockDue(st', now')
  BY EffectiveIsLoaded DEF SameSwitch, UnlockDue
<1>2. Effective' = st' /\ Effective = Loaded
  BY <1>1, SeenAsIs, EffectiveIsLoaded
<1>. QED
  BY <1>2 DEF Abstract!vars, SameSwitch

LEMMA RefinementInit == Init => Abstract!Init
BY DEF Init, Abstract!Init, Effective, AfterDueUnlock, UnlockDue, NewState, Untrusted

LEMMA RefinementStep ==
    TypeInv /\ SafetyInv /\ [Next]_vars => [Abstract!Next]_(Abstract!vars)
<1>. SUFFICES ASSUME TypeInv, SafetyInv, [Next]_vars
     PROVE  [Abstract!Next]_(Abstract!vars)
  OBVIOUS
<1>1. /\ Effective = Loaded /\ Loaded \in State
      /\ ~UnlockDue(Loaded, now)
      /\ Loaded.unlockDelay = st.unlockDelay
  BY EffectiveIsLoaded DEF Loaded, AfterDueUnlock, TypeInv, TypeOK, State
<1>2. file = "ok" => ~Untrusted
  BY DEF Untrusted
<1>. USE <1>1, <1>2
<1>3. CASE Status
  BY <1>3, InvisibleStep DEF Status, SameSwitch, Untrusted
<1>4. ASSUME NEW p \in Texts, Enable(p) PROVE [Abstract!Next]_(Abstract!vars)
  <2>1. CASE p \in ShortTexts
    BY <1>4, <2>1, InvisibleStep DEF Enable, SameSwitch, Untrusted
  <2>2. CASE p \notin ShortTexts
    <3>1. /\ st'.enabled = TRUE /\ st'.until = Loaded.until
          /\ st'.unlockAfter = Loaded.unlockAfter
      BY <1>4, <2>2 DEF Enable, State
    <3>2. ~UnlockDue(st', now')
      BY <1>4, <3>1 DEF Enable, UnlockDue
    <3>3. Abstract!TurnOn
      BY <1>4, <3>1, <3>2, SeenAsIs DEF Enable, Abstract!TurnOn, Untrusted
    <3>. QED
      BY <1>4, <3>3 DEF Enable, Abstract!Next, Abstract!Request
  <2>. QED
    BY <2>1, <2>2
<1>5. ASSUME NEW p \in Texts, Disable(p) PROVE [Abstract!Next]_(Abstract!vars)
  <2>1. /\ st' = DisableResult(Loaded, p) /\ now' = now /\ file' = file
        /\ ~Untrusted /\ Untrusted' = Untrusted
    BY <1>5 DEF Disable, Untrusted
  <2>2. CASE IsBackdoor(p)
    <3>1. st' = Overridden(Loaded) /\ BackdoorSet
      BY <2>1, <2>2 DEF DisableResult, IsBackdoor
    <3>2. st'.enabled = FALSE /\ st'.until = 0 /\ st'.unlockAfter = 0
      BY <3>1 DEF Overridden, State
    <3>3. Effective' = st'
      BY <3>2, SeenAsIs DEF UnlockDue
    <3>. QED
      BY <2>1, <3>1, <3>2, <3>3 DEF Abstract!Next, Abstract!Request, Abstract!Override
  <2>3. CASE ~IsBackdoor(p) /\ CodeOk(p)
    <3>1. st' = Scheduled(Loaded)
      BY <2>1, <2>3 DEF DisableResult
    <3>2. CASE UnlockPending(Loaded, now)
      BY <2>1, <3>1, <3>2, InvisibleStep DEF Scheduled, SameSwitch
    <3>3. CASE ~UnlockPending(Loaded, now)
      <4>1. Loaded.unlockAfter = 0
        BY <3>3 DEF UnlockPending, UnlockDue, TypeInv, TypeOK, State
      <4>2. /\ st'.enabled = Loaded.enabled /\ st'.until = Loaded.until
            /\ st'.unlockAfter = now + Loaded.unlockDelay
        BY <3>1, <3>3 DEF Scheduled, State
      <4>3. now + Loaded.unlockDelay > now /\ now + Loaded.unlockDelay # 0
        BY DEF State, UnlockDelayRange, TypeInv, TypeOK
      <4>4. ~(now + Loaded.unlockDelay <= now)
        BY DEF State, UnlockDelayRange, TypeInv, TypeOK
      <4>5. Effective' = st'
        BY <2>1, <4>2, <4>4, SeenAsIs DEF UnlockDue
      <4>6. Abstract!AskUnlock
        BY <2>1, <4>1, <4>2, <4>3, <4>5 DEF Abstract!AskUnlock
      <4>. QED
        BY <2>1, <4>6 DEF Abstract!Next, Abstract!Request
    <3>. QED
      BY <3>2, <3>3
  <2>4. CASE ~IsBackdoor(p) /\ ~CodeOk(p)
    <3>1. \/ st' = Loaded
          \/ st' = TurnedOff(Loaded) /\ ~CommitmentActive(Loaded, now)
      BY <2>1, <2>4 DEF DisableResult
    <3>2. CASE st' = Loaded
      BY <2>1, <3>2, InvisibleStep DEF SameSwitch
    <3>3. CASE st' = TurnedOff(Loaded) /\ ~CommitmentActive(Loaded, now)
      <4>1. /\ st'.enabled = FALSE /\ st'.until = Loaded.until
            /\ st'.unlockAfter = Loaded.unlockAfter
        BY <3>3 DEF TurnedOff, State
      <4>2. Effective' = st'
        BY <2>1, <4>1, SeenAsIs DEF UnlockDue
      <4>3. Abstract!TurnOff
        BY <2>1, <3>3, <4>1, <4>2
        DEF Abstract!TurnOff, Abstract!Running, CommitmentActive
      <4>. QED
        BY <2>1, <4>3 DEF Abstract!Next, Abstract!Request
    <3>. QED
      BY <3>1, <3>2, <3>3
  <2>. QED
    BY <2>2, <2>3, <2>4
<1>6. ASSUME NEW code \in Texts, NEW p \in Texts, ResetPassword(code, p)
      PROVE  UNCHANGED Abstract!vars
  BY <1>6, InvisibleStep DEF ResetPassword, SameSwitch, State, Untrusted
<1>7. ASSUME NEW code \in Texts, NEW p \in Texts, Repair(code, p)
      PROVE  Abstract!Next
  <2>1. st'.enabled = TRUE /\ st'.until = 0 /\ st'.unlockAfter = 0
    BY <1>7 DEF Repair, NewState
  <2>2. Effective' = st'
    BY <2>1, SeenAsIs DEF UnlockDue
  <2>3. Untrusted /\ ~Untrusted' /\ now' = now
    BY <1>7 DEF Repair, Untrusted
  <2>. QED
    BY <2>1, <2>2, <2>3 DEF Abstract!Next, Abstract!Repair
<1>8. ASSUME NEW m \in Durations, SetDuration(m) PROVE UNCHANGED Abstract!vars
  BY <1>8, InvisibleStep DEF SetDuration, SameSwitch, State, Untrusted
<1>9. ASSUME NEW on \in Toggles, NEW ready \in BOOLEAN, NEW p \in Texts,
             SetAnimeEnabled(on, ready, p)
      PROVE  UNCHANGED Abstract!vars
  BY <1>9, InvisibleStep DEF SetAnimeEnabled, SameSwitch, State, Untrusted
<1>10. ASSUME NEW on \in Toggles, NEW p \in Texts, SetShutdownAfterLockout(on, p)
       PROVE  UNCHANGED Abstract!vars
  BY <1>10, InvisibleStep DEF SetShutdownAfterLockout, SameSwitch, State, Untrusted
<1>11. ASSUME NEW delay \in UnlockDelays, NEW release \in Releases,
              NEW releaseDelay \in ReleaseDelays, NEW uses \in UseLimits,
              NEW p \in Texts,
              SetRecoverySettings(delay, release, releaseDelay, uses, p)
       PROVE  UNCHANGED Abstract!vars
  BY <1>11, InvisibleStep DEF SetRecoverySettings, SameSwitch, State, Untrusted
<1>12. CASE CancelRecoveryUnlock
  <2>1. /\ st'.enabled = Loaded.enabled /\ st'.until = Loaded.until
        /\ st'.unlockAfter = 0
    BY <1>12 DEF CancelRecoveryUnlock, State
  <2>2. Effective' = st'
    BY <2>1, SeenAsIs DEF UnlockDue
  <2>3. Abstract!CancelUnlock
    BY <1>12, <2>1, <2>2 DEF CancelRecoveryUnlock, Abstract!CancelUnlock, Untrusted
  <2>. QED
    BY <1>12, <2>3 DEF CancelRecoveryUnlock, Abstract!Next, Abstract!Request
<1>13. ASSUME NEW d \in Horizons, NEW p \in Texts, SetCommitment(d, p)
       PROVE  [Abstract!Next]_(Abstract!vars)
  <2>1. CASE ~MayCommit(Loaded, d, p)
    BY <1>13, <2>1, InvisibleStep DEF SetCommitment, SameSwitch, Untrusted
  <2>2. CASE MayCommit(Loaded, d, p)
    <3>1. st'.enabled = TRUE /\ st'.until = d /\ st'.unlockAfter = 0
      BY <1>13, <2>2 DEF SetCommitment, Committed, State
    <3>2. Effective' = st'
      BY <3>1, SeenAsIs DEF UnlockDue
    <3>3. Abstract!Commit
      BY <1>13, <2>2, <3>1, <3>2
      DEF SetCommitment, MayCommit, CommitmentActive, Abstract!Commit,
          Abstract!Running, Untrusted
    <3>. QED
      BY <1>13, <3>3 DEF SetCommitment, Abstract!Next, Abstract!Request
  <2>. QED
    BY <2>1, <2>2
<1>14. ASSUME NEW code \in Texts, NEW lockout \in Lockouts,
              LockoutRecovery(code, lockout)
       PROVE  UNCHANGED Abstract!vars
  <2>1. /\ now' = now /\ file' = file
        /\ SameSwitch(st, st')
    BY <1>14 DEF LockoutRecovery, RecordUse, SameSwitch, TypeInv, TypeOK, State
  <2>2. st' \in State
    BY TypeStep DEF TypeInv, TypeOK
  <2>3. UnlockDue(st', now') <=> UnlockDue(st, now)
    BY <2>1 DEF SameSwitch, UnlockDue
  <2>4. /\ Effective'.enabled = Effective.enabled
        /\ Effective'.until = Effective.until
        /\ Effective'.unlockAfter = Effective.unlockAfter
    BY <2>1, <2>2, <2>3 DEF Effective, AfterDueUnlock, SameSwitch, TypeInv, TypeOK, State
  <2>. QED
    BY <2>1, <2>4 DEF Abstract!vars, Untrusted
<1>15. CASE EnsureRecovery
  BY <1>15 DEF EnsureRecovery, Abstract!vars, Effective, Untrusted
<1>16. CASE Tick
  <2>1. st' = st /\ now' = now + 1 /\ Untrusted' = Untrusted
    BY <1>16 DEF Tick, Untrusted
  <2>2. st \in State /\ now \in Nat
    BY DEF TypeInv, TypeOK
  <2>3. CASE UnlockDue(st, now)
    <3>1. UnlockDue(st', now')
      BY <2>1, <2>2, <2>3 DEF UnlockDue, State
    <3>2. Effective' = Effective /\ Effective.unlockAfter = 0
      BY <2>1, <2>2, <2>3, <3>1 DEF Effective, AfterDueUnlock, State
    <3>. QED
      BY <2>1, <3>2 DEF Abstract!Next, Abstract!Pass
  <2>4. CASE ~UnlockDue(st, now) /\ UnlockDue(st', now')
    <3>1. Effective = st
      BY <2>4 DEF Effective, AfterDueUnlock
    <3>2. /\ Effective'.enabled = FALSE /\ Effective'.until = 0
          /\ Effective'.unlockAfter = 0
      BY <2>1, <2>2, <2>4 DEF Effective, AfterDueUnlock, State
    <3>3. Effective.unlockAfter # 0 /\ Effective.unlockAfter <= now'
      BY <2>1, <2>4, <3>1 DEF UnlockDue
    <3>. QED
      BY <2>1, <3>2, <3>3 DEF Abstract!Next, Abstract!Pass
  <2>5. CASE ~UnlockDue(st', now')
    <3>1. ~UnlockDue(st, now)
      BY <2>1, <2>2, <2>5 DEF UnlockDue, State
    <3>2. Effective = st /\ Effective' = st
      BY <2>1, <2>5, <3>1 DEF Effective, AfterDueUnlock
    <3>3. ~(Effective.unlockAfter # 0 /\ Effective.unlockAfter <= now')
      BY <2>1, <2>5, <3>2 DEF UnlockDue
    <3>. QED
      BY <2>1, <3>2, <3>3 DEF Abstract!Next, Abstract!Pass
  <2>. QED
    BY <2>3, <2>4, <2>5
<1>17. ASSUME NEW how \in {"damaged", "missing"}, LoseState(how)
       PROVE  Abstract!Next
  BY <1>17 DEF LoseState, Effective, Untrusted, Abstract!Next, Abstract!Lose
<1>18. CASE ReadAgain
  BY <1>18 DEF ReadAgain, Effective, Untrusted, Abstract!Next, Abstract!Find
<1>19. ASSUME NEW how \in {"none", "damaged"}, LoseRecovery(how)
       PROVE  UNCHANGED Abstract!vars
  BY <1>19 DEF LoseRecovery, Effective, Untrusted, Abstract!vars
<1>20. CASE UNCHANGED vars
  BY <1>20 DEF vars, Effective, Untrusted, Abstract!vars
<1>. QED
  BY <1>3, <1>4, <1>5, <1>6, <1>7, <1>8, <1>9, <1>10, <1>11, <1>12, <1>13,
     <1>14, <1>15, <1>16, <1>17, <1>18, <1>19, <1>20 DEF Next, Command, Environment

\* Seen through any reader, the service is the abstract switch.
THEOREM ServiceImplementsProtection == Spec => ImplementsProtection
BY RefinementInit, RefinementStep, SafetyInvariant, PTL
DEF Spec, ImplementsProtection, Abstract!Spec
=============================================================================
