----------------------------- MODULE StateSchema -----------------------------
(***************************************************************************)
(* The signed record of state.json (brake/state/schema.py) and the pure    *)
(* functions of it that every reader and writer of the file shares.        *)
(*                                                                         *)
(* Time is a number of units of the wall clock.  0 stands for None in the  *)
(* two optional timestamps, which are always later than the moment they    *)
(* were stored at.  The detection sensitivity and the anime mode have a    *)
(* single value since v11 and are left out, as are created_at and the      *)
(* schema version.                                                         *)
(***************************************************************************)
EXTENDS Naturals, FiniteSets

CONSTANTS
    Texts,                \* what a user can type: passwords and codes
    Placeholder,          \* the random password of a first-run state
    DurationDefault,      \* LOCKOUT_DURATION_DEFAULT, minutes
    UnlockDelayDefault,   \* RECOVERY_UNLOCK_DELAY_DEFAULT, time units
    Window                \* LOCKOUT_RECOVERY_WINDOW_HOURS, time units

DurationRange == 1..60        \* LOCKOUT_DURATION_MIN..LOCKOUT_DURATION_MAX
UnlockDelayRange == 1..60     \* RECOVERY_COOLDOWN_MIN..RECOVERY_COOLDOWN_MAX
ReleaseDelayRange == 0..60    \* LOCKOUT_RECOVERY_COOLDOWN_MIN..RECOVERY_COOLDOWN_MAX
UsesAllowed == 0..4           \* LOCKOUT_RECOVERY_USES_ALLOWED
Unlimited == 0                \* LOCKOUT_RECOVERY_USES_UNLIMITED

ASSUME SchemaAssumption ==
    /\ Placeholder \notin Texts
    /\ DurationDefault \in DurationRange
    /\ UnlockDelayDefault \in UnlockDelayRange
    /\ Window \in Nat \ {0}

(***************************************************************************)
(* A recorded use of the lockout recovery: the moment, and a number that   *)
(* tells apart the uses recorded at the same moment.  The code keeps a     *)
(* list of timestamps; only how many of them lie in a window matters.      *)
(***************************************************************************)
Use == Nat \X Nat

State ==
    [pw           : Texts \cup {Placeholder},
     enabled      : BOOLEAN,
     duration     : DurationRange,
     until        : Nat,                 \* committed_until
     anime        : BOOLEAN,             \* anime_detection_enabled
     unlockAfter  : Nat,                 \* recovery_unlock_after
     unlockDelay  : UnlockDelayRange,
     release      : BOOLEAN,             \* lockout_recovery_enabled
     releaseDelay : ReleaseDelayRange,
     releaseUses  : UsesAllowed,
     used         : SUBSET Use,          \* lockout_recovery_used_at
     shutdown     : BOOLEAN]             \* shutdown_after_lockout

\* State(password_hash=..., enabled=...) with every other field at its default.
NewState(pw, enabled) ==
    [pw |-> pw, enabled |-> enabled, duration |-> DurationDefault,
     until |-> 0, anime |-> FALSE, unlockAfter |-> 0,
     unlockDelay |-> UnlockDelayDefault, release |-> TRUE,
     releaseDelay |-> 0, releaseUses |-> 1, used |-> {}, shutdown |-> FALSE]

CommitmentActive(s, now) == s.until > now

UnlockPending(s, now) == s.unlockAfter > now

UnlockDue(s, now) == s.unlockAfter # 0 /\ s.unlockAfter <= now

\* Mutant: the matured unlock forgets the commitment.
AfterDueUnlockOnly(s, now) ==
    IF UnlockDue(s, now)
    THEN [s EXCEPT !.enabled = FALSE, !.unlockAfter = 0]
    ELSE s

\* apply_due_recovery_unlock(_in_memory): a matured unlock ends everything.
AfterDueUnlock(s, now) ==
    IF UnlockDue(s, now)
    THEN [s EXCEPT !.enabled = FALSE, !.until = 0, !.unlockAfter = 0]
    ELSE s

RecentUses(s, now) == {u \in s.used : u[1] + Window > now}

LimitAvailable(s, now) ==
    \/ s.releaseUses = Unlimited
    \/ Cardinality(RecentUses(s, now)) < s.releaseUses

\* The use that record_lockout_recovery_use appends at this moment.
NextUse(s, now) == <<now, Cardinality({u \in s.used : u[1] = now})>>

\* Mutant: the new use replaces the recorded ones.
RecordUseAlone(s, now) == [s EXCEPT !.used = {NextUse(s, now)}]

RecordUse(s, now) ==
    [s EXCEPT !.used = RecentUses(s, now) \cup {NextUse(s, now)}]

(***************************************************************************)
(* What "looser" means to the commands that guard it: shorter waits, a     *)
(* release that becomes possible, or more releases in a window.            *)
(***************************************************************************)
LooserUses(new, old) ==
    \/ new = Unlimited /\ old # Unlimited
    \/ old # Unlimited /\ new > old

LooserRecovery(s, delay, release, releaseDelay, uses) ==
    \/ delay < s.unlockDelay
    \/ release /\ ~s.release
    \/ releaseDelay < s.releaseDelay
    \/ LooserUses(uses, s.releaseUses)
=============================================================================
