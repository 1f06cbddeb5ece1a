-------------------------- MODULE ProtectionService --------------------------
(***************************************************************************)
(* The privileged service as the owner of state.json: every IPC command of *)
(* brake/service/ipc_server.py that reads or writes the protection state,  *)
(* with the recovery code of brake/state/recovery.py and the delayed       *)
(* unlock of brake/state/recovery_unlock.py.                               *)
(*                                                                         *)
(* The server handles one pipe connection at a time in one thread, so a    *)
(* command, with the load before it and the save after it, is one action.  *)
(* An action covers the refusals of its handler as well: a refused command *)
(* still persists a matured unlock, because _state() does.                 *)
(***************************************************************************)
EXTENDS StateSchema

CONSTANTS
    ShortTexts,        \* the texts under MIN_PASSWORD_LENGTH
    Code,              \* the recovery code in recovery.json
    Backdoor,          \* the value of BRAKE_DEV_BACKDOOR
    BackdoorSet,       \* is that variable set, and BRAKE_NO_BACKDOOR not?
    Durations,         \* the values requests ask for, in range or not
    UnlockDelays,
    ReleaseDelays,
    UseLimits,
    Releases,
    Toggles,
    Lockouts,          \* what a release finds when it replaces the timer
    Horizons,          \* the commitment deadlines requests ask for
    MaxTime,           \* bound of the clock
    MaxPerUnit         \* bound on the releases of one unit of time

ASSUME ServiceAssumption ==
    /\ ShortTexts \subseteq Texts
    /\ Code \in Texts \ ShortTexts
    /\ Backdoor \in Texts
    /\ BackdoorSet \in BOOLEAN
    /\ Durations \subseteq Nat
    /\ UnlockDelays \subseteq Nat
    /\ ReleaseDelays \subseteq Nat
    /\ UseLimits \subseteq Nat
    /\ Releases \subseteq BOOLEAN
    /\ Toggles \subseteq BOOLEAN
    /\ Lockouts \subseteq {"active", "ended"}
    /\ Horizons \subseteq Nat
    /\ MaxTime \in Nat
    /\ MaxPerUnit \in Nat

VARIABLES
    now,        \* the wall clock
    file,       \* state.json: "absent", "ok", "damaged" or "missing"
    st,         \* its payload (the last one that verified)
    recovery,   \* recovery.json: "none", "ok" or "damaged"
    codes,      \* history: when each recovery code accepted since the last
                \* commitment or cancellation has served its delay
    releases    \* history: the uses that released a lockout

vars == <<now, file, st, recovery, codes, releases>>

Init ==
    /\ now = 0
    /\ file = "absent"
    /\ st = NewState(Placeholder, FALSE)
    /\ recovery = "none"
    /\ codes = {}
    /\ releases = {}

-----------------------------------------------------------------------------
(* Checks that the handlers share. *)

Untrusted == file \in {"damaged", "missing"}

\* _state(): the loaded record, with a matured unlock applied and saved.
Loaded == AfterDueUnlock(st, now)

IsBackdoor(p) == BackdoorSet /\ p = Backdoor

PasswordOk(s, p) == p = s.pw \/ IsBackdoor(p)

CodeOk(p) == recovery = "ok" /\ p = Code

\* Loosening needs the password while protection is on, and is refused
\* outright while a commitment runs.
MayLoosen(s, p) ==
    /\ ~CommitmentActive(s, now)
    /\ s.enabled => PasswordOk(s, p)

-----------------------------------------------------------------------------
(* The state each command leaves, from the state it loaded. *)

\* Mutant: entering the code again starts the delay over.
ScheduledAgain(s) == [s EXCEPT !.unlockAfter = now + s.unlockDelay]

\* schedule_recovery_unlock: a pending unlock is kept as it is.
Scheduled(s) ==
    IF UnlockPending(s, now) THEN s
    ELSE [s EXCEPT !.unlockAfter = now + s.unlockDelay]

TurnedOff(s) == [s EXCEPT !.enabled = FALSE]

Overridden(s) ==
    [s EXCEPT !.enabled = FALSE, !.until = 0, !.unlockAfter = 0]

\* Mutant: the password is checked before the commitment, and wins.
DisableResultByPassword(s, p) ==
    CASE IsBackdoor(p) -> Overridden(s)
      [] ~IsBackdoor(p) /\ CodeOk(p) -> Scheduled(s)
      [] ~IsBackdoor(p) /\ ~CodeOk(p) /\ PasswordOk(s, p) -> TurnedOff(s)
      [] OTHER -> s

DisableResult(s, p) ==
    CASE IsBackdoor(p) -> Overridden(s)
      [] ~IsBackdoor(p) /\ CodeOk(p) -> Scheduled(s)
      [] /\ ~IsBackdoor(p) /\ ~CodeOk(p) /\ recovery # "damaged"
         /\ ~CommitmentActive(s, now) /\ PasswordOk(s, p) -> TurnedOff(s)
      [] OTHER -> s

\* Mutant: a running commitment may be replaced by a shorter one.
MayCommitAnew(s, d, p) == PasswordOk(s, p) /\ d > now

MayCommit(s, d, p) ==
    /\ PasswordOk(s, p)
    /\ d > now
    /\ CommitmentActive(s, now) => d >= s.until

\* Mutant: committing does not turn protection on.
CommittedOff(s, d) == [s EXCEPT !.until = d, !.unlockAfter = 0]

\* Mutant: committing leaves the pending unlock in the file.
CommittedBesideUnlock(s, d) == [s EXCEPT !.enabled = TRUE, !.until = d]

Committed(s, d) ==
    [s EXCEPT !.enabled = TRUE, !.until = d, !.unlockAfter = 0]

DurationAllowed(s, m) ==
    /\ m \in DurationRange
    /\ CommitmentActive(s, now) => m >= s.duration

AnimeAllowed(s, on, ready, p) ==
    /\ on => ready
    /\ s.anime /\ ~on => MayLoosen(s, p)

ShutdownAllowed(s, on, p) == s.shutdown /\ ~on => MayLoosen(s, p)

\* Mutant: the cooldown is not checked against its range.
RecoveryUnchecked(s, delay, release, releaseDelay, uses, p) ==
    /\ uses \in UsesAllowed
    /\ LooserRecovery(s, delay, release, releaseDelay, uses) => MayLoosen(s, p)

\* Mutant: a plain comparison of the limits, to which "unlimited" is least.
RecoveryByNumber(s, delay, release, releaseDelay, uses, p) ==
    /\ delay \in UnlockDelayRange
    /\ releaseDelay \in ReleaseDelayRange
    /\ uses \in UsesAllowed
    /\ (\/ delay < s.unlockDelay
        \/ release /\ ~s.release
        \/ releaseDelay < s.releaseDelay
        \/ uses > s.releaseUses) => MayLoosen(s, p)

RecoveryAllowed(s, delay, release, releaseDelay, uses, p) ==
    /\ delay \in UnlockDelayRange
    /\ releaseDelay \in ReleaseDelayRange
    /\ uses \in UsesAllowed
    /\ LooserRecovery(s, delay, release, releaseDelay, uses) => MayLoosen(s, p)

-----------------------------------------------------------------------------
(* The commands.  Untrusted state refuses all of them but the repair. *)

\* STATUS, SET_SENSITIVITY and SET_ANIME_MODE: load, and save what has one
\* value only.
Status ==
    /\ file = "ok"
    /\ st' = Loaded
    /\ UNCHANGED <<now, file, recovery, codes, releases>>

Enable(p) ==
    /\ file = "ok"
    /\ st' = IF p \in ShortTexts THEN Loaded
             ELSE [Loaded EXCEPT !.pw = p, !.enabled = TRUE]
    /\ UNCHANGED <<now, file, recovery, codes, releases>>

Disable(p) ==
    /\ file = "ok"
    /\ st' = DisableResult(Loaded, p)
    /\ codes' = IF ~IsBackdoor(p) /\ CodeOk(p)
                THEN codes \cup {now + st.unlockDelay} ELSE codes
    /\ UNCHANGED <<now, file, recovery, releases>>

ResetPassword(code, p) ==
    /\ file = "ok"
    /\ st' = IF p \in ShortTexts \/ ~CodeOk(code) THEN Loaded
             ELSE [Loaded EXCEPT !.pw = p]
    /\ UNCHANGED <<now, file, recovery, codes, releases>>

\* The same command when the state cannot be trusted: the recovery code
\* writes a fresh state with protection on.
Repair(code, p) ==
    /\ Untrusted
    /\ p \notin ShortTexts
    /\ CodeOk(code)
    /\ file' = "ok"
    /\ st' = NewState(p, TRUE)
    /\ codes' = {}
    /\ releases' = {}
    /\ UNCHANGED <<now, recovery>>

SetDuration(m) ==
    /\ file = "ok"
    /\ st' = IF DurationAllowed(Loaded, m)
             THEN [Loaded EXCEPT !.duration = m] ELSE Loaded
    /\ UNCHANGED <<now, file, recovery, codes, releases>>

SetAnimeEnabled(on, ready, p) ==
    /\ file = "ok"
    /\ st' = IF AnimeAllowed(Loaded, on, ready, p)
             THEN [Loaded EXCEPT !.anime = on] ELSE Loaded
    /\ UNCHANGED <<now, file, recovery, codes, releases>>

SetShutdownAfterLockout(on, p) ==
    /\ file = "ok"
    /\ st' = IF ShutdownAllowed(Loaded, on, p)
             THEN [Loaded EXCEPT !.shutdown = on] ELSE Loaded
    /\ UNCHANGED <<now, file, recovery, codes, releases>>

SetRecoverySettings(delay, release, releaseDelay, uses, p) ==
    /\ file = "ok"
    /\ st' = IF RecoveryAllowed(Loaded, delay, release, releaseDelay, uses, p)
             THEN [Loaded EXCEPT !.unlockDelay = delay, !.release = release,
                                 !.releaseDelay = releaseDelay,
                                 !.releaseUses = uses]
             ELSE Loaded
    /\ UNCHANGED <<now, file, recovery, codes, releases>>

CancelRecoveryUnlock ==
    /\ file = "ok"
    /\ st' = [Loaded EXCEPT !.unlockAfter = 0]
    /\ codes' = {}
    /\ UNCHANGED <<now, file, recovery, releases>>

SetCommitment(d, p) ==
    /\ file = "ok"
    /\ IF MayCommit(Loaded, d, p)
       THEN st' = Committed(Loaded, d) /\ codes' = {}
       ELSE st' = Loaded /\ UNCHANGED codes
    /\ UNCHANGED <<now, file, recovery, releases>>

\* LOCKOUT_RECOVERY loads the state without applying a matured unlock.  The
\* use is saved before the timer is replaced, which fails when the lockout
\* has ended in between ("ended"); no lockout, or one that does not verify,
\* is refused before anything is written.
LockoutRecovery(code, lockout) ==
    /\ file = "ok"
    /\ st.release
    /\ LimitAvailable(st, now)
    /\ CodeOk(code)
    /\ NextUse(st, now)[2] < MaxPerUnit
    /\ st' = RecordUse(st, now)
    /\ releases' = IF lockout = "active"
                   THEN releases \cup {NextUse(st, now)} ELSE releases
    /\ UNCHANGED <<now, file, recovery, codes>>

\* ensure-recovery of the desktop bridge: the first-run state if there is
\* none, then the code if recovery.json does not exist.
EnsureRecovery ==
    /\ file # "missing"
    /\ file' = IF file = "absent" THEN "ok" ELSE file
    /\ recovery' = IF recovery = "none" THEN "ok" ELSE recovery
    /\ UNCHANGED <<now, st, codes, releases>>

-----------------------------------------------------------------------------
(* The environment. *)

Tick ==
    /\ now < MaxTime
    /\ now' = now + 1
    /\ UNCHANGED <<file, st, recovery, codes, releases>>

\* state.json stops verifying, or disappears while state.initialized stays.
LoseState(how) ==
    /\ file # "absent"
    /\ how \in {"damaged", "missing"}
    /\ file' = how
    /\ UNCHANGED <<now, st, recovery, codes, releases>>

\* A read that failed (StateTamperedError on OSError) succeeds again.
ReadAgain ==
    /\ file = "damaged"
    /\ file' = "ok"
    /\ UNCHANGED <<now, st, recovery, codes, releases>>

LoseRecovery(how) ==
    /\ how \in {"none", "damaged"}
    /\ recovery # "none"
    /\ recovery' = how
    /\ UNCHANGED <<now, file, st, codes, releases>>

Command ==
    \/ Status
    \/ \E p \in Texts : Enable(p)
    \/ \E p \in Texts : Disable(p)
    \/ \E code, p \in Texts : ResetPassword(code, p)
    \/ \E code, p \in Texts : Repair(code, p)
    \/ \E m \in Durations : SetDuration(m)
    \/ \E on \in Toggles, ready \in BOOLEAN, p \in Texts :
           SetAnimeEnabled(on, ready, p)
    \/ \E on \in Toggles, p \in Texts : SetShutdownAfterLockout(on, p)
    \/ \E delay \in UnlockDelays, release \in Releases,
          releaseDelay \in ReleaseDelays, uses \in UseLimits, p \in Texts :
           SetRecoverySettings(delay, release, releaseDelay, uses, p)
    \/ CancelRecoveryUnlock
    \/ \E d \in Horizons, p \in Texts : SetCommitment(d, p)
    \/ \E code \in Texts, lockout \in Lockouts :
           LockoutRecovery(code, lockout)
    \/ EnsureRecovery

Environment ==
    \/ Tick
    \/ \E how \in {"damaged", "missing"} : LoseState(how)
    \/ ReadAgain
    \/ \E how \in {"none", "damaged"} : LoseRecovery(how)

Next == Command \/ Environment

Spec == Init /\ [][Next]_vars

-----------------------------------------------------------------------------
(* Correctness. *)

\* Every variable, and every field of the record, stays in its type.
TypeOK ==
    /\ now \in Nat
    /\ file \in {"absent", "ok", "damaged", "missing"}
    /\ st \in State
    /\ recovery \in {"none", "ok", "damaged"}
    /\ codes \subseteq Nat
    /\ releases \subseteq Use

\* While a commitment runs protection is on, whatever commands arrived: the
\* disable, unlock, backdoor and repair paths each end both or neither.
CommitmentProtects ==
    file = "ok" /\ CommitmentActive(st, now) => st.enabled

\* An unlock timer in the file was started by a recovery code entered after
\* the last accepted commitment and after the last cancellation, and matures
\* exactly when the delay set at that entry has been served.
UnlockWasEarned == st.unlockAfter # 0 => st.unlockAfter \in codes

\* A command never ends or shortens a running commitment, except the unlock
\* of a recovery code entered after the commitment was accepted and whose
\* delay has passed, or the development override.
CommitmentHonoured ==
    [][(/\ file = "ok" /\ file' = "ok" /\ CommitmentActive(st, now)
        /\ st'.until < st.until)
       => BackdoorSet \/ (\E c \in codes : c <= now)]_vars

\* While a commitment runs nothing it protects becomes looser: neither a
\* duration, a detector, the shutdown nor any of the recovery settings.
NothingLoosens ==
    [][(/\ file = "ok" /\ file' = "ok"
        /\ CommitmentActive(st, now) /\ CommitmentActive(st', now))
       => /\ st'.duration >= st.duration
          /\ st.anime => st'.anime
          /\ st.shutdown => st'.shutdown
          /\ ~LooserRecovery(st, st'.unlockDelay, st'.release,
                             st'.releaseDelay, st'.releaseUses)]_vars

\* A pending unlock is never brought forward, by entering the code again or
\* by changing the delay: a step leaves it, or withdraws it without turning
\* protection off on its account.
UnlockNotHastened ==
    [][(file = "ok" /\ file' = "ok" /\ UnlockPending(st, now))
       => st'.unlockAfter \in {0, st.unlockAfter}]_vars

\* However uses are recorded and pruned, a release is granted only while
\* fewer than the allowed number were granted in the window before it.
ReleaseLimitKept ==
    [][(releases' # releases /\ file = "ok" /\ st.releaseUses # Unlimited)
       => Cardinality({u \in releases' : u[1] + Window > now})
              <= st.releaseUses]_vars

-----------------------------------------------------------------------------
(* What the service implements. *)

\* What every reader of the file acts on: the record after a matured unlock,
\* whether or not the service has persisted that yet.
Effective == AfterDueUnlock(st, now)

Abstract == INSTANCE Protection WITH
    OverrideSet <- BackdoorSet,
    on <- Effective.enabled,
    until <- Effective.until,
    due <- Effective.unlockAfter,
    lost <- Untrusted

\* Seen through any reader, the switch obeys Protection: in particular an
\* emergency unlock takes effect the moment it is due, though the service
\* writes it down only when the next command arrives.
ImplementsProtection == Abstract!Spec
=============================================================================
