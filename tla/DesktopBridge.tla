---------------------------- MODULE DesktopBridge ----------------------------
(***************************************************************************)
(* The desktop application beside the service and the uninstall guard: one *)
(* process of brake/desktop_bridge.py at a time, each with one command of   *)
(* Controller (brake/gui/controller.py).                                    *)
(*                                                                         *)
(* A command that reaches the service is a Command like any other, whether *)
(* or not its answer arrives.  What is modelled here is the rest: a command *)
(* that does not reach it.  In an installation only the status is then read *)
(* from the file, a matured unlock applied and saved; in development        *)
(* (BRAKE_DESKTOP_DEV, outside the installed services) Controller repeats   *)
(* the handlers of the service on the file: load, apply, decide, save.      *)
(* The first process may find a record of an older version.                 *)
(***************************************************************************)
EXTENDS UninstallGuard, StateMigration

CONSTANTS
    DevPassword,    \* DEV_PASSWORD
    Versions,       \* of the records that an upgrade finds
    OldRecords      \* those records, with every field

ASSUME BridgeAssumption ==
    /\ DevPassword \in Texts
    /\ Versions \subseteq 1..SchemaVersion
    /\ OldRecords \subseteq State
    /\ \A s \in OldRecords : /\ CommitmentActive(s, 0) => s.enabled
                             /\ IsFiniteSet(s.used)

VARIABLES
    mode,       \* "installed" or "development"
    bridge,     \* [pc, report, snap, codes]: is it the status that was asked
                \* for; the record in its hands, and the codes that earned
                \* the unlock of that record
    old         \* the record of an older version: [version, held], or NoOld

bridgeVars == <<guardVars, mode, bridge, old>>

Requests ==
    [cmd : {"cancel-recovery-unlock", "set-sensitivity"}]
        \cup [cmd : {"enable", "disable"}, p : Texts]
        \cup [cmd : {"reset-password"}, code : Texts, p : Texts]
        \cup [cmd : {"set-duration"}, m : Durations \cap DurationRange]
        \cup [cmd : {"set-commitment"}, d : Horizons, p : Texts]
        \cup [cmd : {"set-anime-enabled"}, on : Toggles, ready : BOOLEAN,
              p : Texts]
        \cup [cmd : {"set-shutdown-after-lockout"}, on : Toggles, p : Texts]
        \cup [cmd : {"set-recovery-settings"}, delay : UnlockDelays,
              release : Releases, releaseDelay : ReleaseDelays,
              uses : UseLimits, p : Texts]

NoOld == [version |-> 0]

\* A bridge process with no record in its hands, asked for the status or not.
BridgeAt(pc, report) ==
    [pc |-> pc, report |-> report, snap |-> NewState(Placeholder, FALSE),
     codes |-> {}]

Idle == BridgeAt("idle", FALSE)

HeldBy(v, s) == [version |-> v, held |-> [f \in HeldIn(v) |-> s[f]]]

BridgeInit ==
    /\ now = 0 /\ recovery = "none" /\ releases = {}
    /\ st = NewState(Placeholder, FALSE)
    /\ guard = GuardAt("idle")
    /\ mode \in {"installed", "development"}
    /\ bridge = Idle
    /\ \/ file = "absent" /\ old = NoOld /\ codes = {}
       \/ /\ file = "old"
          /\ \E v \in Versions, s \in OldRecords : old = HeldBy(v, s)
          /\ codes = IF old.version >= 9 /\ old.held.unlockAfter # 0
                     THEN {old.held.unlockAfter} ELSE {}

\* StateStore.load of any process that may write: the record is parsed and
\* saved in the present version, before anything is done with it.
Upgrade ==
    /\ file = "old"
    /\ file' = "ok" /\ old' = NoOld
    /\ st' = FromDict(old.version, old.held)
    /\ UNCHANGED <<now, recovery, codes, releases, guard, mode, bridge>>

-----------------------------------------------------------------------------
(* What Controller saves without the service, from the record s that it    *)
(* loaded: nothing if it refuses, or if there is nothing to change.        *)

DirectEnable(s, r) ==
    IF r.p \in ShortTexts THEN {} ELSE {[s EXCEPT !.pw = r.p, !.enabled = TRUE]}

DirectDisable(s, r) ==
    CASE IsBackdoor(r.p) ->
             {[s EXCEPT !.enabled = FALSE, !.until = 0, !.unlockAfter = 0]}
      [] ~IsBackdoor(r.p) /\ CodeOk(r.p) ->
             IF UnlockPending(s, now) THEN {}
             ELSE {[s EXCEPT !.unlockAfter = now + s.unlockDelay]}
      [] /\ ~IsBackdoor(r.p) /\ ~CodeOk(r.p) /\ recovery # "damaged"
         /\ ~CommitmentActive(s, now) /\ PasswordOk(s, r.p) ->
             {[s EXCEPT !.enabled = FALSE]}
      [] OTHER -> {}

DirectReset(s, r) ==
    IF r.p \in ShortTexts \/ ~CodeOk(r.code) THEN {} ELSE {[s EXCEPT !.pw = r.p]}

DirectCommitment(s, r) ==
    IF ~PasswordOk(s, r.p) \/ r.d <= now \/ (s.until > now /\ r.d < s.until)
    THEN {}
    ELSE {[s EXCEPT !.enabled = TRUE, !.until = r.d, !.unlockAfter = 0]}

DirectCancel(s) == IF s.unlockAfter = 0 THEN {} ELSE {[s EXCEPT !.unlockAfter = 0]}

DirectDuration(s, r) ==
    IF CommitmentActive(s, now) /\ r.m < s.duration THEN {}
    ELSE {[s EXCEPT !.duration = r.m]}

\* Outright refused while a commitment runs, else for the password alone if
\* protection is on.
Loosens(s, p) == ~CommitmentActive(s, now) /\ (s.enabled => PasswordOk(s, p))

DirectAnime(s, r) ==
    IF (r.on /\ ~r.ready) \/ (s.anime /\ ~r.on /\ ~Loosens(s, r.p)) THEN {}
    ELSE {[s EXCEPT !.anime = r.on]}

DirectShutdown(s, r) ==
    IF s.shutdown /\ ~r.on /\ ~Loosens(s, r.p) THEN {}
    ELSE {[s EXCEPT !.shutdown = r.on]}

\* looser: shorter waits, a release that becomes possible, more releases.
LooserThan(s, r) ==
    \/ r.delay < s.unlockDelay
    \/ r.release /\ ~s.release
    \/ r.releaseDelay < s.releaseDelay
    \/ r.uses = 0 /\ s.releaseUses # 0
    \/ s.releaseUses # 0 /\ r.uses > s.releaseUses

\* Mutant: the password is enough, commitment or not.
DirectRecoveryByPassword(s, r) ==
    IF \/ r.delay \notin UnlockDelayRange
       \/ r.releaseDelay \notin ReleaseDelayRange \/ r.uses \notin UsesAllowed
       \/ LooserThan(s, r) /\ s.enabled /\ ~PasswordOk(s, r.p)
    THEN {}
    ELSE {[s EXCEPT !.unlockDelay = r.delay, !.release = r.release,
                    !.releaseDelay = r.releaseDelay, !.releaseUses = r.uses]}

DirectRecovery(s, r) ==
    IF \/ r.delay \notin UnlockDelayRange
       \/ r.releaseDelay \notin ReleaseDelayRange \/ r.uses \notin UsesAllowed
       \/ LooserThan(s, r) /\ ~Loosens(s, r.p)
    THEN {}
    ELSE {[s EXCEPT !.unlockDelay = r.delay, !.release = r.release,
                    !.releaseDelay = r.releaseDelay, !.releaseUses = r.uses]}

ToSave(s, r) ==
    CASE r.cmd = "enable" -> DirectEnable(s, r)
      [] r.cmd = "disable" -> DirectDisable(s, r)
      [] r.cmd = "reset-password" -> DirectReset(s, r)
      [] r.cmd = "set-commitment" -> DirectCommitment(s, r)
      [] r.cmd = "cancel-recovery-unlock" -> DirectCancel(s)
      [] r.cmd = "set-duration" -> DirectDuration(s, r)
      [] r.cmd = "set-anime-enabled" -> DirectAnime(s, r)
      [] r.cmd = "set-shutdown-after-lockout" -> DirectShutdown(s, r)
      [] r.cmd = "set-recovery-settings" -> DirectRecovery(s, r)
      [] r.cmd = "set-sensitivity" -> {s}

-----------------------------------------------------------------------------
(* The steps of a bridge process, when the service is not reached.  Which  *)
(* command it was started with matters only when it decides.  A change is  *)
(* answered with the status, which is read as by a process of its own.     *)

\* Without the service an installation refuses everything but the status.
BridgeStart(report) ==
    /\ bridge.pc = "idle" /\ file # "old"
    /\ guard.pc \notin {"saving", "deciding"}
    /\ mode = "installed" => report
    /\ bridge' = BridgeAt(IF mode = "development" /\ file = "absent"
                          THEN "creating" ELSE "loading", report)
    /\ UNCHANGED <<guardVars, mode, old>>

\* _ensure_dev_state found no state.
BridgeCreate ==
    /\ bridge.pc = "creating"
    /\ file' = "ok" /\ st' = NewState(DevPassword, FALSE)
    /\ codes' = {} /\ releases' = {}
    /\ bridge' = [bridge EXCEPT !.pc = "loading"]
    /\ UNCHANGED <<now, recovery, guard, mode, old>>

\* _load_state: it raises for a state that cannot be trusted, which a reset
\* of the password goes on to repair, and returns None where there is none.
BridgeLoad ==
    /\ bridge.pc = "loading"
    /\ bridge' =
           IF file = "ok" /\ bridge.report /\ ~UnlockDue(st, now)
           THEN BridgeAt("answering", TRUE)
           ELSE IF file = "ok"
           THEN [bridge EXCEPT !.snap = AfterDueUnlock(st, now),
                     !.codes = IF bridge.report THEN {} ELSE codes,
                     !.pc = IF UnlockDue(st, now) THEN "applying"
                            ELSE "deciding"]
           ELSE IF Untrusted /\ ~bridge.report
           THEN [bridge EXCEPT !.codes = codes, !.pc = "repairing"]
           ELSE Idle
    /\ UNCHANGED <<guardVars, mode, old>>

\* apply_due_recovery_unlock saves the record loaded earlier.
BridgeApply ==
    /\ bridge.pc = "applying"
    /\ file' = "ok" /\ st' = bridge.snap
    /\ bridge' = IF bridge.report THEN BridgeAt("answering", TRUE)
                 ELSE [bridge EXCEPT !.pc = "deciding"]
    /\ UNCHANGED <<now, recovery, codes, releases, guard, mode, old>>

CodesAfter(r) ==
    CASE r.cmd = "disable" /\ ~IsBackdoor(r.p) /\ CodeOk(r.p) ->
             bridge.codes \cup {now + bridge.snap.unlockDelay}
      [] r.cmd = "cancel-recovery-unlock" -> {}
      [] r.cmd = "set-commitment" /\ ToSave(bridge.snap, r) # {} -> {}
      [] OTHER -> bridge.codes

BridgeDecide(r) ==
    /\ bridge.pc = "deciding"
    /\ \/ /\ ToSave(bridge.snap, r) = {}
          /\ codes' = CodesAfter(r)
          /\ bridge' = [bridge EXCEPT !.codes = codes', !.pc = "answering"]
       \/ \E s \in ToSave(bridge.snap, r) :
              bridge' = [bridge EXCEPT !.snap = s, !.codes = CodesAfter(r),
                                       !.pc = "saving"]
          /\ UNCHANGED codes
    /\ UNCHANGED <<now, file, st, recovery, releases, guard, mode, old>>

BridgeSave ==
    /\ bridge.pc = "saving"
    /\ file' = "ok" /\ st' = bridge.snap
    /\ codes' = bridge.codes
    /\ bridge' = Idle
    /\ UNCHANGED <<now, recovery, releases, guard, mode, old>>

\* The repair of a state that cannot be trusted.
BridgeRepair(code, p) ==
    /\ bridge.pc = "repairing"
    /\ p \notin ShortTexts /\ CodeOk(code)
    /\ bridge' = [bridge EXCEPT !.snap = NewState(p, TRUE), !.codes = {},
                                !.pc = "rewriting"]
    /\ UNCHANGED <<guardVars, mode, old>>

BridgeRewrite ==
    /\ bridge.pc = "rewriting"
    /\ file' = "ok" /\ st' = bridge.snap
    /\ codes' = {} /\ releases' = {}
    /\ bridge' = Idle
    /\ UNCHANGED <<now, recovery, guard, mode, old>>

\* It answers; or it is killed, as the application does after a timeout.
BridgeEnds ==
    /\ bridge.pc # "idle"
    /\ bridge' = Idle
    /\ UNCHANGED <<guardVars, mode, old>>

BridgeStep ==
    \/ \E report \in BOOLEAN : BridgeStart(report)
    \/ BridgeCreate \/ BridgeLoad \/ BridgeApply
    \/ \E r \in Requests : BridgeDecide(r)
    \/ BridgeSave
    \/ \E code, p \in Texts : BridgeRepair(code, p)
    \/ BridgeRewrite \/ BridgeEnds

\* In development there is no service; ensure-recovery works on the files.
Others ==
    /\ guard.pc # "allow" /\ file # "old"
    /\ \/ mode = "installed" /\ Command
       \/ EnsureRecovery
    /\ UNCHANGED <<guard, mode, bridge, old>>

\* An older record that cannot be read for a while is left out.
World ==
    /\ Environment
    /\ file = "old" => file' \in {"old", "missing"}
    /\ old' = IF file' = "old" THEN old ELSE NoOld
    /\ UNCHANGED <<guard, mode, bridge>>

BridgeNext ==
    \/ Upgrade
    \/ BridgeStep
    \/ Others
    \/ World
    \/ /\ mode = "installed" /\ bridge.pc = "idle" /\ file # "old"
       /\ GuardStep
       /\ UNCHANGED <<mode, bridge, old>>

BridgeSpec == BridgeInit /\ [][BridgeNext]_bridgeVars

-----------------------------------------------------------------------------
(* Correctness. *)

\* The service, at work on the record that the bridge has loaded.
Service == INSTANCE ProtectionService WITH
    file <- IF bridge.pc = "repairing" THEN "damaged" ELSE "ok",
    st <- bridge.snap,
    codes <- bridge.codes

ServiceDoes(r) ==
    CASE r.cmd = "enable" -> Service!Enable(r.p)
      [] r.cmd = "disable" -> Service!Disable(r.p)
      [] r.cmd = "reset-password" -> Service!ResetPassword(r.code, r.p)
      [] r.cmd = "set-commitment" -> Service!SetCommitment(r.d, r.p)
      [] r.cmd = "cancel-recovery-unlock" -> Service!CancelRecoveryUnlock
      [] r.cmd = "set-duration" -> Service!SetDuration(r.m)
      [] r.cmd = "set-anime-enabled" ->
             Service!SetAnimeEnabled(r.on, r.ready, r.p)
      [] r.cmd = "set-shutdown-after-lockout" ->
             Service!SetShutdownAfterLockout(r.on, r.p)
      [] r.cmd = "set-recovery-settings" ->
             Service!SetRecoverySettings(r.delay, r.release, r.releaseDelay,
                                         r.uses, r.p)
      [] OTHER -> Service!Status

\* Controller has a second copy of every rule of the service.  What it
\* decides without the service, from whatever record it has loaded, is what
\* the service would make of the same command (unless an emergency unlock of
\* that record came due since it was loaded).
DecidesAsService ==
    [][bridge.pc \in {"deciding", "repairing"}
       /\ ~UnlockDue(bridge.snap, now) =>
          /\ \A r \in Requests : BridgeDecide(r) => ServiceDoes(r)
          /\ \A code, p \in Texts :
                 BridgeRepair(code, p) => Service!Repair(code, p)]_bridgeVars

\* An upgrade of the program keeps everything that the old record held: its
\* password and switch, its settings, a commitment and a pending unlock.
UpgradeKeeps ==
    [][file = "old" /\ file' = "ok" =>
         \A f \in DOMAIN old.held : st'[f] = old.held[f]]_bridgeVars
=============================================================================
