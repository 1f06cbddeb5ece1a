------------------------- MODULE DesktopBridgeProofs -------------------------
(***************************************************************************)
(* Proofs about DesktopBridge: three writers of one file, for every set of *)
(* texts, every request, every found record and every bound of the clock.  *)
(* What the service does to a trusted record is taken from                 *)
(* ProtectionServiceProofs.                                                *)
(***************************************************************************)
EXTENDS DesktopBridge, ProtectionServiceProofs

-----------------------------------------------------------------------------
(* Records of older versions. *)

\* A record with nothing but a password is a record, with every field of it.
LEMMA NewStateType ==
    ASSUME NEW pw \in Texts \cup {Placeholder}, NEW on \in BOOLEAN
    PROVE  NewState(pw, on) \in State /\ NewState(pw, on).used = {}
BY SchemaAssumption DEF NewState, State, DurationRange, UnlockDelayRange,
   ReleaseDelayRange, UsesAllowed

\* Every branch of from_dict reads what the records of its version held.
LEMMA HeldIsRead ==
    ASSUME NEW v \in 1..SchemaVersion
    PROVE  HeldIn(v) \subseteq Reads(v)
BY DEF HeldIn, Reads, SchemaVersion

\* What a branch makes of a held record is a record, of which every field is
\* the one that was held or has its default.
LEMMA FromDictType ==
    ASSUME NEW v \in 1..SchemaVersion, NEW s \in State
    PROVE  LET t == FromDict(v, HeldBy(v, s).held)
           IN  /\ t \in State
               /\ t.enabled = s.enabled
               /\ t.until \in {0, s.until}
               /\ t.unlockAfter = 0 \/ (v >= 9 /\ t.unlockAfter = s.unlockAfter)
               /\ t.used \in {{}, s.used}
               /\ \A f \in HeldIn(v) : t[f] = s[f]
<1>. DEFINE d == HeldBy(v, s).held
            t == FromDict(v, d)
            n == NewState(s.pw, FALSE)
            Fields == {"pw", "enabled", "duration", "until", "anime",
                       "unlockAfter", "unlockDelay", "release", "releaseDelay",
                       "releaseUses", "used", "shutdown"}
<1>1. d = [f \in HeldIn(v) |-> s[f]]
  BY DEF HeldBy
<1>2. d.pw = s.pw
  BY <1>1 DEF HeldIn
<1>3. DOMAIN n = Fields /\ n \in State
  <2>1. s.pw \in Texts \cup {Placeholder}
    BY DEF State
  <2>2. n \in State
    BY <2>1, NewStateType
  <2>. QED
    BY <2>2 DEF State
<1>4. HeldIn(v) \subseteq Fields /\ HeldIn(v) \subseteq Reads(v)
  <2>1. HeldIn(v) \subseteq Fields
    BY DEF HeldIn
  <2>. QED
    BY <2>1, HeldIsRead
<1>5. t = [f \in Fields |-> IF f \in HeldIn(v) THEN s[f] ELSE n[f]]
  <2>1. t = [f \in DOMAIN n |-> IF f \in Reads(v) \cap DOMAIN d THEN d[f] ELSE n[f]]
    BY <1>2 DEF FromDict
  <2>2. Reads(v) \cap DOMAIN d = HeldIn(v)
    BY <1>1, <1>4
  <2>. QED
    BY <1>1, <1>3, <2>1, <2>2
<1>6. /\ t.pw \in {s.pw, n.pw} /\ t.enabled = s.enabled
      /\ t.duration \in {s.duration, n.duration} /\ t.until \in {s.until, n.until}
      /\ t.anime \in {s.anime, n.anime}
      /\ t.unlockAfter \in {s.unlockAfter, n.unlockAfter}
      /\ t.unlockDelay \in {s.unlockDelay, n.unlockDelay}
      /\ t.release \in {s.release, n.release}
      /\ t.releaseDelay \in {s.releaseDelay, n.releaseDelay}
      /\ t.releaseUses \in {s.releaseUses, n.releaseUses}
      /\ t.used \in {s.used, n.used} /\ t.shutdown \in {s.shutdown, n.shutdown}
  BY <1>5 DEF HeldIn
<1>7. v \in Nat /\ (v < 9 => t.unlockAfter = n.unlockAfter)
  <2>1. v \in Nat
    BY DEF SchemaVersion
  <2>2. v < 9 => "unlockAfter" \notin HeldIn(v)
    BY <2>1 DEF HeldIn
  <2>. QED
    BY <1>5, <2>1, <2>2
<1>8. n.until = 0 /\ n.unlockAfter = 0 /\ n.used = {}
  BY DEF NewState
<1>9. t = [pw |-> t.pw, enabled |-> t.enabled, duration |-> t.duration,
           until |-> t.until, anime |-> t.anime, unlockAfter |-> t.unlockAfter,
           unlockDelay |-> t.unlockDelay, release |-> t.release,
           releaseDelay |-> t.releaseDelay, releaseUses |-> t.releaseUses,
           used |-> t.used, shutdown |-> t.shutdown]
  BY <1>5
<1>10. t \in State
  <2>. HIDE DEF t, n
  <2>. QED
    BY <1>3, <1>6, <1>9 DEF State
<1>11. \A f \in HeldIn(v) : t[f] = s[f]
  BY <1>4, <1>5
<1>. QED
  <2>1. t.unlockAfter = 0 \/ (v >= 9 /\ t.unlockAfter = s.unlockAfter)
    <3>. HIDE DEF t, n
    <3>. QED
      BY <1>6, <1>7, <1>8
  <2>. QED
    BY <1>6, <1>8, <1>10, <1>11, <2>1

-----------------------------------------------------------------------------
(* Types, and what each process has in its hands.  The record that a       *)
(* bridge process decides about is the one in the file: without the        *)
(* service nobody else writes there.  Everything that is about to be saved *)
(* is as safe as what the service would leave.                             *)

BridgeStates == {"idle", "creating", "loading", "applying", "deciding",
                 "saving", "repairing", "rewriting", "answering"}

BridgeType ==
    /\ now \in Nat
    /\ file \in {"absent", "ok", "damaged", "missing", "old"}
    /\ st \in State /\ IsFiniteSet(st.used)
    /\ recovery \in {"none", "ok", "damaged"}
    /\ codes \subseteq Nat
    /\ releases \subseteq Use
    /\ mode \in {"installed", "development"}
    /\ guard \in [pc : GuardStates, snap : State, earned : BOOLEAN]
    /\ IsFiniteSet(guard.snap.used)
    /\ bridge \in [pc : BridgeStates, report : BOOLEAN, snap : State,
                   codes : SUBSET Nat]
    /\ IsFiniteSet(bridge.snap.used)

\* A record that a matured unlock has ended protection in.
Ended(s) == s.until = 0 /\ s.unlockAfter = 0

\* A record, beside the codes that earned its unlock, that may be in the file.
Safe(s, earned) ==
    /\ CommitmentActive(s, now) => s.enabled
    /\ s.unlockAfter # 0 => s.unlockAfter \in earned

GuardInv == guard.pc = "saving" => guard.earned /\ Ended(guard.snap)

HandsInv ==
    /\ bridge.pc # "idle" /\ mode = "installed" => bridge.report
    /\ bridge.pc = "creating" => mode = "development"
    /\ bridge.pc \in {"deciding", "saving", "repairing", "rewriting"}
           => ~bridge.report
    /\ bridge.pc = "applying" => Ended(bridge.snap)
    /\ bridge.pc = "applying" /\ ~bridge.report => bridge.codes = codes
    /\ bridge.pc = "deciding" => bridge.codes = codes /\ bridge.snap = st
    /\ bridge.pc \in {"saving", "rewriting"} => Safe(bridge.snap, bridge.codes)
    /\ bridge.pc = "rewriting" => bridge.snap.unlockAfter = 0
    /\ mode = "development" => releases = {}

OldInv ==
    file = "old" =>
        /\ bridge.pc = "idle" /\ guard.pc = "idle"
        /\ \E v \in Versions, s \in OldRecords :
               /\ old = HeldBy(v, s)
               /\ v >= 9 /\ s.unlockAfter # 0 => s.unlockAfter \in codes

BridgeInv == BridgeType /\ Safe(st, codes) /\ GuardInv /\ HandsInv /\ OldInv

\* Where the record is of this version, the invariants of the service hold.
LEMMA ServiceInv ==
    BridgeType /\ Safe(st, codes) /\ file # "old" => TypeInv /\ SafetyInv
BY DEF BridgeType, Safe, TypeInv, TypeOK, UsedFinite, SafetyInv, UnlockWasEarned

LEMMA AfterDueEnds ==
    ASSUME NEW s \in State, NEW t \in Nat
    PROVE  /\ AfterDueUnlock(s, t) \in State
           /\ AfterDueUnlock(s, t).used = s.used
           /\ UnlockDue(s, t) => Ended(AfterDueUnlock(s, t))
           /\ ~UnlockDue(s, t) => AfterDueUnlock(s, t) = s
BY DEF AfterDueUnlock, Ended, State

LEMMA BridgeInvInit == BridgeInit => BridgeInv
<1>. SUFFICES ASSUME BridgeInit PROVE BridgeInv
  OBVIOUS
<1>. DEFINE n == NewState(Placeholder, FALSE)
<1>1. n \in State /\ n.used = {} /\ IsFiniteSet(n.used)
  BY NewStateType, FS_EmptySet
<1>2. n.until = 0 /\ n.unlockAfter = 0
  BY DEF NewState
<1>3. /\ guard = [pc |-> "idle", snap |-> n, earned |-> FALSE]
      /\ bridge = [pc |-> "idle", report |-> FALSE, snap |-> n, codes |-> {}]
      /\ st = n /\ now = 0 /\ recovery = "none" /\ releases = {}
      /\ mode \in {"installed", "development"}
  BY DEF BridgeInit, GuardAt, Idle, BridgeAt
<1>4. file \in {"absent", "old"} /\ codes \subseteq Nat /\ OldInv
  <2>1. CASE file = "absent" /\ codes = {}
    BY <2>1 DEF OldInv
  <2>2. ASSUME file = "old", NEW v \in Versions, NEW s \in OldRecords,
               old = HeldBy(v, s),
               codes = IF old.version >= 9 /\ old.held.unlockAfter # 0
                       THEN {old.held.unlockAfter} ELSE {}
        PROVE  codes \subseteq Nat /\ OldInv
    <3>1. /\ old.version = v
          /\ v >= 9 => old.held.unlockAfter = s.unlockAfter
      BY <2>2 DEF HeldBy, HeldIn
    <3>2. s.unlockAfter \in Nat
      BY BridgeAssumption DEF State
    <3>3. codes = IF v >= 9 /\ s.unlockAfter # 0 THEN {s.unlockAfter} ELSE {}
      BY <2>2, <3>1
    <3>4. bridge.pc = "idle" /\ guard.pc = "idle"
      BY <1>3
    <3>. QED
      BY <2>2, <3>2, <3>3, <3>4 DEF OldInv
  <2>. QED
    BY <2>1, <2>2 DEF BridgeInit
<1>5. BridgeType
  <2>. HIDE DEF n
  <2>. QED
    BY <1>1, <1>3, <1>4 DEF BridgeType, GuardStates, BridgeStates
<1>6. Safe(st, codes)
  <2>1. st.until = 0 /\ st.unlockAfter = 0 /\ now = 0
    BY <1>2, <1>3
  <2>2. ~CommitmentActive(st, now)
    BY <2>1 DEF CommitmentActive
  <2>. QED
    BY <2>1, <2>2 DEF Safe
<1>7. GuardInv /\ HandsInv
  <2>1. bridge.pc = "idle" /\ guard.pc = "idle" /\ releases = {}
    BY <1>3
  <2>. QED
    BY <2>1 DEF GuardInv, HandsInv
<1>. QED
  BY <1>4, <1>5, <1>6, <1>7 DEF BridgeInv

-----------------------------------------------------------------------------
(* What Controller is about to save.                                       *)

\* What the command line gives a command.
LEMMA RequestFields ==
    ASSUME NEW r \in Requests
    PROVE  /\ r.cmd \in {"cancel-recovery-unlock", "set-sensitivity", "enable",
                         "disable", "reset-password", "set-duration",
                         "set-commitment", "set-anime-enabled",
                         "set-shutdown-after-lockout", "set-recovery-settings"}
           /\ r.cmd \in {"enable", "disable", "reset-password"} => r.p \in Texts
           /\ r.cmd = "reset-password" => r.code \in Texts
           /\ r.cmd = "set-duration" => r.m \in DurationRange
           /\ r.cmd = "set-commitment" => r.d \in Nat
           /\ r.cmd \in {"set-anime-enabled", "set-shutdown-after-lockout"}
                  => r.on \in BOOLEAN
           /\ r.cmd = "set-recovery-settings" => r.release \in BOOLEAN
BY ServiceAssumption DEF Requests

\* Whatever a command makes of a safe record is a safe record.
LEMMA DirectSafe ==
    ASSUME BridgeType, NEW r \in Requests, NEW t \in ToSave(bridge.snap, r),
           Safe(bridge.snap, bridge.codes)
    PROVE  t \in State /\ t.used = bridge.snap.used /\ Safe(t, CodesAfter(r))
<1>. DEFINE s == bridge.snap
<1>1. s \in State /\ now \in Nat /\ bridge.codes \subseteq Nat
  BY DEF BridgeType
<1>2. CASE r.cmd = "enable"
  <2>1. t = [s EXCEPT !.pw = r.p, !.enabled = TRUE]
    BY <1>2 DEF ToSave, DirectEnable
  <2>2. CodesAfter(r) = bridge.codes
    BY <1>2 DEF CodesAfter
  <2>3. r.p \in Texts
    BY <1>2, RequestFields
  <2>. QED
    BY <1>1, <2>1, <2>2, <2>3 DEF State, Safe, CommitmentActive
<1>3. CASE r.cmd = "disable"
  <2>1. t \in DirectDisable(s, r)
    BY <1>3 DEF ToSave
  <2>2. CASE IsBackdoor(r.p)
    <3>1. t = [s EXCEPT !.enabled = FALSE, !.until = 0, !.unlockAfter = 0]
      BY <2>1, <2>2 DEF DirectDisable
    <3>2. t \in State /\ t.used = s.used /\ t.until = 0 /\ t.unlockAfter = 0
      BY <1>1, <3>1 DEF State
    <3>. QED
      BY <1>1, <3>2 DEF Safe, CommitmentActive
  <2>3. CASE ~IsBackdoor(r.p) /\ CodeOk(r.p)
    <3>1. t = [s EXCEPT !.unlockAfter = now + s.unlockDelay]
      BY <2>1, <2>3 DEF DirectDisable
    <3>2. s.unlockDelay \in Nat
      BY <1>1 DEF State, UnlockDelayRange
    <3>3. /\ t \in State /\ t.used = s.used /\ t.enabled = s.enabled
          /\ t.until = s.until /\ t.unlockAfter = now + s.unlockDelay
      BY <1>1, <3>1, <3>2 DEF State
    <3>4. now + s.unlockDelay \in CodesAfter(r)
      BY <1>3, <2>3 DEF CodesAfter
    <3>. QED
      BY <3>3, <3>4 DEF Safe, CommitmentActive
  <2>4. CASE ~IsBackdoor(r.p) /\ ~CodeOk(r.p)
    <3>1. t = [s EXCEPT !.enabled = FALSE] /\ ~CommitmentActive(s, now)
      BY <2>1, <2>4 DEF DirectDisable
    <3>2. /\ t \in State /\ t.used = s.used
          /\ t.until = s.until /\ t.unlockAfter = s.unlockAfter
      BY <1>1, <3>1 DEF State
    <3>3. CodesAfter(r) = bridge.codes
      BY <1>3, <2>4 DEF CodesAfter
    <3>. QED
      BY <3>1, <3>2, <3>3 DEF Safe, CommitmentActive
  <2>. QED
    BY <2>2, <2>3, <2>4
<1>4. CASE r.cmd = "reset-password"
  <2>1. t = [s EXCEPT !.pw = r.p]
    BY <1>4 DEF ToSave, DirectReset
  <2>2. CodesAfter(r) = bridge.codes
    BY <1>4 DEF CodesAfter
  <2>3. r.p \in Texts
    BY <1>4, RequestFields
  <2>. QED
    BY <1>1, <2>1, <2>2, <2>3 DEF State, Safe, CommitmentActive
<1>5. CASE r.cmd = "set-commitment"
  <2>1. t = [s EXCEPT !.enabled = TRUE, !.until = r.d, !.unlockAfter = 0]
    BY <1>5 DEF ToSave, DirectCommitment
  <2>2. r.d \in Nat
    BY <1>5, RequestFields
  <2>3. /\ t \in State /\ t.used = s.used /\ t.enabled
        /\ t.unlockAfter = 0
    BY <1>1, <2>1, <2>2 DEF State
  <2>. QED
    BY <2>3 DEF Safe
<1>6. CASE r.cmd = "cancel-recovery-unlock"
  <2>1. t = [s EXCEPT !.unlockAfter = 0]
    BY <1>6 DEF ToSave, DirectCancel
  <2>2. /\ t \in State /\ t.used = s.used /\ t.enabled = s.enabled
        /\ t.until = s.until /\ t.unlockAfter = 0
    BY <1>1, <2>1 DEF State
  <2>. QED
    BY <2>2 DEF Safe, CommitmentActive
<1>7. CASE r.cmd = "set-duration"
  <2>1. t = [s EXCEPT !.duration = r.m]
    BY <1>7 DEF ToSave, DirectDuration
  <2>2. CodesAfter(r) = bridge.codes
    BY <1>7 DEF CodesAfter
  <2>3. r.m \in DurationRange
    BY <1>7, RequestFields
  <2>. QED
    BY <1>1, <2>1, <2>2, <2>3 DEF State, Safe, CommitmentActive
<1>8. CASE r.cmd = "set-anime-enabled"
  <2>1. t = [s EXCEPT !.anime = r.on]
    BY <1>8 DEF ToSave, DirectAnime
  <2>2. CodesAfter(r) = bridge.codes
    BY <1>8 DEF CodesAfter
  <2>3. r.on \in BOOLEAN
    BY <1>8, RequestFields
  <2>. QED
    BY <1>1, <2>1, <2>2, <2>3 DEF State, Safe, CommitmentActive
<1>9. CASE r.cmd = "set-shutdown-after-lockout"
  <2>1. t = [s EXCEPT !.shutdown = r.on]
    BY <1>9 DEF ToSave, DirectShutdown
  <2>2. CodesAfter(r) = bridge.codes
    BY <1>9 DEF CodesAfter
  <2>3. r.on \in BOOLEAN
    BY <1>9, RequestFields
  <2>. QED
    BY <1>1, <2>1, <2>2, <2>3 DEF State, Safe, CommitmentActive
<1>10. CASE r.cmd = "set-recovery-settings"
  <2>1. /\ t = [s EXCEPT !.unlockDelay = r.delay, !.release = r.release,
                         !.releaseDelay = r.releaseDelay, !.releaseUses = r.uses]
        /\ r.delay \in UnlockDelayRange /\ r.releaseDelay \in ReleaseDelayRange
        /\ r.uses \in UsesAllowed
    BY <1>10 DEF ToSave, DirectRecovery
  <2>2. CodesAfter(r) = bridge.codes
    BY <1>10 DEF CodesAfter
  <2>3. r.release \in BOOLEAN
    BY <1>10, RequestFields
  <2>. QED
    BY <1>1, <2>1, <2>2, <2>3 DEF State, Safe, CommitmentActive
<1>11. CASE r.cmd = "set-sensitivity"
  <2>1. t = s
    BY <1>11 DEF ToSave
  <2>2. CodesAfter(r) = bridge.codes
    BY <1>11 DEF CodesAfter
  <2>. QED
    BY <1>1, <2>1, <2>2
<1>. QED
  BY <1>2, <1>3, <1>4, <1>5, <1>6, <1>7, <1>8, <1>9, <1>10, <1>11, RequestFields

\* A refusal leaves a safe record safe; the codes stay times.
LEMMA RefusalSafe ==
    ASSUME BridgeType, NEW r \in Requests, Safe(bridge.snap, bridge.codes)
    PROVE  /\ CodesAfter(r) \subseteq Nat
           /\ ToSave(bridge.snap, r) = {} => Safe(bridge.snap, CodesAfter(r))
<1>. DEFINE s == bridge.snap
<1>1. s \in State /\ now \in Nat /\ bridge.codes \subseteq Nat
  BY DEF BridgeType
<1>2. s.unlockDelay \in Nat
  BY <1>1 DEF State, UnlockDelayRange
<1>3. \/ CodesAfter(r) = bridge.codes
      \/ CodesAfter(r) = bridge.codes \cup {now + s.unlockDelay}
      \/ CodesAfter(r) = {} /\ r.cmd = "cancel-recovery-unlock"
      \/ CodesAfter(r) = {} /\ ToSave(s, r) # {}
  BY DEF CodesAfter
<1>4. r.cmd = "cancel-recovery-unlock" /\ ToSave(s, r) = {} => s.unlockAfter = 0
  BY DEF ToSave, DirectCancel
<1>. QED
  BY <1>1, <1>2, <1>3, <1>4 DEF Safe

-----------------------------------------------------------------------------
(* The steps.                                                              *)

\* A commitment that will run runs already.
LEMMA ActiveEarlier ==
    ASSUME NEW s \in State, NEW t \in Nat, NEW u \in {t, t + 1},
           CommitmentActive(s, u)
    PROVE  CommitmentActive(s, t)
BY DEF CommitmentActive, State

\* A bridge process without a record has nothing to be wrong about.
LEMMA AtType ==
    ASSUME NEW pc \in BridgeStates, NEW report \in BOOLEAN
    PROVE  /\ BridgeAt(pc, report) \in [pc : BridgeStates, report : BOOLEAN,
                                        snap : State, codes : SUBSET Nat]
           /\ BridgeAt(pc, report).pc = pc
           /\ BridgeAt(pc, report).report = report
           /\ IsFiniteSet(BridgeAt(pc, report).snap.used)
<1>1. /\ NewState(Placeholder, FALSE) \in State
      /\ IsFiniteSet(NewState(Placeholder, FALSE).used)
  BY NewStateType, FS_EmptySet
<1>. QED
  BY <1>1 DEF BridgeAt

LEMMA GuardAtType ==
    ASSUME NEW pc \in GuardStates
    PROVE  /\ GuardAt(pc) \in [pc : GuardStates, snap : State, earned : BOOLEAN]
           /\ GuardAt(pc).pc = pc
           /\ IsFiniteSet(GuardAt(pc).snap.used)
<1>1. /\ NewState(Placeholder, FALSE) \in State
      /\ IsFiniteSet(NewState(Placeholder, FALSE).used)
  BY NewStateType, FS_EmptySet
<1>. QED
  BY <1>1 DEF GuardAt

\* The record of an older version is as safe as it was, and keeps its timer.
LEMMA UpgradeInv == BridgeInv /\ Upgrade => BridgeInv'
<1>. SUFFICES ASSUME BridgeInv, Upgrade PROVE BridgeInv'
  OBVIOUS
<1>1. PICK v \in Versions, s \in OldRecords :
          /\ old = HeldBy(v, s)
          /\ v >= 9 /\ s.unlockAfter # 0 => s.unlockAfter \in codes
  BY DEF BridgeInv, OldInv, Upgrade
<1>2. /\ v \in 1..SchemaVersion /\ s \in State /\ IsFiniteSet(s.used)
      /\ CommitmentActive(s, 0) => s.enabled
  BY BridgeAssumption
<1>3. st' = FromDict(v, HeldBy(v, s).held)
  BY <1>1 DEF Upgrade, HeldBy
<1>4. /\ st' \in State /\ st'.enabled = s.enabled /\ st'.until \in {0, s.until}
      /\ st'.unlockAfter = 0 \/ (v >= 9 /\ st'.unlockAfter = s.unlockAfter)
      /\ st'.used \in {{}, s.used}
  BY <1>2, <1>3, FromDictType
<1>5. IsFiniteSet(st'.used)
  BY <1>2, <1>4, FS_EmptySet
<1>6. /\ file' = "ok" /\ now' = now /\ recovery' = recovery /\ codes' = codes
      /\ releases' = releases /\ guard' = guard /\ mode' = mode
      /\ bridge' = bridge /\ bridge.pc = "idle" /\ guard.pc = "idle"
  BY DEF Upgrade, BridgeInv, OldInv
<1>7. BridgeType'
  BY <1>4, <1>5, <1>6 DEF BridgeInv, BridgeType
<1>8. Safe(st, codes)'
  <2>1. ASSUME CommitmentActive(st', now) PROVE st'.enabled
    <3>1. s.until > 0
      BY <1>2, <1>4, <2>1 DEF CommitmentActive, BridgeInv, BridgeType, State
    <3>. QED
      BY <1>2, <1>4, <3>1 DEF CommitmentActive
  <2>2. st'.unlockAfter # 0 => st'.unlockAfter \in codes
    BY <1>1, <1>4
  <2>. QED
    BY <1>6, <2>1, <2>2 DEF Safe
<1>9. GuardInv' /\ HandsInv' /\ OldInv'
  BY <1>6 DEF BridgeInv, GuardInv, HandsInv, OldInv
<1>. QED
  BY <1>7, <1>8, <1>9 DEF BridgeInv

\* A step of a bridge process that leaves the file and the codes.
LEMMA HandsStep ==
    ASSUME BridgeInv, file # "old",
           UNCHANGED <<guardVars, mode, old>>,
           bridge' \in [pc : BridgeStates, report : BOOLEAN, snap : State,
                        codes : SUBSET Nat],
           IsFiniteSet(bridge'.snap.used), HandsInv'
    PROVE  BridgeInv'
<1>1. /\ now' = now /\ file' = file /\ st' = st /\ recovery' = recovery
      /\ codes' = codes /\ releases' = releases /\ guard' = guard
      /\ mode' = mode
  BY DEF guardVars, vars
<1>2. BridgeType'
  BY <1>1 DEF BridgeInv, BridgeType
<1>3. Safe(st, codes)' /\ GuardInv' /\ OldInv'
  BY <1>1 DEF BridgeInv, Safe, GuardInv, OldInv
<1>. QED
  BY <1>2, <1>3 DEF BridgeInv

\* A step of a bridge process that writes the file.
LEMMA WriteStep ==
    ASSUME BridgeInv, file' = "ok",
           UNCHANGED <<now, recovery, guard, mode, old>>,
           st' \in State, IsFiniteSet(st'.used), codes' \subseteq Nat,
           releases' \in {{}, releases}, Safe(st', codes'),
           bridge' \in [pc : BridgeStates, report : BOOLEAN, snap : State,
                        codes : SUBSET Nat],
           IsFiniteSet(bridge'.snap.used), HandsInv'
    PROVE  BridgeInv'
<1>1. BridgeType'
  BY DEF BridgeInv, BridgeType
<1>2. Safe(st, codes)' /\ GuardInv' /\ OldInv'
  BY DEF BridgeInv, Safe, GuardInv, OldInv
<1>. QED
  BY <1>1, <1>2 DEF BridgeInv

LEMMA BridgeStepInv == BridgeInv /\ BridgeStep => BridgeInv'
<1>. SUFFICES ASSUME BridgeInv, BridgeStep PROVE BridgeInv'
  OBVIOUS
<1>1. /\ bridge \in [pc : BridgeStates, report : BOOLEAN, snap : State,
                     codes : SUBSET Nat]
      /\ IsFiniteSet(bridge.snap.used) /\ codes \subseteq Nat
      /\ st \in State /\ IsFiniteSet(st.used) /\ now \in Nat
      /\ mode \in {"installed", "development"}
  BY DEF BridgeInv, BridgeType
<1>2. bridge.pc # "idle" => file # "old"
  BY DEF BridgeInv, OldInv
<1>3. /\ Idle \in [pc : BridgeStates, report : BOOLEAN, snap : State,
                   codes : SUBSET Nat]
      /\ Idle.pc = "idle" /\ IsFiniteSet(Idle.snap.used)
  BY AtType DEF Idle, BridgeStates
<1>4. ASSUME NEW report \in BOOLEAN, BridgeStart(report) PROVE BridgeInv'
  <2>1. PICK pc \in {"creating", "loading"} :
            /\ bridge' = BridgeAt(pc, report)
            /\ pc = "creating" => mode = "development"
    BY <1>4 DEF BridgeStart
  <2>2. /\ bridge' \in [pc : BridgeStates, report : BOOLEAN, snap : State,
                        codes : SUBSET Nat]
        /\ bridge'.pc = pc /\ bridge'.report = report
        /\ IsFiniteSet(bridge'.snap.used)
    BY <2>1, AtType DEF BridgeStates
  <2>3. HandsInv'
    BY <1>4, <2>1, <2>2 DEF BridgeStart, BridgeInv, HandsInv, guardVars, vars
  <2>. QED
    BY <1>4, <2>2, <2>3, HandsStep DEF BridgeStart
<1>5. CASE BridgeCreate
  <2>1. NewState(DevPassword, FALSE) \in State /\ IsFiniteSet(NewState(DevPassword, FALSE).used)
    BY BridgeAssumption, NewStateType, FS_EmptySet
  <2>2. Safe(NewState(DevPassword, FALSE), {})
    BY <1>1 DEF Safe, CommitmentActive, NewState
  <2>3. bridge'.pc = "loading" /\ bridge'.report = bridge.report
    BY <1>1, <1>5 DEF BridgeCreate
  <2>4. HandsInv'
    BY <1>5, <2>3 DEF BridgeCreate, BridgeInv, HandsInv
  <2>5. /\ bridge' \in [pc : BridgeStates, report : BOOLEAN, snap : State,
                        codes : SUBSET Nat]
        /\ IsFiniteSet(bridge'.snap.used)
    BY <1>1, <1>5 DEF BridgeCreate, BridgeStates
  <2>. QED
    BY <1>5, <2>1, <2>2, <2>4, <2>5, WriteStep DEF BridgeCreate
<1>6. CASE BridgeLoad
  <2>1. CASE bridge' = BridgeAt("answering", TRUE)
    <3>1. /\ bridge' \in [pc : BridgeStates, report : BOOLEAN, snap : State,
                          codes : SUBSET Nat]
          /\ bridge'.pc = "answering" /\ bridge'.report
          /\ IsFiniteSet(bridge'.snap.used)
      BY <2>1, AtType DEF BridgeStates
    <3>2. HandsInv'
      BY <1>6, <3>1 DEF BridgeLoad, BridgeInv, HandsInv, guardVars, vars
    <3>. QED
      BY <1>2, <1>6, <3>1, <3>2, HandsStep DEF BridgeLoad
  <2>2. CASE bridge' = Idle
    <3>1. HandsInv'
      BY <1>3, <1>6, <2>2 DEF BridgeLoad, BridgeInv, HandsInv, guardVars, vars
    <3>. QED
      BY <1>2, <1>3, <1>6, <2>2, <3>1, HandsStep DEF BridgeLoad
  <2>3. CASE bridge' = [bridge EXCEPT !.codes = codes, !.pc = "repairing"]
             /\ ~bridge.report
    <3>1. /\ bridge' \in [pc : BridgeStates, report : BOOLEAN, snap : State,
                          codes : SUBSET Nat]
          /\ bridge'.pc = "repairing" /\ bridge'.report = bridge.report
          /\ IsFiniteSet(bridge'.snap.used)
      BY <1>1, <2>3 DEF BridgeStates
    <3>2. HandsInv'
      BY <1>6, <2>3, <3>1 DEF BridgeLoad, BridgeInv, HandsInv, guardVars, vars
    <3>. QED
      BY <1>2, <1>6, <3>1, <3>2, HandsStep DEF BridgeLoad
  <2>4. CASE /\ bridge' = [bridge EXCEPT
                    !.snap = AfterDueUnlock(st, now),
                    !.codes = IF bridge.report THEN {} ELSE codes,
                    !.pc = IF UnlockDue(st, now) THEN "applying" ELSE "deciding"]
             /\ ~(bridge.report /\ ~UnlockDue(st, now))
    <3>. DEFINE s == AfterDueUnlock(st, now)
    <3>1. /\ s \in State /\ IsFiniteSet(s.used)
          /\ UnlockDue(st, now) => Ended(s)
          /\ ~UnlockDue(st, now) => s = st
      BY <1>1, AfterDueEnds
    <3>. HIDE DEF s
    <3>2. /\ bridge'.pc = IF UnlockDue(st, now) THEN "applying" ELSE "deciding"
          /\ bridge'.report = bridge.report /\ bridge'.snap = s
          /\ bridge'.codes = IF bridge.report THEN {} ELSE codes
          /\ bridge' \in [pc : BridgeStates, report : BOOLEAN, snap : State,
                          codes : SUBSET Nat]
      BY <1>1, <2>4, <3>1 DEF BridgeStates, s
    <3>3. /\ codes' = codes /\ st' = st /\ mode' = mode /\ releases' = releases
          /\ bridge.pc = "loading"
      BY <1>6 DEF BridgeLoad, guardVars, vars
    <3>4. mode = "installed" => bridge.report
      BY <3>3 DEF BridgeInv, HandsInv
    <3>5. CASE UnlockDue(st, now)
      <4>1. bridge'.pc = "applying" /\ Ended(bridge'.snap)
        BY <3>1, <3>2, <3>5
      <4>. QED
        <5>1. HandsInv'
          BY <3>2, <3>3, <3>4, <4>1 DEF BridgeInv, HandsInv, Ended
        <5>. QED
          BY <1>2, <1>6, <3>1, <3>2, <3>3, <5>1, HandsStep DEF BridgeLoad
    <3>6. CASE ~UnlockDue(st, now)
      <4>1. bridge'.pc = "deciding" /\ bridge'.snap = st /\ ~bridge.report
        BY <2>4, <3>1, <3>2, <3>6
      <4>2. HandsInv'
        BY <3>2, <3>3, <3>4, <4>1 DEF BridgeInv, HandsInv
      <4>. QED
        BY <1>2, <1>6, <3>1, <3>2, <3>3, <4>2, HandsStep DEF BridgeLoad
    <3>. QED
      BY <3>5, <3>6
  <2>. QED
    BY <1>6, <2>1, <2>2, <2>3, <2>4 DEF BridgeLoad
<1>7. CASE BridgeApply
  <2>1. Ended(bridge.snap) /\ st' = bridge.snap /\ file' = "ok"
        /\ codes' = codes /\ releases' = releases /\ now' = now /\ mode' = mode
        /\ recovery' = recovery /\ guard' = guard /\ old' = old
    BY <1>7 DEF BridgeApply, BridgeInv, HandsInv
  <2>2. Safe(st', codes')
    BY <1>1, <2>1 DEF Safe, Ended, CommitmentActive
  <2>3. CASE bridge.report
    <3>1. /\ bridge' \in [pc : BridgeStates, report : BOOLEAN, snap : State,
                          codes : SUBSET Nat]
          /\ bridge'.pc = "answering" /\ bridge'.report
          /\ IsFiniteSet(bridge'.snap.used)
      BY <1>7, <2>3, AtType DEF BridgeApply, BridgeStates
    <3>2. HandsInv'
      BY <2>1, <3>1 DEF BridgeInv, HandsInv
    <3>. QED
      BY <1>1, <2>1, <2>2, <3>1, <3>2, WriteStep
  <2>4. CASE ~bridge.report
    <3>1. /\ bridge' \in [pc : BridgeStates, report : BOOLEAN, snap : State,
                          codes : SUBSET Nat]
          /\ bridge'.pc = "deciding" /\ bridge'.report = bridge.report
          /\ bridge'.snap = bridge.snap /\ bridge'.codes = bridge.codes
      BY <1>1, <1>7, <2>4 DEF BridgeApply, BridgeStates
    <3>2. bridge.codes = codes /\ mode = "development"
      BY <1>1, <1>7, <2>4 DEF BridgeApply, BridgeInv, HandsInv
    <3>3. HandsInv'
      BY <2>1, <2>4, <3>1, <3>2 DEF BridgeInv, HandsInv
    <3>. QED
      BY <1>1, <2>1, <2>2, <3>1, <3>3, WriteStep
  <2>. QED
    BY <2>3, <2>4
<1>8. ASSUME NEW r \in Requests, BridgeDecide(r) PROVE BridgeInv'
  <2>1. /\ bridge.pc = "deciding" /\ bridge.codes = codes /\ bridge.snap = st
        /\ ~bridge.report /\ mode = "development" /\ file # "old"
    BY <1>1, <1>2, <1>8 DEF BridgeDecide, BridgeInv, HandsInv
  <2>2. Safe(bridge.snap, bridge.codes)
    BY <2>1 DEF BridgeInv
  <2>3. /\ CodesAfter(r) \subseteq Nat
        /\ ToSave(bridge.snap, r) = {} => Safe(bridge.snap, CodesAfter(r))
    BY <2>2, RefusalSafe DEF BridgeInv
  <2>4. CASE /\ ToSave(bridge.snap, r) = {} /\ codes' = CodesAfter(r)
             /\ bridge' = [bridge EXCEPT !.codes = codes', !.pc = "answering"]
    <3>1. /\ bridge' \in [pc : BridgeStates, report : BOOLEAN, snap : State,
                          codes : SUBSET Nat]
          /\ bridge'.pc = "answering" /\ bridge'.report = bridge.report
          /\ bridge'.snap = bridge.snap
      BY <1>1, <2>3, <2>4 DEF BridgeStates
    <3>2. /\ now' = now /\ file' = file /\ st' = st /\ recovery' = recovery
          /\ releases' = releases /\ guard' = guard /\ mode' = mode /\ old' = old
      BY <1>8 DEF BridgeDecide
    <3>3. BridgeType'
      BY <1>1, <2>3, <2>4, <3>1, <3>2 DEF BridgeInv, BridgeType
    <3>4. Safe(st, codes)'
      BY <2>1, <2>3, <2>4, <3>2 DEF Safe
    <3>5. GuardInv' /\ HandsInv' /\ OldInv'
      BY <2>1, <3>1, <3>2 DEF BridgeInv, GuardInv, HandsInv, OldInv
    <3>. QED
      BY <3>3, <3>4, <3>5 DEF BridgeInv
  <2>5. ASSUME NEW s \in ToSave(bridge.snap, r), codes' = codes,
               bridge' = [bridge EXCEPT !.snap = s, !.codes = CodesAfter(r),
                                        !.pc = "saving"]
        PROVE  BridgeInv'
    <3>1. s \in State /\ s.used = bridge.snap.used /\ Safe(s, CodesAfter(r))
      BY <2>2, DirectSafe DEF BridgeInv
    <3>2. /\ bridge' \in [pc : BridgeStates, report : BOOLEAN, snap : State,
                          codes : SUBSET Nat]
          /\ bridge'.pc = "saving" /\ bridge'.report = bridge.report
          /\ bridge'.snap = s /\ bridge'.codes = CodesAfter(r)
      BY <1>1, <2>3, <2>5, <3>1 DEF BridgeStates
    <3>3. UNCHANGED <<guardVars, mode, old>> /\ now' = now
      BY <1>8, <2>5 DEF BridgeDecide, guardVars, vars
    <3>4. HandsInv'
      BY <2>1, <3>1, <3>2, <3>3 DEF BridgeInv, HandsInv, Safe, guardVars, vars
    <3>. QED
      BY <1>1, <2>1, <3>1, <3>2, <3>3, <3>4, HandsStep
  <2>. QED
    BY <1>8, <2>4, <2>5 DEF BridgeDecide
<1>9. CASE BridgeSave
  <2>1. /\ Safe(bridge.snap, bridge.codes) /\ st' = bridge.snap /\ file' = "ok"
        /\ codes' = bridge.codes /\ releases' = releases /\ mode' = mode
        /\ bridge' = Idle /\ UNCHANGED <<now, recovery, guard, mode, old>>
    BY <1>9 DEF BridgeSave, BridgeInv, HandsInv
  <2>2. HandsInv'
    BY <1>3, <2>1 DEF BridgeInv, HandsInv
  <2>. QED
    BY <1>1, <1>3, <2>1, <2>2, WriteStep
<1>10. ASSUME NEW code \in Texts, NEW p \in Texts, BridgeRepair(code, p)
       PROVE  BridgeInv'
  <2>1. /\ NewState(p, TRUE) \in State /\ IsFiniteSet(NewState(p, TRUE).used)
    BY NewStateType, FS_EmptySet
  <2>2. Safe(NewState(p, TRUE), {}) /\ NewState(p, TRUE).unlockAfter = 0
    BY <1>1 DEF Safe, CommitmentActive, NewState
  <2>3. /\ bridge' \in [pc : BridgeStates, report : BOOLEAN, snap : State,
                        codes : SUBSET Nat]
        /\ bridge'.pc = "rewriting" /\ bridge'.report = bridge.report
        /\ bridge'.snap = NewState(p, TRUE) /\ bridge'.codes = {}
    BY <1>1, <1>10, <2>1 DEF BridgeRepair, BridgeStates
  <2>4. UNCHANGED <<guardVars, mode, old>> /\ now' = now /\ bridge.pc = "repairing"
    BY <1>10 DEF BridgeRepair, guardVars, vars
  <2>5. HandsInv'
    BY <2>2, <2>3, <2>4 DEF BridgeInv, HandsInv, Safe, guardVars, vars
  <2>. QED
    BY <1>2, <2>1, <2>3, <2>4, <2>5, HandsStep
<1>11. CASE BridgeRewrite
  <2>1. /\ Safe(bridge.snap, bridge.codes) /\ bridge.snap.unlockAfter = 0
        /\ st' = bridge.snap /\ file' = "ok" /\ codes' = {} /\ releases' = {}
        /\ bridge' = Idle /\ UNCHANGED <<now, recovery, guard, mode, old>>
    BY <1>11 DEF BridgeRewrite, BridgeInv, HandsInv
  <2>2. Safe(st', codes')
    BY <2>1 DEF Safe
  <2>3. HandsInv'
    BY <1>3, <2>1 DEF BridgeInv, HandsInv
  <2>. QED
    BY <1>1, <1>3, <2>1, <2>2, <2>3, WriteStep
<1>12. CASE BridgeEnds
  <2>1. HandsInv'
    BY <1>3, <1>12 DEF BridgeEnds, BridgeInv, HandsInv, guardVars, vars
  <2>. QED
    BY <1>2, <1>3, <1>12, <2>1, HandsStep DEF BridgeEnds
<1>. QED
  BY <1>4, <1>5, <1>6, <1>7, <1>8, <1>9, <1>10, <1>11, <1>12 DEF BridgeStep

\* The service, and ensure-recovery in development.
LEMMA OthersInv == BridgeInv /\ Others => BridgeInv'
<1>. SUFFICES ASSUME BridgeInv, Others PROVE BridgeInv'
  OBVIOUS
<1>1. TypeInv /\ SafetyInv
  BY ServiceInv DEF BridgeInv, Others
<1>2. [Next]_vars
  BY DEF Others, Next, Command
<1>3. TypeInv' /\ SafetyInv'
  BY <1>1, <1>2, TypeStep, SafetyStep
<1>4. mode' = mode /\ guard' = guard /\ bridge' = bridge /\ old' = old
  BY DEF Others
<1>5. BridgeType'
  BY <1>3, <1>4 DEF BridgeInv, BridgeType, TypeInv, TypeOK, UsedFinite
<1>6. Safe(st, codes)'
  BY <1>3 DEF SafetyInv, UnlockWasEarned, Safe
<1>7. file' # "old"
  BY <1>3 DEF TypeInv, TypeOK
<1>8. mode = "development" =>
          st' = st /\ codes' = codes /\ releases' = releases /\ now' = now
  BY DEF Others, EnsureRecovery
<1>9. HandsInv'
  <2>1. CASE mode = "development"
    BY <1>4, <1>8, <2>1 DEF BridgeInv, HandsInv, Safe
  <2>2. CASE mode = "installed"
    <3>1. bridge.pc \notin {"creating", "deciding", "saving", "repairing", "rewriting"}
      BY <2>2 DEF BridgeInv, HandsInv
    <3>. QED
      BY <1>4, <2>2, <3>1 DEF BridgeInv, HandsInv
  <2>. QED
    BY <2>1, <2>2 DEF BridgeInv, BridgeType
<1>. QED
  BY <1>4, <1>5, <1>6, <1>7, <1>9 DEF BridgeInv, GuardInv, OldInv

\* The clock and the losses.
LEMMA WorldInv == BridgeInv /\ World => BridgeInv'
<1>. SUFFICES ASSUME BridgeInv, World PROVE BridgeInv'
  OBVIOUS
<1>1. /\ st' = st /\ codes' = codes /\ releases' = releases
      /\ guard' = guard /\ mode' = mode /\ bridge' = bridge
      /\ now' \in {now, now + 1} /\ now \in Nat
      /\ file' \in {file, "ok", "damaged", "missing"}
      /\ recovery' \in {recovery, "none", "damaged"}
      /\ old' = IF file' = "old" THEN old ELSE NoOld
  BY DEF World, Environment, Tick, LoseState, ReadAgain, LoseRecovery,
     BridgeInv, BridgeType
<1>2. now' \in Nat
  BY <1>1
<1>3. BridgeType'
  BY <1>1, <1>2 DEF BridgeInv, BridgeType
<1>4. ASSUME NEW s \in State, NEW earned, Safe(s, earned)
      PROVE  /\ s.until > now' => s.enabled
             /\ s.unlockAfter # 0 => s.unlockAfter \in earned
  <2>1. s.until > now' => CommitmentActive(s, now)
    BY <1>1, ActiveEarlier DEF CommitmentActive
  <2>. QED
    BY <1>4, <2>1 DEF Safe
<1>5. Safe(st, codes)'
  <2>1. st \in State /\ Safe(st, codes)
    BY DEF BridgeInv, BridgeType
  <2>2. /\ st.until > now' => st.enabled
        /\ st.unlockAfter # 0 => st.unlockAfter \in codes
    BY <1>4, <2>1
  <2>. QED
    BY <1>1, <2>2 DEF Safe, CommitmentActive
<1>6. bridge.pc \in {"saving", "rewriting"} => Safe(bridge.snap, bridge.codes)'
  <2>. SUFFICES ASSUME bridge.pc \in {"saving", "rewriting"}
                PROVE  Safe(bridge.snap, bridge.codes)'
    OBVIOUS
  <2>1. bridge.snap \in State /\ Safe(bridge.snap, bridge.codes)
    BY DEF BridgeInv, BridgeType, HandsInv
  <2>2. /\ bridge.snap.until > now' => bridge.snap.enabled
        /\ bridge.snap.unlockAfter # 0 => bridge.snap.unlockAfter \in bridge.codes
    BY <1>4, <2>1
  <2>. QED
    BY <1>1, <2>2 DEF Safe, CommitmentActive
<1>7. HandsInv'
  BY <1>1, <1>6 DEF BridgeInv, HandsInv
<1>8. GuardInv' /\ OldInv'
  BY <1>1 DEF BridgeInv, GuardInv, OldInv
<1>. QED
  BY <1>3, <1>5, <1>7, <1>8 DEF BridgeInv

\* The guard saves only what a matured unlock has ended protection in.
LEMMA GuardStepInv ==
    /\ BridgeInv /\ mode = "installed" /\ bridge.pc = "idle" /\ file # "old"
    /\ GuardStep /\ UNCHANGED <<mode, bridge, old>>
    => BridgeInv'
<1>. SUFFICES ASSUME BridgeInv, mode = "installed", bridge.pc = "idle",
                     file # "old", GuardStep, UNCHANGED <<mode, bridge, old>>
              PROVE  BridgeInv'
  OBVIOUS
<1>1. /\ guard \in [pc : GuardStates, snap : State, earned : BOOLEAN]
      /\ IsFiniteSet(guard.snap.used) /\ st \in State /\ IsFiniteSet(st.used)
      /\ now \in Nat /\ codes \subseteq Nat
  BY DEF BridgeInv, BridgeType
<1>2. ASSUME UNCHANGED vars, GuardInv',
             guard' \in [pc : GuardStates, snap : State, earned : BOOLEAN],
             IsFiniteSet(guard'.snap.used)
      PROVE  BridgeInv'
  <2>1. BridgeType'
    BY <1>2 DEF BridgeInv, BridgeType, vars
  <2>2. Safe(st, codes)' /\ HandsInv' /\ OldInv'
    BY <1>2 DEF BridgeInv, Safe, HandsInv, OldInv, vars
  <2>. QED
    BY <1>2, <2>1, <2>2 DEF BridgeInv
<1>3. ASSUME NEW pc \in GuardStates \ {"saving"}, UNCHANGED vars,
             guard' = GuardAt(pc)
      PROVE  BridgeInv'
  BY <1>2, <1>3, GuardAtType DEF GuardInv
<1>4. CASE GuardLoad
  <2>1. CASE guard' \in {GuardAt("allow"), GuardAt("block"), GuardAt("refuse")}
    BY <1>3, <1>4, <2>1 DEF GuardLoad, GuardStates
  <2>2. CASE guard' = [pc |-> IF GuardWrites(st) THEN "saving" ELSE "deciding",
                       snap |-> AfterDueUnlock(st, now), earned |-> Served]
    <3>1. /\ AfterDueUnlock(st, now) \in State
          /\ AfterDueUnlock(st, now).used = st.used
          /\ UnlockDue(st, now) => Ended(AfterDueUnlock(st, now))
      BY <1>1, AfterDueEnds
    <3>2. UnlockDue(st, now) => Served
      BY DEF UnlockDue, Served, BridgeInv, Safe
    <3>3. Served \in BOOLEAN
      BY DEF Served
    <3>4. /\ guard'.pc = IF GuardWrites(st) THEN "saving" ELSE "deciding"
          /\ guard'.snap = AfterDueUnlock(st, now) /\ guard'.earned = Served
      BY <2>2
    <3>5. guard' \in [pc : GuardStates, snap : State, earned : BOOLEAN]
      BY <2>2, <3>1, <3>3 DEF GuardStates
    <3>6. GuardInv'
      BY <3>1, <3>2, <3>4 DEF GuardInv, GuardWrites
    <3>. QED
      BY <1>1, <1>2, <1>4, <3>1, <3>4, <3>5, <3>6 DEF GuardLoad
  <2>. QED
    BY <1>4, <2>1, <2>2 DEF GuardLoad
<1>5. CASE GuardSave
  <2>1. /\ file' = "ok" /\ st' = guard.snap /\ Ended(guard.snap)
        /\ guard' \in [pc : GuardStates, snap : State, earned : BOOLEAN]
        /\ guard'.pc = "deciding" /\ guard'.snap = guard.snap
        /\ UNCHANGED <<now, recovery, codes, releases>>
    BY <1>1, <1>5 DEF GuardSave, GuardStates, BridgeInv, GuardInv
  <2>2. BridgeType'
    BY <1>1, <2>1 DEF BridgeInv, BridgeType
  <2>3. Safe(st, codes)'
    BY <1>1, <2>1 DEF Safe, Ended, CommitmentActive
  <2>4. GuardInv' /\ HandsInv' /\ OldInv'
    BY <2>1 DEF BridgeInv, GuardInv, HandsInv, OldInv
  <2>. QED
    BY <2>2, <2>3, <2>4 DEF BridgeInv
<1>6. CASE GuardDecide
  BY <1>3, <1>6 DEF GuardDecide, GuardStates
<1>7. CASE GuardAgain
  BY <1>3, <1>7 DEF GuardAgain, GuardStates
<1>. QED
  BY <1>4, <1>5, <1>6, <1>7 DEF GuardStep

LEMMA BridgeInvStep == BridgeInv /\ [BridgeNext]_bridgeVars => BridgeInv'
<1>1. BridgeInv /\ UNCHANGED bridgeVars => BridgeInv'
  <2>. SUFFICES ASSUME BridgeInv, UNCHANGED bridgeVars PROVE BridgeInv'
    OBVIOUS
  <2>1. UNCHANGED <<now, file, st, recovery, codes, releases, guard, mode,
                    bridge, old>>
    BY DEF bridgeVars, guardVars, vars
  <2>. QED
    BY <2>1 DEF BridgeInv, BridgeType, Safe, GuardInv, HandsInv, OldInv
<1>. QED
  BY <1>1, UpgradeInv, BridgeStepInv, OthersInv, WorldInv, GuardStepInv
     DEF BridgeNext

LEMMA BridgeInvariant == BridgeSpec => []BridgeInv
BY BridgeInvInit, BridgeInvStep, PTL DEF BridgeSpec

-----------------------------------------------------------------------------
(* The invariants of the run. *)

\* Whoever writes the file, a running commitment has protection on: also
\* after an upgrade, a save by the guard, and the direct path of development.
THEOREM EveryWriterProtects == BridgeSpec => []CommitmentProtects
<1>1. BridgeInv => CommitmentProtects
  BY DEF BridgeInv, Safe, CommitmentProtects
<1>. QED
  BY <1>1, BridgeInvariant, PTL

\* Whoever writes the file, a timer in it was started by a recovery code
\* entered after the last commitment and the last cancellation.
THEOREM EveryUnlockEarned == BridgeSpec => []UnlockWasEarned
<1>1. BridgeInv => UnlockWasEarned
  BY DEF BridgeInv, Safe, UnlockWasEarned
<1>. QED
  BY <1>1, BridgeInvariant, PTL

\* An attempt to uninstall ends protection only where a recovery code had
\* served its delay when the guard loaded the record.
THEOREM GuardAlwaysEarned == BridgeSpec => []GuardActsOnEarnedUnlock
<1>1. BridgeInv => GuardActsOnEarnedUnlock
  BY DEF BridgeInv, GuardInv, GuardActsOnEarnedUnlock
<1>. QED
  BY <1>1, BridgeInvariant, PTL

\* No field that an older record held is lost in the upgrade, whatever the
\* version and whatever the fields.
THEOREM UpgradeAlwaysKeeps == BridgeSpec => UpgradeKeeps
<1>1. ASSUME BridgeInv, [BridgeNext]_bridgeVars, file = "old", file' = "ok",
             NEW f \in DOMAIN old.held
      PROVE  st'[f] = old.held[f]
  <2>1. bridge.pc = "idle" /\ guard.pc = "idle"
    BY <1>1 DEF BridgeInv, OldInv
  <2>2. ~UNCHANGED bridgeVars
    BY <1>1 DEF bridgeVars, guardVars, vars
  <2>3. ~BridgeStep
    BY <1>1, <2>1 DEF BridgeStep, BridgeStart, BridgeCreate, BridgeLoad,
       BridgeApply, BridgeDecide, BridgeSave, BridgeRepair, BridgeRewrite,
       BridgeEnds
  <2>4. ~Others /\ ~World
    BY <1>1 DEF Others, World
  <2>5. Upgrade
    BY <1>1, <2>2, <2>3, <2>4 DEF BridgeNext
  <2>6. PICK v \in Versions, s \in OldRecords : old = HeldBy(v, s)
    BY <1>1 DEF BridgeInv, OldInv
  <2>7. v \in 1..SchemaVersion /\ s \in State
    BY BridgeAssumption
  <2>8. old.held = [g \in HeldIn(v) |-> s[g]] /\ old.version = v
    BY <2>6 DEF HeldBy
  <2>9. f \in HeldIn(v) /\ old.held[f] = s[f]
    BY <1>1, <2>8
  <2>10. st' = FromDict(v, HeldBy(v, s).held)
    BY <2>5, <2>6, <2>8 DEF Upgrade, HeldBy
  <2>. QED
    BY <2>7, <2>9, <2>10, FromDictType
<1>2. BridgeInv /\ [BridgeNext]_bridgeVars =>
        [file = "old" /\ file' = "ok" =>
            \A f \in DOMAIN old.held : st'[f] = old.held[f]]_bridgeVars
  BY <1>1
<1>. QED
  BY <1>2, BridgeInvariant, PTL DEF BridgeSpec, UpgradeKeeps

-----------------------------------------------------------------------------
(* The two copies of the rules. *)

\* What the service would do to the record that a bridge process has loaded,
\* where no emergency unlock of it is due.
LEMMA DecideIsServiceStep ==
    ASSUME BridgeInv, NEW r \in Requests, BridgeDecide(r),
           ~UnlockDue(bridge.snap, now)
    PROVE  ServiceDoes(r)
<1>. DEFINE s == bridge.snap
            t == bridge.snap'
<1>1. /\ bridge.pc = "deciding" /\ bridge'.pc \in {"answering", "saving"}
      /\ bridge'.codes = CodesAfter(r)
      /\ \/ ToSave(s, r) = {} /\ t = s
         \/ t \in ToSave(s, r)
      /\ now' = now /\ recovery' = recovery /\ releases' = releases
  BY DEF BridgeDecide, BridgeInv, BridgeType
<1>2. bridge.pc # "repairing" /\ bridge'.pc # "repairing"
  BY <1>1
<1>3. Service!Loaded = s
  BY DEF Service!Loaded, Service!AfterDueUnlock, Service!UnlockDue, UnlockDue
<1>4. s \in State /\ now \in Nat
  BY DEF BridgeInv, BridgeType
<1>. HIDE DEF s, t
<1>5. /\ \A u : Service!CommitmentActive(s, u) = CommitmentActive(s, u)
      /\ \A u : Service!UnlockPending(s, u) = UnlockPending(s, u)
      /\ \A p : Service!IsBackdoor(p) = IsBackdoor(p)
      /\ \A p : Service!CodeOk(p) = CodeOk(p)
      /\ \A p : Service!PasswordOk(s, p) = PasswordOk(s, p)
  BY DEF Service!CommitmentActive, CommitmentActive, Service!UnlockPending,
     UnlockPending, Service!IsBackdoor, IsBackdoor, Service!CodeOk, CodeOk,
     Service!PasswordOk, PasswordOk
<1>6. ASSUME r.cmd = "enable" PROVE Service!Enable(r.p)
  <2>1. t = IF r.p \in ShortTexts THEN s ELSE [s EXCEPT !.pw = r.p, !.enabled = TRUE]
    BY <1>1, <1>6 DEF ToSave, DirectEnable
  <2>2. bridge'.codes = bridge.codes
    BY <1>1, <1>6 DEF CodesAfter
  <2>. QED
    BY <1>1, <1>2, <1>3, <2>1, <2>2 DEF Service!Enable, s, t
<1>7. ASSUME r.cmd = "disable" PROVE Service!Disable(r.p)
  <2>1. t \in DirectDisable(s, r) \/ (t = s /\ DirectDisable(s, r) = {})
    BY <1>1, <1>7 DEF ToSave
  <2>2. t = Service!DisableResult(s, r.p)
    <3>1. CASE IsBackdoor(r.p)
      <4>1. t = [s EXCEPT !.enabled = FALSE, !.until = 0, !.unlockAfter = 0]
        BY <2>1, <3>1 DEF DirectDisable
      <4>. QED
        BY <1>5, <3>1, <4>1 DEF Service!DisableResult, Service!Overridden
    <3>2. CASE ~IsBackdoor(r.p) /\ CodeOk(r.p)
      <4>1. t = IF UnlockPending(s, now) THEN s
                ELSE [s EXCEPT !.unlockAfter = now + s.unlockDelay]
        BY <2>1, <3>2 DEF DirectDisable
      <4>. QED
        BY <1>5, <3>2, <4>1 DEF Service!DisableResult, Service!Scheduled
    <3>3. CASE ~IsBackdoor(r.p) /\ ~CodeOk(r.p)
      <4>1. t = IF /\ recovery # "damaged" /\ ~CommitmentActive(s, now)
                   /\ PasswordOk(s, r.p)
                THEN [s EXCEPT !.enabled = FALSE] ELSE s
        BY <2>1, <3>3 DEF DirectDisable
      <4>. QED
        BY <1>5, <3>3, <4>1 DEF Service!DisableResult, Service!TurnedOff
    <3>. QED
      BY <3>1, <3>2, <3>3
  <2>3. bridge'.codes = IF ~IsBackdoor(r.p) /\ CodeOk(r.p)
                        THEN bridge.codes \cup {now + s.unlockDelay}
                        ELSE bridge.codes
    BY <1>1, <1>7 DEF CodesAfter, s
  <2>. QED
    BY <1>1, <1>2, <1>3, <1>5, <2>2, <2>3 DEF Service!Disable, s, t
<1>8. ASSUME r.cmd = "reset-password" PROVE Service!ResetPassword(r.code, r.p)
  <2>1. t = IF r.p \in ShortTexts \/ ~CodeOk(r.code) THEN s
            ELSE [s EXCEPT !.pw = r.p]
    BY <1>1, <1>8 DEF ToSave, DirectReset
  <2>2. bridge'.codes = bridge.codes
    BY <1>1, <1>8 DEF CodesAfter
  <2>. QED
    BY <1>1, <1>2, <1>3, <1>5, <2>1, <2>2 DEF Service!ResetPassword, s, t
<1>9. ASSUME r.cmd = "set-commitment" PROVE Service!SetCommitment(r.d, r.p)
  <2>. DEFINE May == /\ PasswordOk(s, r.p) /\ r.d > now
                     /\ CommitmentActive(s, now) => r.d >= s.until
  <2>1. r.d \in Nat /\ s.until \in Nat
    BY <1>4, <1>9, RequestFields DEF State
  <2>2. May <=> DirectCommitment(s, r) # {}
    BY <1>4, <2>1 DEF DirectCommitment, CommitmentActive
  <2>3. May => t = [s EXCEPT !.enabled = TRUE, !.until = r.d, !.unlockAfter = 0]
    BY <1>1, <1>9, <2>2 DEF ToSave, DirectCommitment
  <2>4. ~May => t = s
    BY <1>1, <1>9, <2>2 DEF ToSave
  <2>5. bridge'.codes = IF May THEN {} ELSE bridge.codes
    BY <1>1, <1>9, <2>2 DEF CodesAfter, ToSave, s
  <2>6. Service!MayCommit(s, r.d, r.p) <=> May
    BY <1>5 DEF Service!MayCommit
  <2>. HIDE DEF May
  <2>. QED
    BY <1>1, <1>2, <1>3, <2>3, <2>4, <2>5, <2>6
       DEF Service!SetCommitment, Service!Committed, s, t
<1>10. ASSUME r.cmd = "cancel-recovery-unlock" PROVE Service!CancelRecoveryUnlock
  <2>1. t = [s EXCEPT !.unlockAfter = 0]
    <3>1. s.unlockAfter = 0 => s = [s EXCEPT !.unlockAfter = 0]
      BY <1>4 DEF State
    <3>. QED
      BY <1>1, <1>10, <3>1 DEF ToSave, DirectCancel
  <2>2. bridge'.codes = {}
    BY <1>1, <1>10 DEF CodesAfter
  <2>. QED
    BY <1>1, <1>2, <1>3, <2>1, <2>2 DEF Service!CancelRecoveryUnlock, s, t
<1>11. ASSUME r.cmd = "set-duration" PROVE Service!SetDuration(r.m)
  <2>1. r.m \in DurationRange /\ r.m \in Nat /\ s.duration \in Nat
    BY <1>4, <1>11, RequestFields DEF State, DurationRange
  <2>2. t = IF Service!DurationAllowed(s, r.m) THEN [s EXCEPT !.duration = r.m]
            ELSE s
    <3>1. Service!DurationAllowed(s, r.m)
              <=> ~(CommitmentActive(s, now) /\ r.m < s.duration)
      BY <1>5, <2>1 DEF Service!DurationAllowed, Service!DurationRange,
         DurationRange
    <3>2. DirectDuration(s, r) =
              IF CommitmentActive(s, now) /\ r.m < s.duration THEN {}
              ELSE {[s EXCEPT !.duration = r.m]}
      BY DEF DirectDuration
    <3>3. (t = s /\ DirectDuration(s, r) = {}) \/ t \in DirectDuration(s, r)
      BY <1>1, <1>11 DEF ToSave
    <3>. QED
      BY <3>1, <3>2, <3>3
  <2>3. bridge'.codes = bridge.codes
    BY <1>1, <1>11 DEF CodesAfter
  <2>. QED
    BY <1>1, <1>2, <1>3, <2>2, <2>3 DEF Service!SetDuration, s, t
<1>12. \A p : Service!MayLoosen(s, p) <=>
                  ~CommitmentActive(s, now) /\ (s.enabled => PasswordOk(s, p))
  BY <1>5 DEF Service!MayLoosen
<1>13. ASSUME r.cmd = "set-anime-enabled"
       PROVE  Service!SetAnimeEnabled(r.on, r.ready, r.p)
  <2>1. t = IF Service!AnimeAllowed(s, r.on, r.ready, r.p)
            THEN [s EXCEPT !.anime = r.on] ELSE s
    BY <1>1, <1>12, <1>13 DEF ToSave, DirectAnime, Loosens,
       Service!AnimeAllowed
  <2>2. bridge'.codes = bridge.codes
    BY <1>1, <1>13 DEF CodesAfter
  <2>. QED
    BY <1>1, <1>2, <1>3, <2>1, <2>2 DEF Service!SetAnimeEnabled, s, t
<1>14. ASSUME r.cmd = "set-shutdown-after-lockout"
       PROVE  Service!SetShutdownAfterLockout(r.on, r.p)
  <2>1. t = IF Service!ShutdownAllowed(s, r.on, r.p)
            THEN [s EXCEPT !.shutdown = r.on] ELSE s
    BY <1>1, <1>12, <1>14 DEF ToSave, DirectShutdown, Loosens,
       Service!ShutdownAllowed
  <2>2. bridge'.codes = bridge.codes
    BY <1>1, <1>14 DEF CodesAfter
  <2>. QED
    BY <1>1, <1>2, <1>3, <2>1, <2>2 DEF Service!SetShutdownAfterLockout, s, t
<1>15. ASSUME r.cmd = "set-recovery-settings"
       PROVE  Service!SetRecoverySettings(r.delay, r.release, r.releaseDelay,
                                          r.uses, r.p)
  <2>1. LooserThan(s, r) <=> Service!LooserRecovery(s, r.delay, r.release,
                                                    r.releaseDelay, r.uses)
    BY DEF LooserThan, Service!LooserRecovery, Service!LooserUses,
       Service!Unlimited
  <2>2. Service!RecoveryAllowed(s, r.delay, r.release, r.releaseDelay, r.uses, r.p)
          <=> DirectRecovery(s, r) # {}
    BY <1>12, <2>1 DEF DirectRecovery, Loosens, Service!RecoveryAllowed,
       Service!UnlockDelayRange, UnlockDelayRange, Service!ReleaseDelayRange,
       ReleaseDelayRange, Service!UsesAllowed, UsesAllowed
  <2>3. t = IF DirectRecovery(s, r) = {} THEN s
            ELSE [s EXCEPT !.unlockDelay = r.delay, !.release = r.release,
                           !.releaseDelay = r.releaseDelay,
                           !.releaseUses = r.uses]
    BY <1>1, <1>15 DEF ToSave, DirectRecovery
  <2>4. bridge'.codes = bridge.codes
    BY <1>1, <1>15 DEF CodesAfter
  <2>. QED
    BY <1>1, <1>2, <1>3, <2>2, <2>3, <2>4 DEF Service!SetRecoverySettings, s, t
<1>16. ASSUME r.cmd = "set-sensitivity" PROVE Service!Status
  <2>1. t = s
    BY <1>1, <1>16 DEF ToSave
  <2>2. bridge'.codes = bridge.codes
    BY <1>1, <1>16 DEF CodesAfter
  <2>. QED
    BY <1>1, <1>2, <1>3, <2>1, <2>2 DEF Service!Status, s, t
<1>. QED
  BY <1>6, <1>7, <1>8, <1>9, <1>10, <1>11, <1>13, <1>14, <1>15, <1>16,
     RequestFields DEF ServiceDoes

LEMMA RepairIsServiceStep ==
    ASSUME BridgeInv, NEW code \in Texts, NEW p \in Texts, BridgeRepair(code, p)
    PROVE  Service!Repair(code, p)
<1>1. /\ bridge.pc = "repairing" /\ bridge'.pc = "rewriting"
      /\ bridge'.snap = NewState(p, TRUE) /\ bridge'.codes = {}
      /\ now' = now /\ recovery' = recovery /\ releases' = releases
      /\ p \notin ShortTexts /\ CodeOk(code)
  BY DEF BridgeRepair, BridgeInv, BridgeType, guardVars, vars
<1>2. releases = {}
  BY <1>1 DEF BridgeInv, BridgeType, HandsInv
<1>3. Service!NewState(p, TRUE) = NewState(p, TRUE)
  BY DEF Service!NewState, NewState
<1>. QED
  BY <1>1, <1>2, <1>3 DEF Service!Repair, Service!Untrusted, Service!CodeOk, CodeOk

\* Controller's second copy of the rules agrees with the service, for every
\* request, every record and every setting of the development override.
THEOREM ControllerDecidesAsService == BridgeSpec => DecidesAsService
<1>1. ASSUME BridgeInv, [BridgeNext]_bridgeVars,
             bridge.pc \in {"deciding", "repairing"}, ~UnlockDue(bridge.snap, now)
      PROVE  /\ \A r \in Requests : BridgeDecide(r) => ServiceDoes(r)
             /\ \A code, p \in Texts :
                    BridgeRepair(code, p) => Service!Repair(code, p)
  BY <1>1, DecideIsServiceStep, RepairIsServiceStep
<1>2. BridgeInv /\ [BridgeNext]_bridgeVars =>
        [bridge.pc \in {"deciding", "repairing"}
         /\ ~UnlockDue(bridge.snap, now) =>
            /\ \A r \in Requests : BridgeDecide(r) => ServiceDoes(r)
            /\ \A code, p \in Texts :
                   BridgeRepair(code, p) => Service!Repair(code, p)]_bridgeVars
  BY <1>1
<1>. QED
  BY <1>2, BridgeInvariant, PTL DEF BridgeSpec, DecidesAsService
=============================================================================
