----------------------- MODULE AgentSupervisionProofs -----------------------
(***************************************************************************)
(* Proofs about AgentSupervision, for every set of process ids and of      *)
(* sessions and any number of faults and of agents that users start.       *)
(***************************************************************************)
EXTENDS AgentSupervision, FiniteSetTheorems, TLAPS

\* A process that is an agent belongs to a session.
AgentsHaveSession ==
    \A p \in Pids : proc[p].is \in Agent => proc[p].session \in Sessions

\* An agent past the mutex has it, until it gives it up.
HoldersHold ==
    \A p \in Pids : proc[p].is \in Holding => mutex[proc[p].session] = p

\* A process that this run of the service has spawned is an agent, and the one
\* that the supervisor is about to remember or remembers.  So there is none
\* when it spawns the next.
OursIsWatched ==
    \A p \in Pids :
        proc[p].ours =>
            /\ proc[p].is \in Agent
            /\ sup.pc # "spawning"
            /\ sup.pc = "signing" => sup.child = p
            /\ sup.pc = "checking" => sup.spawned = p /\ sup.same

SupervisionInv ==
    TypeOK /\ AgentsHaveSession /\ HoldersHold /\ RunningIsAdvertised /\ OursIsWatched

-----------------------------------------------------------------------------
(* The machine's one session, where there is one. *)

\* Two sessions of a machine that has one are the same.
LEMMA SameSession ==
    ASSUME Cardinality(Sessions) = 1, NEW s \in Sessions, NEW t \in Sessions
    PROVE  s = t
BY SupervisionAssumption, FS_Singleton

\* At most one process has the mutex of a session.
LEMMA HoldersDiffer ==
    SupervisionInv => OneAgentPerSession
BY DEF SupervisionInv, HoldersHold, OneAgentPerSession

-----------------------------------------------------------------------------
(* Types. *)

\* The kinds of process are told apart.
LEMMA Kinds ==
    /\ Holding \subseteq Agent /\ Scanning \subseteq Holding
    /\ "free" \notin Agent /\ "stranger" \notin Agent
    /\ "starting" \notin Holding /\ "exiting" \notin Holding
    /\ Free \in Process /\ Stranger \in Process
BY DEF Agent, Holding, Scanning, Free, Stranger, Process

\* A process that ends leaves the types as they are.
LEMMA EndsType ==
    ASSUME TypeOK, NEW p \in Pids, Ends(p)
    PROVE  /\ proc' \in [Pids -> Process]
           /\ mutex' \in [Sessions -> Pids \cup {None}]
           /\ sup' \in [pc : {"checking", "spawning", "signing"},
                        child : Pids \cup {None}, spawned : Pids \cup {None},
                        same : BOOLEAN, backoff : BOOLEAN]
<1>1. proc' \in [Pids -> Process]
  BY Kinds DEF Ends, TypeOK
<1>2. mutex' \in [Sessions -> Pids \cup {None}]
  BY DEF Ends, TypeOK
<1>3. sup' \in [pc : {"checking", "spawning", "signing"},
                child : Pids \cup {None}, spawned : Pids \cup {None},
                same : BOOLEAN, backoff : BOOLEAN]
  BY DEF Ends, TypeOK
<1>. QED
  BY <1>1, <1>2, <1>3

\* So does an agent that goes on to its next phase.
LEMMA BecomesType ==
    ASSUME TypeOK, NEW p \in Pids, NEW phase \in Agent, Becomes(p, phase)
    PROVE  proc' \in [Pids -> Process]
BY DEF Becomes, TypeOK, Process

\* Every step of every process keeps the types.
LEMMA TypeStep == TypeOK /\ [Next]_vars => TypeOK'
<1>. SUFFICES ASSUME TypeOK, [Next]_vars PROVE TypeOK'
  OBVIOUS
<1>. USE DEF TypeOK
<1>0. FreshSupervisor \in [pc : {"checking", "spawning", "signing"},
                           child : Pids \cup {None}, spawned : Pids \cup {None},
                           same : BOOLEAN, backoff : BOOLEAN]
  BY DEF FreshSupervisor
<1>f. Fault => faults' \in 0..MaxFaults
  BY SupervisionAssumption DEF Fault
<1>1. CASE SupCheck
  BY <1>1 DEF SupCheck, Checks
<1>2. ASSUME NEW p \in Pids, SupSpawn(p) PROVE TypeOK'
  <2>1. proc' \in [Pids -> Process]
    BY <1>2 DEF SupSpawn, Process, Agent
  <2>2. sup'.child = p /\ sup' = [sup EXCEPT !.pc = "signing", !.child = p]
    BY <1>2 DEF SupSpawn
  <2>. QED
    BY <1>2, <2>1, <2>2 DEF SupSpawn
<1>3. CASE SupSpawnFails
  BY <1>3, <1>f DEF SupSpawnFails, Checks
<1>4. CASE SupSign
  <2>1. Exists(sup.child) \in BOOLEAN
    BY DEF Exists
  <2>2. sup' = [sup EXCEPT !.pc = "checking", !.child = None,
                           !.spawned = IF Exists(sup.child) THEN sup.child
                                       ELSE None,
                           !.same = Exists(sup.child)]
    BY <1>4 DEF SupSign
  <2>. QED
    BY <1>4, <2>1, <2>2 DEF SupSign
<1>5. CASE BackoffEnds
  BY <1>5 DEF BackoffEnds
<1>6. ASSUME NEW p \in Pids, Acquire(p) PROVE TypeOK'
  <2>1. CASE MayRun(p)
    BY <1>6, <2>1, BecomesType DEF Acquire, Agent
  <2>2. CASE ~MayRun(p)
    BY <1>6, <2>2, EndsType DEF Acquire
  <2>. QED
    BY <2>1, <2>2
<1>7. ASSUME NEW p \in Pids, WritePid(p) PROVE TypeOK'
  BY <1>7, BecomesType DEF WritePid, Agent
<1>8. ASSUME NEW p \in Pids, WritePidFails(p) PROVE TypeOK'
  BY <1>8, <1>f, BecomesType DEF WritePidFails, Agent
<1>9. ASSUME NEW p \in Pids, Leave(p) PROVE TypeOK'
  <2>1. proc' \in [Pids -> Process]
    BY <1>9, BecomesType DEF Leave, Agent
  <2>. QED
    BY <1>9, <1>f, <2>1 DEF Leave
<1>10. ASSUME NEW p \in Pids, ClearPid(p) PROVE TypeOK'
  BY <1>10, BecomesType DEF ClearPid, Agent
<1>11. ASSUME NEW p \in Pids, Release(p) PROVE TypeOK'
  BY <1>11, BecomesType DEF Release, Agent
<1>12. ASSUME NEW p \in Pids, Exit(p) PROVE TypeOK'
  BY <1>12, EndsType DEF Exit
<1>13. ASSUME NEW p \in Pids, NEW s \in Sessions, UserStart(p, s) PROVE TypeOK'
  <2>1. proc' \in [Pids -> Process]
    BY <1>13 DEF UserStart, Process, Agent
  <2>2. starts' \in 0..MaxStarts
    BY <1>13, SupervisionAssumption DEF UserStart
  <2>. QED
    BY <1>13, <2>1, <2>2 DEF UserStart
<1>14. ASSUME NEW p \in Pids, Kill(p) PROVE TypeOK'
  BY <1>14, <1>f, EndsType DEF Kill
<1>15. ASSUME NEW p \in Pids, PidReused(p) PROVE TypeOK'
  BY <1>15, <1>f, Kinds DEF PidReused
<1>16. ASSUME NEW p \in Pids, StrangerEnds(p) PROVE TypeOK'
  BY <1>16, EndsType DEF StrangerEnds
<1>17. ASSUME NEW s \in Sessions \cup {None}, SwitchSession(s) PROVE TypeOK'
  BY <1>17, <1>f DEF SwitchSession
<1>18. CASE ServiceStops
  <2>1. proc' \in [Pids -> Process]
    BY <1>18 DEF ServiceStops, Process
  <2>. QED
    BY <1>18, <1>0, <1>f, <2>1 DEF ServiceStops
<1>19. CASE WatchdogStops
  BY <1>19, <1>f DEF WatchdogStops
<1>20. CASE ServiceRestarts
  BY <1>20 DEF ServiceRestarts
<1>21. CASE WatchdogRestarts
  BY <1>21 DEF WatchdogRestarts
<1>22. CASE UNCHANGED vars
  BY <1>22 DEF vars
<1>. QED
  BY <1>1, <1>2, <1>3, <1>4, <1>5, <1>6, <1>7, <1>8, <1>9, <1>10, <1>11,
     <1>12, <1>13, <1>14, <1>15, <1>16, <1>17, <1>18, <1>19, <1>20, <1>21,
     <1>22 DEF Next, SupStep, AgentStep

-----------------------------------------------------------------------------
(* The mutex. *)

\* A process that ends takes its mutex with it and no other one.
LEMMA EndsHolders ==
    ASSUME TypeOK, AgentsHaveSession, HoldersHold, NEW p \in Pids, Ends(p)
    PROVE  AgentsHaveSession' /\ HoldersHold'
<1>1. proc'[p] = Free /\ \A q \in Pids : q # p => proc'[q] = proc[q]
  BY DEF Ends, TypeOK
<1>2. AgentsHaveSession'
  BY <1>1, Kinds DEF AgentsHaveSession, Free
<1>3. ASSUME NEW q \in Pids, proc'[q].is \in Holding
      PROVE  mutex'[proc'[q].session] = q
  <2>1. q # p /\ proc'[q] = proc[q]
    BY <1>1, <1>3, Kinds DEF Free
  <2>2. proc[q].session \in Sessions /\ mutex[proc[q].session] = q
    BY <1>3, <2>1, Kinds DEF AgentsHaveSession, HoldersHold
  <2>. QED
    BY <2>1, <2>2 DEF Ends
<1>. QED
  BY <1>2, <1>3 DEF HoldersHold

\* An agent that goes on keeps its mutex, or no longer needs it.
LEMMA BecomesHolders ==
    ASSUME TypeOK, AgentsHaveSession, HoldersHold, NEW p \in Pids,
           NEW phase \in Agent, Becomes(p, phase), proc[p].is \in Agent,
           phase \in Holding => proc[p].is \in Holding, UNCHANGED mutex
    PROVE  AgentsHaveSession' /\ HoldersHold'
<1>1. proc'[p].is = phase /\ proc'[p].session = proc[p].session
  BY DEF Becomes, TypeOK, Process
<1>2. \A q \in Pids : q # p => proc'[q] = proc[q]
  BY DEF Becomes, TypeOK
<1>. QED
  BY <1>1, <1>2 DEF AgentsHaveSession, HoldersHold

\* A process that starts does not hold the mutex.
LEMMA StartsHolders ==
    ASSUME TypeOK, AgentsHaveSession, HoldersHold, NEW p \in Pids,
           NEW new \in Process, proc' = [proc EXCEPT ![p] = new],
           new.is \notin Holding, new.is \in Agent => new.session \in Sessions,
           UNCHANGED mutex
    PROVE  AgentsHaveSession' /\ HoldersHold'
<1>1. proc'[p] = new /\ \A q \in Pids : q # p => proc'[q] = proc[q]
  BY DEF TypeOK
<1>. QED
  BY <1>1 DEF AgentsHaveSession, HoldersHold

\* Only Acquire gives a mutex to a process, and only to one that finds it free.
LEMMA HoldersStep ==
    TypeOK /\ AgentsHaveSession /\ HoldersHold /\ [Next]_vars
        => AgentsHaveSession' /\ HoldersHold'
<1>. SUFFICES ASSUME TypeOK, AgentsHaveSession, HoldersHold, [Next]_vars
              PROVE  AgentsHaveSession' /\ HoldersHold'
  OBVIOUS
<1>0. ASSUME UNCHANGED <<proc, mutex>> PROVE AgentsHaveSession' /\ HoldersHold'
  BY <1>0 DEF AgentsHaveSession, HoldersHold
<1>1. CASE SupCheck \/ SupSpawnFails \/ SupSign \/ BackoffEnds \/ UNCHANGED vars
  BY <1>0, <1>1 DEF SupCheck, SupSpawnFails, SupSign, BackoffEnds, vars
<1>2. ASSUME NEW p \in Pids, SupSpawn(p)
      PROVE  AgentsHaveSession' /\ HoldersHold'
  <2>. DEFINE new == [is |-> "starting", session |-> active, ours |-> TRUE]
  <2>1. active \in Sessions
    BY <1>2 DEF SupSpawn, TypeOK
  <2>2. new \in Process /\ new.is \notin Holding /\ new.session \in Sessions
    BY <2>1, Kinds DEF Process, Agent
  <2>. QED
    BY <1>2, <2>2, StartsHolders DEF SupSpawn
<1>3. ASSUME NEW p \in Pids, Acquire(p)
      PROVE  AgentsHaveSession' /\ HoldersHold'
  <2>1. CASE MayRun(p)
    <3>1. proc[p].is = "starting" /\ proc[p].session \in Sessions
      BY <1>3 DEF Acquire, AgentsHaveSession, Agent
    <3>2. /\ proc'[p].is = "locked" /\ proc'[p].session = proc[p].session
          /\ \A q \in Pids : q # p => proc'[q] = proc[q]
      BY <1>3, <2>1 DEF Acquire, Becomes, TypeOK, Process
    <3>3. /\ mutex' = [mutex EXCEPT ![proc[p].session] = p]
          /\ mutex[proc[p].session] = None
      BY <1>3, <2>1 DEF Acquire, MayRun
    <3>4. AgentsHaveSession'
      BY <3>1, <3>2 DEF AgentsHaveSession
    <3>5. ASSUME NEW q \in Pids, q # p, proc'[q].is \in Holding
          PROVE  mutex'[proc'[q].session] = q
      <4>1. mutex[proc[q].session] = q
        BY <3>2, <3>5 DEF HoldersHold
      <4>2. proc[q].session # proc[p].session
        BY <3>3, <4>1, SupervisionAssumption
      <4>. QED
        BY <3>2, <3>3, <3>5, <4>1, <4>2 DEF TypeOK
    <3>6. mutex'[proc'[p].session] = p
      BY <3>1, <3>2, <3>3 DEF TypeOK
    <3>. QED
      BY <3>4, <3>5, <3>6 DEF HoldersHold
  <2>2. CASE ~MayRun(p)
    BY <1>3, <2>2, EndsHolders DEF Acquire
  <2>. QED
    BY <2>1, <2>2
<1>4. ASSUME NEW p \in Pids, WritePid(p)
      PROVE  AgentsHaveSession' /\ HoldersHold'
  BY <1>4, BecomesHolders DEF WritePid, Agent, Holding
<1>5. ASSUME NEW p \in Pids, WritePidFails(p)
      PROVE  AgentsHaveSession' /\ HoldersHold'
  BY <1>5, BecomesHolders DEF WritePidFails, Agent, Holding
<1>6. ASSUME NEW p \in Pids, Leave(p)
      PROVE  AgentsHaveSession' /\ HoldersHold'
  <2>1. proc[p].is \in Agent /\ proc[p].is \in Holding
    BY <1>6, Kinds DEF Leave
  <2>2. PICK phase \in {"clearing", "releasing"} : Becomes(p, phase)
    BY <1>6 DEF Leave
  <2>. QED
    BY <1>6, <2>1, <2>2, BecomesHolders DEF Leave, Agent
<1>7. ASSUME NEW p \in Pids, ClearPid(p)
      PROVE  AgentsHaveSession' /\ HoldersHold'
  BY <1>7, BecomesHolders DEF ClearPid, Agent, Holding
<1>8. ASSUME NEW p \in Pids, Release(p)
      PROVE  AgentsHaveSession' /\ HoldersHold'
  <2>1. proc[p].session \in Sessions /\ mutex[proc[p].session] = p
    BY <1>8 DEF Release, AgentsHaveSession, HoldersHold, Agent, Holding
  <2>2. /\ proc'[p].is = "exiting" /\ proc'[p].session = proc[p].session
        /\ \A q \in Pids : q # p => proc'[q] = proc[q]
    BY <1>8 DEF Release, Becomes, TypeOK, Process
  <2>3. AgentsHaveSession'
    BY <2>1, <2>2 DEF AgentsHaveSession
  <2>4. ASSUME NEW q \in Pids, proc'[q].is \in Holding
        PROVE  mutex'[proc'[q].session] = q
    <3>1. q # p /\ mutex[proc[q].session] = q /\ proc[q].session # proc[p].session
      BY <2>1, <2>2, <2>4, Kinds DEF HoldersHold
    <3>. QED
      BY <1>8, <2>2, <3>1, Kinds DEF Release, TypeOK, AgentsHaveSession
  <2>. QED
    BY <2>3, <2>4 DEF HoldersHold
<1>9. ASSUME NEW p \in Pids, Exit(p) \/ Kill(p) \/ StrangerEnds(p)
      PROVE  AgentsHaveSession' /\ HoldersHold'
  BY <1>9, EndsHolders DEF Exit, Kill, StrangerEnds
<1>10. ASSUME NEW p \in Pids, NEW s \in Sessions, UserStart(p, s)
       PROVE  AgentsHaveSession' /\ HoldersHold'
  <2>. DEFINE new == [is |-> "starting", session |-> s, ours |-> FALSE]
  <2>1. new \in Process /\ new.is \notin Holding /\ new.session \in Sessions
    BY Kinds DEF Process, Agent
  <2>. QED
    BY <1>10, <2>1, StartsHolders DEF UserStart
<1>11. ASSUME NEW p \in Pids, PidReused(p)
       PROVE  AgentsHaveSession' /\ HoldersHold'
  <2>1. Stranger.is \notin Agent
    BY Kinds DEF Stranger
  <2>. QED
    BY <1>11, <2>1, Kinds, StartsHolders DEF PidReused
<1>12. ASSUME NEW s \in Sessions \cup {None}, SwitchSession(s)
       PROVE  AgentsHaveSession' /\ HoldersHold'
  BY <1>0, <1>12 DEF SwitchSession
<1>13. CASE ServiceStops
  <2>1. \A p \in Pids : /\ proc'[p].is = proc[p].is
                        /\ proc'[p].session = proc[p].session
    BY <1>13 DEF ServiceStops, TypeOK, Process
  <2>. QED
    BY <1>13, <2>1 DEF ServiceStops, AgentsHaveSession, HoldersHold
<1>14. CASE WatchdogStops \/ ServiceRestarts \/ WatchdogRestarts
  BY <1>0, <1>14 DEF WatchdogStops, ServiceRestarts, WatchdogRestarts
<1>. QED
  BY <1>1, <1>2, <1>3, <1>4, <1>5, <1>6, <1>7, <1>8, <1>9, <1>10, <1>11,
     <1>12, <1>13, <1>14 DEF Next, SupStep, AgentStep

-----------------------------------------------------------------------------
(* agent.pid. *)

\* The file changes only as an agent that has the mutex writes or removes it.
LEMMA AdvertisedStep ==
    SupervisionInv /\ [Next]_vars => RunningIsAdvertised'
<1>. SUFFICES ASSUME SupervisionInv, [Next]_vars, Cardinality(Sessions) = 1,
                     NEW q \in Pids, proc'[q].is = "running"
              PROVE  pidFile' = q
  BY DEF RunningIsAdvertised
<1>. USE DEF SupervisionInv
<1>0. TypeOK' /\ HoldersHold' /\ AgentsHaveSession'
  BY TypeStep, HoldersStep
<1>1. ASSUME UNCHANGED pidFile, proc[q].is = "running" PROVE pidFile' = q
  BY <1>1 DEF RunningIsAdvertised
<1>2. ASSUME NEW p \in Pids, p # q, \A r \in Pids : r # p => proc'[r] = proc[r],
             proc[p].is \in Holding
      PROVE  FALSE
  <2>1. proc[q].is \in Holding /\ proc[q].session = proc[p].session
    <3>1. proc[q].is = "running"
      BY <1>2
    <3>2. proc[q].session \in Sessions /\ proc[p].session \in Sessions
      BY <1>2, <3>1, Kinds DEF AgentsHaveSession, Agent
    <3>. QED
      BY <3>1, <3>2, SameSession DEF Holding
  <2>. QED
    BY <1>2, <2>1 DEF HoldersHold
<1>3. ASSUME NEW p \in Pids, WritePid(p) PROVE pidFile' = q
  <2>1. pidFile' = p /\ proc[p].is \in Holding
    BY <1>3 DEF WritePid, Holding
  <2>2. \A r \in Pids : r # p => proc'[r] = proc[r]
    BY <1>3 DEF WritePid, Becomes, TypeOK
  <2>. QED
    BY <1>2, <2>1, <2>2
<1>4. ASSUME NEW p \in Pids, ClearPid(p) PROVE pidFile' = q
  <2>1. proc'[p].is = "releasing" /\ proc[p].is \in Holding
    BY <1>4 DEF ClearPid, Becomes, TypeOK, Process, Holding
  <2>2. \A r \in Pids : r # p => proc'[r] = proc[r]
    BY <1>4 DEF ClearPid, Becomes, TypeOK
  <2>. QED
    BY <1>2, <2>1, <2>2
<1>5. ASSUME NEW p \in Pids, NEW phase, phase # "running", Becomes(p, phase),
             UNCHANGED pidFile
      PROVE  pidFile' = q
  <2>1. proc'[p].is = phase /\ \A r \in Pids : r # p => proc'[r] = proc[r]
    BY <1>5 DEF Becomes, TypeOK, Process
  <2>. QED
    BY <1>1, <1>5, <2>1
<1>6. ASSUME NEW p \in Pids, NEW new, new.is # "running",
             proc' = [proc EXCEPT ![p] = new], UNCHANGED pidFile
      PROVE  pidFile' = q
  <2>1. proc'[p] = new /\ \A r \in Pids : r # p => proc'[r] = proc[r]
    BY <1>6 DEF TypeOK
  <2>. QED
    BY <1>1, <1>6, <2>1
<1>7. Free.is # "running" /\ Stranger.is # "running"
  BY DEF Free, Stranger
<1>8. ASSUME NEW p \in Pids, SupSpawn(p) \/ \E s \in Sessions : UserStart(p, s)
      PROVE  pidFile' = q
  BY <1>6, <1>8 DEF SupSpawn, UserStart
<1>9. ASSUME NEW p \in Pids, Acquire(p) PROVE pidFile' = q
  BY <1>5, <1>6, <1>7, <1>9 DEF Acquire, Ends
<1>10. ASSUME NEW p \in Pids, WritePidFails(p) \/ Leave(p) \/ Release(p)
       PROVE  pidFile' = q
  BY <1>5, <1>10 DEF WritePidFails, Leave, Release
<1>11. ASSUME NEW p \in Pids,
              Exit(p) \/ Kill(p) \/ StrangerEnds(p) \/ PidReused(p)
       PROVE  pidFile' = q
  BY <1>6, <1>7, <1>11 DEF Exit, Kill, StrangerEnds, PidReused, Ends
<1>12. CASE ServiceStops
  <2>1. proc[q].is = "running"
    BY <1>12 DEF ServiceStops, TypeOK, Process
  <2>. QED
    BY <1>1, <1>12, <2>1 DEF ServiceStops
<1>13. ASSUME \/ SupCheck \/ SupSpawnFails \/ SupSign \/ BackoffEnds
              \/ \E s \in Sessions \cup {None} : SwitchSession(s)
              \/ WatchdogStops \/ ServiceRestarts \/ WatchdogRestarts
              \/ UNCHANGED vars
       PROVE  pidFile' = q
  <2>1. UNCHANGED <<proc, pidFile>>
    BY <1>13 DEF SupCheck, SupSpawnFails, SupSign, BackoffEnds, SwitchSession,
       WatchdogStops, ServiceRestarts, WatchdogRestarts, vars
  <2>. QED
    BY <1>1, <2>1
<1>. QED
  BY <1>3, <1>4, <1>8, <1>9, <1>10, <1>11, <1>12, <1>13
     DEF Next, SupStep, AgentStep

-----------------------------------------------------------------------------
(* The supervisor. *)

\* What the supervisor watches stays watched while it only goes on living.
LEMMA OursStep ==
    SupervisionInv /\ [Next]_vars => OursIsWatched'
<1>. SUFFICES ASSUME SupervisionInv, [Next]_vars, NEW q \in Pids, proc'[q].ours
              PROVE  /\ proc'[q].is \in Agent
                     /\ sup'.pc # "spawning"
                     /\ sup'.pc = "signing" => sup'.child = q
                     /\ sup'.pc = "checking" => sup'.spawned = q /\ sup'.same
  BY DEF OursIsWatched
<1>. DEFINE Watched == /\ proc'[q].is \in Agent
                       /\ sup'.pc # "spawning"
                       /\ sup'.pc = "signing" => sup'.child = q
                       /\ sup'.pc = "checking" => sup'.spawned = q /\ sup'.same
<1>. USE DEF SupervisionInv
<1>0. ASSUME proc[q].ours, proc'[q].is \in Agent, UNCHANGED sup PROVE Watched
  BY <1>0 DEF OursIsWatched
<1>1. ASSUME NEW p \in Pids, Ends(p) PROVE Watched
  <2>1. proc'[p].ours = FALSE /\ \A r \in Pids : r # p => proc'[r] = proc[r]
    BY <1>1 DEF Ends, Free, TypeOK
  <2>2. p # q /\ proc'[q] = proc[q] /\ proc[q].ours
    BY <2>1
  <2>3. /\ proc[q].is \in Agent /\ sup.pc # "spawning"
        /\ sup.pc = "signing" => sup.child = q
        /\ sup.pc = "checking" => sup.spawned = q /\ sup.same
    BY <2>2 DEF OursIsWatched
  <2>4. /\ sup'.pc = sup.pc /\ sup'.child = sup.child /\ sup'.spawned = sup.spawned
        /\ sup.spawned = q => sup' = sup
    BY <1>1, <2>2 DEF Ends, TypeOK
  <2>. QED
    BY <2>2, <2>3, <2>4
<1>2. ASSUME NEW p \in Pids, NEW phase \in Agent, Becomes(p, phase), UNCHANGED sup
      PROVE  Watched
  <2>1. proc'[q].ours = proc[q].ours /\ (proc[q].is \in Agent => proc'[q].is \in Agent)
    BY <1>2 DEF Becomes, TypeOK, Process
  <2>2. proc[q].ours /\ proc[q].is \in Agent
    BY <2>1 DEF OursIsWatched
  <2>. QED
    BY <1>0, <1>2, <2>1, <2>2
<1>3. ASSUME NEW p \in Pids, NEW new, new.ours = FALSE,
             proc' = [proc EXCEPT ![p] = new], UNCHANGED sup
      PROVE  Watched
  <2>1. q # p /\ proc'[q] = proc[q]
    BY <1>3 DEF TypeOK
  <2>. QED
    BY <1>0, <1>3, <2>1 DEF OursIsWatched
<1>4. CASE SupCheck
  <2>1. proc[q].ours /\ proc'[q] = proc[q]
    BY <1>4 DEF SupCheck
  <2>2. proc[q].is \in Agent /\ sup.spawned = q /\ sup.same
    BY <1>4, <2>1 DEF SupCheck, Checks, OursIsWatched
  <2>3. SpawnedAlive
    BY <2>2, Kinds, SupervisionAssumption DEF SpawnedAlive, Exists
  <2>4. UNCHANGED sup
    BY <1>4, <2>3 DEF SupCheck
  <2>. QED
    BY <1>0, <2>1, <2>2, <2>4
<1>5. ASSUME NEW p \in Pids, SupSpawn(p) PROVE Watched
  <2>1. /\ sup.pc = "spawning" /\ sup'.pc = "signing" /\ sup'.child = p
        /\ proc'[p].is = "starting"
        /\ \A r \in Pids : r # p => proc'[r] = proc[r]
    BY <1>5 DEF SupSpawn, Checks, TypeOK
  <2>2. q = p
    BY <2>1 DEF OursIsWatched
  <2>. QED
    BY <2>1, <2>2 DEF Agent
<1>6. CASE SupSpawnFails
  <2>1. proc[q].ours /\ sup.pc = "spawning"
    BY <1>6 DEF SupSpawnFails, Checks
  <2>. QED
    BY <2>1 DEF OursIsWatched
<1>7. CASE SupSign
  <2>1. /\ proc[q].ours /\ proc'[q] = proc[q] /\ sup.pc = "signing"
    BY <1>7 DEF SupSign, Checks
  <2>2. proc[q].is \in Agent /\ sup.child = q
    BY <2>1 DEF OursIsWatched
  <2>3. Exists(sup.child)
    BY <2>2, Kinds, SupervisionAssumption DEF Exists
  <2>4. sup'.pc = "checking" /\ sup'.spawned = q /\ sup'.same
    BY <1>7, <2>2, <2>3 DEF SupSign, TypeOK
  <2>. QED
    BY <2>1, <2>2, <2>4
<1>8. CASE BackoffEnds
  <2>1. /\ proc[q].ours /\ proc'[q] = proc[q]
        /\ sup'.pc = sup.pc /\ sup'.child = sup.child
        /\ sup'.spawned = sup.spawned /\ sup'.same = sup.same
    BY <1>8 DEF BackoffEnds, TypeOK
  <2>. QED
    BY <2>1 DEF OursIsWatched
<1>9. ASSUME NEW p \in Pids, Acquire(p) PROVE Watched
  BY <1>1, <1>2, <1>9 DEF Acquire, Agent
<1>10. ASSUME NEW p \in Pids, AgentStep(p) \/ WritePidFails(p) PROVE Watched
  BY <1>1, <1>2, <1>9, <1>10 DEF AgentStep, WritePid, WritePidFails, ClearPid,
     Release, Exit, Agent
<1>11. ASSUME NEW p \in Pids, Leave(p) PROVE Watched
  BY <1>2, <1>11 DEF Leave, Agent
<1>12. ASSUME NEW p \in Pids, Kill(p) \/ StrangerEnds(p) PROVE Watched
  BY <1>1, <1>12 DEF Kill, StrangerEnds
<1>13. ASSUME NEW p \in Pids, PidReused(p) \/ \E s \in Sessions : UserStart(p, s)
       PROVE  Watched
  BY <1>3, <1>13 DEF PidReused, Stranger, UserStart
<1>14. CASE ServiceStops
  BY <1>14 DEF ServiceStops, TypeOK, Process
<1>15. ASSUME \/ \E s \in Sessions \cup {None} : SwitchSession(s)
              \/ WatchdogStops \/ ServiceRestarts \/ WatchdogRestarts
              \/ UNCHANGED vars
       PROVE  Watched
  <2>1. UNCHANGED <<proc, sup>>
    BY <1>15 DEF SwitchSession, WatchdogStops, ServiceRestarts,
       WatchdogRestarts, vars
  <2>. QED
    BY <1>0, <2>1 DEF OursIsWatched
<1>. QED
  BY <1>4, <1>5, <1>6, <1>7, <1>8, <1>10, <1>11, <1>12, <1>13, <1>14, <1>15
     DEF Next, SupStep

\* Two processes of this run cannot both be the one that is watched.
LEMMA WatchedIsOne ==
    SupervisionInv => NoChurn
<1>. SUFFICES ASSUME SupervisionInv PROVE NoChurn
  OBVIOUS
<1>. DEFINE ours == {p \in Pids : proc[p].ours}
<1>1. \A p, q \in ours : p = q
  BY DEF SupervisionInv, OursIsWatched, TypeOK
<1>2. CASE ours = {}
  BY <1>2, FS_EmptySet DEF NoChurn
<1>3. CASE ours # {}
  <2>1. PICK p : ours = {p}
    BY <1>1, <1>3
  <2>2. Cardinality(ours) = 1
    BY <2>1, FS_Singleton
  <2>. QED
    BY <2>2 DEF NoChurn
<1>. QED
  BY <1>2, <1>3

-----------------------------------------------------------------------------
(* The theorems. *)

\* Nothing runs at first.
LEMMA SupervisionInit == Init => SupervisionInv
<1>. SUFFICES ASSUME Init PROVE SupervisionInv
  OBVIOUS
<1>1. TypeOK
  BY Kinds, SupervisionAssumption DEF Init, TypeOK, FreshSupervisor
<1>2. \A p \in Pids : proc[p].is = "free" /\ proc[p].ours = FALSE
  BY DEF Init, Free
<1>. QED
  BY <1>1, <1>2, Kinds DEF SupervisionInv, AgentsHaveSession, HoldersHold,
     RunningIsAdvertised, OursIsWatched

\* The inductive invariant: types, sessions, the mutex, agent.pid and what the
\* supervisor watches.
THEOREM SupervisionInvariant == Spec => []SupervisionInv
<1>1. SupervisionInv /\ [Next]_vars => SupervisionInv'
  BY TypeStep, HoldersStep, AdvertisedStep, OursStep DEF SupervisionInv
<1>. QED
  BY <1>1, SupervisionInit, PTL DEF Spec

\* Every variable keeps its type.
THEOREM TypesKept == Spec => []TypeOK
BY SupervisionInvariant, PTL DEF SupervisionInv

\* The mutex lets one agent of a session run, in every order in which agents
\* start, leave, are killed and are started again (SingleInstanceLock).
THEOREM AgentsNeverStack == Spec => []OneAgentPerSession
BY SupervisionInvariant, HoldersDiffer, PTL

\* Where there is one session, agent.pid names the agent that runs: nobody
\* else's end removes it (_write_pid and _clear_pid).
THEOREM AdvertisedWhileRunning == Spec => []RunningIsAdvertised
BY SupervisionInvariant, PTL DEF SupervisionInv

\* The supervisor has at most one live agent of its own, however slowly it
\* starts and whichever pids are given out again (_agent_supervisor).
THEOREM NeverChurns == Spec => []NoChurn
BY SupervisionInvariant, WatchedIsOne, PTL
=============================================================================
