-------------------------- MODULE AgentSupervision --------------------------
(***************************************************************************)
(* Keeping an agent running: the service's supervisor thread               *)
(* (brake/service/windows_service.py), the agents with their session mutex *)
(* and agent.pid (brake/agent/main.py, brake/single_instance.py) and the   *)
(* watchdog service (brake/watchdog/watchdog_service.py).                  *)
(*                                                                         *)
(* A process is its pid while it lives; a free pid can be given to another *)
(* program.  Every process takes its steps by itself and can be killed     *)
(* between any two of them, which frees its mutex and leaves its file.     *)
(***************************************************************************)
EXTENDS Naturals, FiniteSets

CONSTANTS
    Pids,
    Sessions,      \* the logon sessions of the machine
    None,          \* no process, no session
    MaxFaults,     \* bound on kills, failed calls and reused pids
    MaxStarts      \* bound on the agents that users start

ASSUME SupervisionAssumption ==
    /\ IsFiniteSet(Sessions)
    /\ None \notin Pids \cup Sessions
    /\ MaxFaults \in Nat /\ MaxStarts \in Nat

VARIABLES
    proc,      \* what runs under each pid: [is, session, ours]; ours is
               \* history, whether this run of the service has spawned it
    mutex,     \* who holds AGENT_MUTEX_NAME in each session
    pidFile,   \* the pid in agent.pid, None if it is absent or unreadable
    active,    \* the console session, None at the login screen
    service,   \* are the services running?
    watchdog,
    sup,       \* the supervisor: [pc, child, spawned, same, backoff]; spawned
               \* and same are spawned_signature, its pid and whether the
               \* process of that create time still has it; backoff is the
               \* time since last_attempt, in or out of the limit
    faults, starts

vars == <<proc, mutex, pidFile, active, service, watchdog, sup, faults, starts>>

\* An agent imports its modules, holds the mutex, has written its pid (or has
\* failed to), and on its way out removes the file if it is its own, gives the
\* mutex up and ends.
Agent == {"starting", "locked", "running", "silent", "clearing", "releasing",
          "exiting"}
Holding == {"locked", "running", "silent", "clearing", "releasing"}
Scanning == {"running", "silent"}

Process == [is : Agent \cup {"free", "stranger"},
            session : Sessions \cup {None}, ours : BOOLEAN]

Free == [is |-> "free", session |-> None, ours |-> FALSE]
Stranger == [is |-> "stranger", session |-> None, ours |-> FALSE]

FreshSupervisor == [pc |-> "checking", child |-> None, spawned |-> None,
                    same |-> FALSE, backoff |-> FALSE]

Init ==
    /\ proc = [p \in Pids |-> Free]
    /\ mutex = [s \in Sessions |-> None]
    /\ pidFile = None
    /\ active \in Sessions \cup {None}
    /\ service = TRUE /\ watchdog = TRUE
    /\ sup = FreshSupervisor
    /\ faults = 0 /\ starts = 0

Fault == faults < MaxFaults /\ faults' = faults + 1

\* The process under p ends: Windows closes its handle of the mutex, and its
\* create time will not come again.
Ends(p) ==
    /\ proc' = [proc EXCEPT ![p] = Free]
    /\ mutex' = [s \in Sessions |-> IF mutex[s] = p THEN None ELSE mutex[s]]
    /\ sup' = IF sup.spawned = p THEN [sup EXCEPT !.same = FALSE] ELSE sup

Becomes(p, phase) == proc' = [proc EXCEPT ![p].is = phase]

-----------------------------------------------------------------------------
(* The supervisor: _agent_supervisor, which starts over with the service.  *)

Exists(p) == p # None /\ proc[p].is # "free"

\* _agent_running: pid_exists of the pid in the file, whoever has it now.
AgentRunning == Exists(pidFile)

\* Mutant: only agent.pid tells whether an agent is there.
SpawnedForgotten == FALSE

\* Mutant: the pid alone tells, without its create time.
SpawnedByPid == Exists(sup.spawned)

\* _spawned_agent_alive.
SpawnedAlive == Exists(sup.spawned) /\ sup.same

Checks(pc) == service /\ sup.pc = pc

\* One pass, a second after the last: nothing to do, or the time to try.
SupCheck ==
    /\ Checks("checking")
    /\ sup' = IF AgentRunning \/ SpawnedAlive \/ sup.backoff THEN sup
              ELSE [sup EXCEPT !.pc = "spawning", !.backoff = TRUE]
    /\ UNCHANGED <<proc, mutex, pidFile, active, service, watchdog, faults,
                   starts>>

\* spawn_in_user_session: nothing to spawn into at the login screen.
SupSpawn(p) ==
    /\ Checks("spawning") /\ active # None /\ proc[p].is = "free"
    /\ proc' = [proc EXCEPT ![p] = [is |-> "starting", session |-> active,
                                    ours |-> TRUE]]
    /\ sup' = [sup EXCEPT !.pc = "signing", !.child = p]
    /\ UNCHANGED <<mutex, pidFile, active, service, watchdog, faults, starts>>

SupSpawnFails ==
    /\ Checks("spawning")
    /\ IF active = None THEN UNCHANGED faults ELSE Fault
    /\ sup' = [sup EXCEPT !.pc = "checking"]
    /\ UNCHANGED <<proc, mutex, pidFile, active, service, watchdog, starts>>

\* _process_signature of the pid that the spawn returned: by now its process
\* may be gone, and its pid another's.
SupSign ==
    /\ Checks("signing")
    /\ sup' = [sup EXCEPT !.pc = "checking", !.child = None,
                          !.spawned = IF Exists(sup.child) THEN sup.child
                                      ELSE None,
                          !.same = Exists(sup.child)]
    /\ UNCHANGED <<proc, mutex, pidFile, active, service, watchdog, faults,
                   starts>>

\* SPAWN_BACKOFF_SECONDS have passed.
BackoffEnds ==
    /\ sup.backoff
    /\ sup' = [sup EXCEPT !.backoff = FALSE]
    /\ UNCHANGED <<proc, mutex, pidFile, active, service, watchdog, faults,
                   starts>>

-----------------------------------------------------------------------------
(* An agent: main() of brake/agent/main.py. *)

\* Mutant: the mutex is not asked.
MayRunAlways(p) == TRUE

MayRun(p) == mutex[proc[p].session] = None

\* Mutant: a duplicate clears up as if it had run.
AcquireOrClear(p) ==
    /\ proc[p].is = "starting"
    /\ IF MayRun(p)
       THEN /\ mutex' = [mutex EXCEPT ![proc[p].session] = p]
            /\ Becomes(p, "locked")
            /\ UNCHANGED <<pidFile, sup>>
       ELSE pidFile' = None /\ Ends(p)
    /\ UNCHANGED <<active, service, watchdog, faults, starts>>

\* SingleInstanceLock.acquire: atomic in the kernel; a duplicate ends.
Acquire(p) ==
    /\ proc[p].is = "starting"
    /\ IF MayRun(p)
       THEN /\ mutex' = [mutex EXCEPT ![proc[p].session] = p]
            /\ Becomes(p, "locked")
            /\ UNCHANGED sup
       ELSE Ends(p)
    /\ UNCHANGED <<pidFile, active, service, watchdog, faults, starts>>

\* Mutant: not the process is written, but its session.
WriteSession(p) ==
    /\ proc[p].is = "locked"
    /\ pidFile' = proc[p].session
    /\ Becomes(p, "running")
    /\ UNCHANGED <<mutex, active, service, watchdog, sup, faults, starts>>

WritePid(p) ==
    /\ proc[p].is = "locked"
    /\ pidFile' = p
    /\ Becomes(p, "running")
    /\ UNCHANGED <<mutex, active, service, watchdog, sup, faults, starts>>

\* The file cannot be written: advisory only, the agent goes on.
WritePidFails(p) ==
    /\ proc[p].is = "locked"
    /\ Fault
    /\ Becomes(p, "silent")
    /\ UNCHANGED <<mutex, pidFile, active, service, watchdog, sup, starts>>

Clears(p) == pidFile = p

\* The watcher raised: the finally clause.  _clear_pid reads the file and
\* then removes it.
Leave(p) ==
    /\ proc[p].is \in Scanning
    /\ Fault
    /\ Becomes(p, IF Clears(p) THEN "clearing" ELSE "releasing")
    /\ UNCHANGED <<mutex, pidFile, active, service, watchdog, sup, starts>>

ClearPid(p) ==
    /\ proc[p].is = "clearing"
    /\ pidFile' = None
    /\ Becomes(p, "releasing")
    /\ UNCHANGED <<mutex, active, service, watchdog, sup, faults, starts>>

Release(p) ==
    /\ proc[p].is = "releasing"
    /\ mutex' = [mutex EXCEPT ![proc[p].session] = None]
    /\ Becomes(p, "exiting")
    /\ UNCHANGED <<pidFile, active, service, watchdog, sup, faults, starts>>

Exit(p) ==
    /\ proc[p].is = "exiting"
    /\ Ends(p)
    /\ UNCHANGED <<pidFile, active, service, watchdog, faults, starts>>

AgentStep(p) ==
    \/ Acquire(p) \/ WritePid(p) \/ ClearPid(p) \/ Release(p) \/ Exit(p)

\* An agent that a user or the desktop app of a development tree starts.
UserStart(p, s) ==
    /\ starts < MaxStarts /\ starts' = starts + 1
    /\ proc[p].is = "free"
    /\ proc' = [proc EXCEPT ![p] = [is |-> "starting", session |-> s,
                                    ours |-> FALSE]]
    /\ UNCHANGED <<mutex, pidFile, active, service, watchdog, sup, faults>>

\* The process is killed, or its parent's death ends it (_watch_parent).
Kill(p) ==
    /\ proc[p].is \in Agent
    /\ Fault
    /\ Ends(p)
    /\ UNCHANGED <<pidFile, active, service, watchdog, starts>>

-----------------------------------------------------------------------------
(* The machine. *)

\* Another program gets a free pid, and ends.
PidReused(p) ==
    /\ proc[p].is = "free"
    /\ Fault
    /\ proc' = [proc EXCEPT ![p] = Stranger]
    /\ UNCHANGED <<mutex, pidFile, active, service, watchdog, sup, starts>>

StrangerEnds(p) ==
    /\ proc[p].is = "stranger"
    /\ Ends(p)
    /\ UNCHANGED <<pidFile, active, service, watchdog, faults, starts>>

\* Another user is at the console, or none: the processes of the session
\* that was left live on.
SwitchSession(s) ==
    /\ active # s
    /\ Fault
    /\ active' = s
    /\ UNCHANGED <<proc, mutex, pidFile, service, watchdog, sup, starts>>

\* The service is stopped or killed, and with it the supervisor.
ServiceStops ==
    /\ service /\ service' = FALSE
    /\ Fault
    /\ sup' = FreshSupervisor
    /\ proc' = [p \in Pids |-> [proc[p] EXCEPT !.ours = FALSE]]
    /\ UNCHANGED <<mutex, pidFile, active, watchdog, starts>>

WatchdogStops ==
    /\ watchdog /\ watchdog' = FALSE
    /\ Fault
    /\ UNCHANGED <<proc, mutex, pidFile, active, service, sup, starts>>

\* _restart_target_if_stopped polls every second.
ServiceRestarts ==
    /\ watchdog /\ ~service /\ service' = TRUE
    /\ UNCHANGED <<proc, mutex, pidFile, active, watchdog, sup, faults, starts>>

\* The service control manager restarts it, as the installer has configured.
WatchdogRestarts ==
    /\ ~watchdog /\ watchdog' = TRUE
    /\ UNCHANGED <<proc, mutex, pidFile, active, service, sup, faults, starts>>

SupStep == SupCheck \/ (\E p \in Pids : SupSpawn(p)) \/ SupSpawnFails \/ SupSign

Next ==
    \/ SupStep \/ BackoffEnds
    \/ \E p \in Pids :
         \/ AgentStep(p) \/ WritePidFails(p) \/ Leave(p) \/ Kill(p)
         \/ \E s \in Sessions : UserStart(p, s)
         \/ PidReused(p) \/ StrangerEnds(p)
    \/ \E s \in Sessions \cup {None} : SwitchSession(s)
    \/ ServiceStops \/ WatchdogStops \/ ServiceRestarts \/ WatchdogRestarts

\* The threads and processes of Brake take their steps and the time of the
\* backoff passes; nothing is asked of the user or of other programs.
Fairness ==
    /\ WF_vars(SupStep) /\ WF_vars(BackoffEnds)
    /\ \A p \in Pids : WF_vars(AgentStep(p))
    /\ WF_vars(ServiceRestarts) /\ WF_vars(WatchdogRestarts)

Spec == Init /\ [][Next]_vars /\ Fairness

-----------------------------------------------------------------------------
(* Correctness. *)

TypeOK ==
    /\ proc \in [Pids -> Process]
    /\ mutex \in [Sessions -> Pids \cup {None}]
    /\ pidFile \in Pids \cup {None}
    /\ active \in Sessions \cup {None}
    /\ service \in BOOLEAN /\ watchdog \in BOOLEAN
    /\ sup \in [pc : {"checking", "spawning", "signing"},
                child : Pids \cup {None}, spawned : Pids \cup {None},
                same : BOOLEAN, backoff : BOOLEAN]
    /\ faults \in 0..MaxFaults /\ starts \in 0..MaxStarts

\* Agents never stack up: however many are started at once, by the service,
\* a restarted service and users, one of a session gets past the mutex.
OneAgentPerSession ==
    \A p, q \in Pids : /\ proc[p].is \in Holding /\ proc[q].is \in Holding
                       /\ proc[p].session = proc[q].session
                       => p = q

\* A running agent stays advertised: neither a duplicate that ends nor an
\* agent that leaves while it starts removes its agent.pid.  (Agents of two
\* sessions share the file, and one may remove the other's.)
RunningIsAdvertised ==
    Cardinality(Sessions) = 1
    => \A p \in Pids : proc[p].is = "running" => pidFile = p

\* "It never respawns while the process it spawned is still alive": through
\* slow starts, ends and reused pids one run of the service has one agent.
NoChurn == Cardinality({p \in Pids : proc[p].ours}) <= 1

\* A stranger has the pid that the supervisor watches, in agent.pid or
\* through a signature taken too late.
Misled ==
    \E p \in Pids : /\ proc[p].is = "stranger"
                    /\ p = pidFile \/ (p = sup.spawned /\ sup.same)

\* However agents, service and watchdog are killed, an agent runs again while
\* a user is logged on, unless a stranger is taken for one.
AgentComesBack ==
    []<>(\/ \E p \in Pids : proc[p].is \in Scanning
         \/ active = None \/ Misled)

\* "Ensure exactly one agent is running in the active user session"
\* (_agent_supervisor): and so it is again after a switch of users.
ActiveSessionWatched ==
    []<>(\/ \E p \in Pids : proc[p].is \in Scanning /\ proc[p].session = active
         \/ active = None \/ Misled)
=============================================================================
