--------------------------- MODULE UninstallGuard ---------------------------
(***************************************************************************)
(* BrakeUninstallGuard.exe (brake/uninstall_guard.py) beside the service:  *)
(* a process of its own, started by the uninstaller, that loads the state, *)
(* applies a matured unlock, saves it and answers with its exit code.      *)
(* Nothing locks the file between its load and its save.  (The desktop     *)
(* bridge loads, applies and saves in the same way when it reports the     *)
(* status and the service does not answer.)                                *)
(***************************************************************************)
EXTENDS ProtectionService

VARIABLE guard    \* [pc, snap, earned]: earned is history, whether a code
                  \* had served its delay when the guard loaded the state

guardVars == <<vars, guard>>

GuardStates == {"idle", "saving", "deciding", "allow", "block", "refuse"}

Served == \E c \in codes : c <= now

\* The guard with no record in its hands.
GuardAt(pc) ==
    [pc |-> pc, snap |-> NewState(Placeholder, FALSE), earned |-> FALSE]

GuardInit == Init /\ guard = GuardAt("idle")

\* Mutant: a timer that has not run out yet counts as due.
GuardWritesPending(s) == s.unlockAfter # 0

\* Mutant: the loaded record is saved in any case.
GuardWritesAlways(s) == TRUE

\* apply_due_recovery_unlock writes only if the unlock was due.
GuardWrites(s) == UnlockDue(s, now)

\* store.load(): a damaged file exits 2, a missing one ends in an uncaught
\* StateMissingError (exit 1), none at all allows the uninstall.
GuardLoad ==
    /\ guard.pc = "idle"
    /\ guard' = CASE file = "absent" -> GuardAt("allow")
                  [] file = "missing" -> GuardAt("block")
                  [] file = "damaged" -> GuardAt("refuse")
                  [] OTHER -> [pc |-> IF GuardWrites(st) THEN "saving"
                                      ELSE "deciding",
                               snap |-> AfterDueUnlock(st, now),
                               earned |-> Served]
    /\ UNCHANGED vars

\* store.save(s) of the record loaded earlier, over whatever is there now.
GuardSave ==
    /\ guard.pc = "saving"
    /\ file' = "ok"
    /\ st' = guard.snap
    /\ guard' = [guard EXCEPT !.pc = "deciding"]
    /\ UNCHANGED <<now, recovery, codes, releases>>

GuardDecide ==
    /\ guard.pc = "deciding"
    /\ guard' = IF ~guard.snap.enabled /\ ~CommitmentActive(guard.snap, now)
                THEN GuardAt("allow") ELSE GuardAt("block")
    /\ UNCHANGED vars

\* A refused uninstall can be tried again; an allowed one goes on to remove
\* the program.  The guard may also be killed at any point.
GuardAgain ==
    /\ guard.pc \notin {"idle", "allow"}
    /\ guard' = GuardAt("idle")
    /\ UNCHANGED vars

GuardStep == GuardLoad \/ GuardSave \/ GuardDecide \/ GuardAgain

GuardNext ==
    \/ guard.pc # "allow" /\ Next /\ UNCHANGED guard
    \/ GuardStep

GuardSpec == GuardInit /\ [][GuardNext]_guardVars

-----------------------------------------------------------------------------
(* Correctness. *)

\* The guard is about to write only where an unlock had come due, and then a
\* recovery code entered since the last commitment had served its delay: an
\* uninstall attempt is never itself a way to end protection.
GuardActsOnEarnedUnlock == guard.pc = "saving" => guard.earned

\* "A newly accepted or extended commitment supersedes any pending emergency
\* unlock, otherwise the old timer would erase it later" (ipc_server.py): no
\* step ends a running commitment except the unlock of a code entered after
\* the commitment was accepted.
AcceptedCommitmentStays ==
    [][(/\ file = "ok" /\ file' = "ok" /\ CommitmentActive(st, now)
        /\ st'.until < st.until)
       => (\E c \in codes : c <= now)]_guardVars
=============================================================================
