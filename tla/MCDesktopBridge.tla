-------------------------- MODULE MCDesktopBridge --------------------------
(* The desktop application, the uninstall guard and the service on small    *)
(* instances. *)
EXTENDS DesktopBridge

\* A committed installation with the settings that can be told from their
\* defaults, with a pending unlock and without; and one that is off.
FoundRecords ==
    LET Strict(due) ==
            [NewState("pw", TRUE) EXCEPT !.duration = 14, !.until = 2,
                 !.anime = TRUE, !.unlockAfter = due, !.unlockDelay = 2,
                 !.release = FALSE, !.shutdown = TRUE]
    IN  {Strict(0), Strict(1), [Strict(0) EXCEPT !.enabled = FALSE, !.until = 0]}
=============================================================================
