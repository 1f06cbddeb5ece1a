----------------------------- MODULE Protection ------------------------------
(***************************************************************************)
(* What Brake promises about its switch, without files, commands, codes or *)
(* processes.  Protection is on or off; a commitment keeps it on until a   *)
(* deadline that can only move later; the one way out of a commitment is   *)
(* an emergency unlock, which waits, which a new commitment withdraws, and *)
(* which takes effect the moment it is due without anyone having to act.   *)
(* When the record is lost protection counts as on.                        *)
(***************************************************************************)
EXTENDS Naturals

CONSTANT OverrideSet      \* the development override is configured

VARIABLES
    now,
    on,        \* protection is on
    until,     \* the commitment's deadline, 0 if none was ever made
    due,       \* when a requested emergency unlock takes effect, 0 if none is
    lost       \* the record cannot be trusted

vars == <<now, on, until, due, lost>>

Init ==
    /\ now = 0
    /\ on = FALSE
    /\ until = 0
    /\ due = 0
    /\ lost = FALSE

Running == until > now

\* What every reader is told.
Protecting == on \/ lost

Pass ==
    /\ now' = now + 1
    /\ IF due # 0 /\ due <= now'
       THEN on' = FALSE /\ until' = 0 /\ due' = 0
       ELSE UNCHANGED <<on, until, due>>
    /\ UNCHANGED lost

TurnOn == on' = TRUE /\ UNCHANGED <<now, until, due, lost>>

TurnOff ==
    /\ ~Running
    /\ on' = FALSE
    /\ UNCHANGED <<now, until, due, lost>>

Commit ==
    /\ on' = TRUE
    /\ until' > now
    /\ Running => until' >= until
    /\ due' = 0
    /\ UNCHANGED <<now, lost>>

\* At least one unit of time passes before an emergency unlock is due.
AskUnlock ==
    /\ due = 0
    /\ due' > now
    /\ UNCHANGED <<now, on, until, lost>>

CancelUnlock == due' = 0 /\ UNCHANGED <<now, on, until, lost>>

Override ==
    /\ OverrideSet
    /\ on' = FALSE /\ until' = 0 /\ due' = 0
    /\ UNCHANGED <<now, lost>>

Lose == lost' = TRUE /\ UNCHANGED <<now, on, until, due>>

Find == lost' = FALSE /\ UNCHANGED <<now, on, until, due>>

\* The recovery code replaces a lost record; protection stays on.
Repair ==
    /\ lost
    /\ lost' = FALSE
    /\ on' = TRUE /\ until' = 0 /\ due' = 0
    /\ UNCHANGED now

Request ==
    /\ ~lost
    /\ TurnOn \/ TurnOff \/ Commit \/ AskUnlock \/ CancelUnlock \/ Override

Next == Pass \/ Request \/ Lose \/ Find \/ Repair

Spec == Init /\ [][Next]_vars
=============================================================================
