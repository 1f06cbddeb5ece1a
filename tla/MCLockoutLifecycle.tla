------------------------- MODULE MCLockoutLifecycle -------------------------
(* The lockout on small instances: two process ids, few faults. *)
EXTENDS LockoutLifecycle

CONSTANTS p1, p2
=============================================================================
