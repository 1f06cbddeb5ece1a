--------------------------- MODULE MCSignedFiles ---------------------------
(* The signed files with a few lockouts, faults and losses.                 *)
EXTENDS SignedFiles
=============================================================================
