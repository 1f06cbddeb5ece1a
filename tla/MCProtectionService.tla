------------------------ MODULE MCProtectionService ------------------------
(* The service on small instances: two configurations of one module, each *)
(* opening the part of the request space its question is about.             *)
EXTENDS ProtectionService
=============================================================================
