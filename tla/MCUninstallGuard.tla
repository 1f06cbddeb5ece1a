-------------------------- MODULE MCUninstallGuard --------------------------
(* The uninstall guard beside the service on small instances. *)
EXTENDS UninstallGuard
=============================================================================
