---------------------------- MODULE ProcessServerMC ----------------------------
(* Instances of ProcessServer for TLC. *)
EXTENDS ProcessServer
==============================================================================
