---------------------------- MODULE ThreadServerMC ----------------------------
(* Instances of ThreadServer for TLC. *)
EXTENDS ThreadServer
==============================================================================
