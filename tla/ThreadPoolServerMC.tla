---------------------------- MODULE ThreadPoolServerMC ----------------------------
(* Instances of ThreadPoolServer for TLC. *)
EXTENDS ThreadPoolServer
==============================================================================
