---------------------------- MODULE SelectServerMC ----------------------------
(* Instances of SelectServer for TLC. *)
EXTENDS SelectServer
=============================================================================
