---------------------------- MODULE PollServerMC ----------------------------
(* Instances of PollServer for TLC. *)
EXTENDS PollServer
==============================================================================
