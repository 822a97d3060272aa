------------------------------ MODULE EchoService ------------------------------
(***************************************************************************)
(* What the echo servers promise to their clients, whatever serves a       *)
(* connection (a thread, a process, a slot): connections are accepted in   *)
(* their order, what is echoed was sent, and the server closes a           *)
(* connection when its client is done and has everything back.  It need    *)
(* not serve all of them, and never one that was reset.                    *)
(***************************************************************************)
EXTENDS Naturals

CONSTANTS Conn,
          MayRefuse  \* it may close a connection of which it has not echoed anything

VARIABLES stage, peer, sent, echoed

serviceVars == <<stage, peer, sent, echoed>>

Init ==
    /\ stage = [c \in Conn |-> "new"]
    /\ peer = [c \in Conn |-> "up"]
    /\ sent = [c \in Conn |-> 0]
    /\ echoed = [c \in Conn |-> 0]

Moves(c, from, to) == stage[c] = from /\ stage' = [stage EXCEPT ![c] = to]

-----------------------------------------------------------------------------
(* The client *)

Connect(c) == Moves(c, "new", "backlog") /\ UNCHANGED <<peer, sent, echoed>>

Send(c) ==
    /\ stage[c] \in {"backlog", "open"} /\ peer[c] = "up"
    /\ sent' = [sent EXCEPT ![c] = @ + 1]
    /\ UNCHANGED <<stage, peer, echoed>>

\* The client has no more to send, or reads no more either.
End(c) ==
    /\ stage[c] \in {"backlog", "open"}
    /\ \/ peer[c] = "up" /\ peer' = [peer EXCEPT ![c] = "fin"]
       \/ peer[c] # "reset" /\ peer' = [peer EXCEPT ![c] = "reset"]
    /\ UNCHANGED <<stage, sent, echoed>>

-----------------------------------------------------------------------------
(* The server *)

Accept(c) ==
    /\ Moves(c, "backlog", "open") /\ \A b \in Conn : stage[b] = "backlog" => c <= b
    /\ UNCHANGED <<peer, sent, echoed>>

Echo(c) ==
    /\ stage[c] = "open" /\ peer[c] # "reset"
    /\ \E n \in 1 .. sent[c] - echoed[c] : echoed' = [echoed EXCEPT ![c] = @ + n]
    /\ UNCHANGED <<stage, peer, sent>>

Close(c) ==
    /\ Moves(c, "open", "closed")
    /\ \/ peer[c] = "fin" /\ echoed[c] = sent[c]
       \/ peer[c] = "reset"
       \/ MayRefuse /\ echoed[c] = 0
    /\ UNCHANGED <<peer, sent, echoed>>

Next ==
    \E c \in Conn : \/ Connect(c) \/ Send(c) \/ End(c)
                    \/ Accept(c) \/ Echo(c) \/ Close(c)

Spec == Init /\ [][Next]_serviceVars
================================================================================
