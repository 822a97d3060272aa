------------------------------ MODULE EchoClients ------------------------------
(***************************************************************************)
(* The clients of the echo servers and the kernel's side of their          *)
(* connections: what the servers' connect, read, write and close calls     *)
(* meet.  Data are counted in chunks: one chunk is what rot13 and write    *)
(* treat alike, its bytes do not matter.                                   *)
(*                                                                         *)
(* The server modules extend this one, conjoin its actions with steps of   *)
(* their own and say what happens to the server's state.                   *)
(***************************************************************************)
EXTENDS Naturals

CONSTANTS MaxConn,  \* bound: connections that clients open
          MaxSent   \* bound: chunks a client sends on one connection

ASSUME ClientAssumption == MaxConn \in Nat /\ MaxSent \in Nat

\* Connections are numbered in the order in which they are made.
Conn == 1 .. MaxConn

VARIABLES stage,   \* "new", "backlog", "open" or "closed" by the server
          peer,    \* what the client did last: "up", "fin" or "reset"
          sent,    \* chunks the client sent
          unread,  \* those still in the receive buffer
          echoed   \* chunks the server wrote

clientVars == <<stage, peer, sent, unread, echoed>>

ClientInit ==
    /\ stage = [c \in Conn |-> "new"]
    /\ peer = [c \in Conn |-> "up"]
    /\ sent = [c \in Conn |-> 0]
    /\ unread = [c \in Conn |-> 0]
    /\ echoed = [c \in Conn |-> 0]

-----------------------------------------------------------------------------
(* What clients do *)

Exists(c) == stage[c] \in {"backlog", "open"}

Connect(c) ==
    /\ stage[c] = "new" /\ \A b \in 1 .. c - 1 : stage[b] # "new"
    /\ stage' = [stage EXCEPT ![c] = "backlog"]
    /\ UNCHANGED <<peer, sent, unread, echoed>>

Send(c) ==
    /\ Exists(c) /\ peer[c] = "up" /\ sent[c] < MaxSent
    /\ sent' = [sent EXCEPT ![c] = @ + 1]
    /\ unread' = [unread EXCEPT ![c] = @ + 1]
    /\ UNCHANGED <<stage, peer, echoed>>

\* The client has nothing more to send and still reads.
Fin(c) ==
    /\ Exists(c) /\ peer[c] = "up"
    /\ peer' = [peer EXCEPT ![c] = "fin"]
    /\ UNCHANGED <<stage, sent, unread, echoed>>

\* The client aborts, or closes with data it has not read: a RST follows.
Reset(c) ==
    /\ Exists(c) /\ peer[c] # "reset"
    /\ peer' = [peer EXCEPT ![c] = "reset"]
    /\ UNCHANGED <<stage, sent, unread, echoed>>

ClientStep(c) == Connect(c) \/ Send(c) \/ Fin(c) \/ Reset(c)

-----------------------------------------------------------------------------
(* What calls of the server do to a connection *)

Backlog == {c \in Conn : stage[c] = "backlog"}

\* accept returns the oldest connection of the backlog.
Accepted(c) ==
    /\ c \in Backlog /\ \A b \in Backlog : c <= b
    /\ stage' = [stage EXCEPT ![c] = "open"]
    /\ UNCHANGED <<peer, sent, unread, echoed>>

\* read returns n chunks, some or all of what has arrived.
Received(c, n) ==
    /\ n \in 1 .. unread[c]
    /\ unread' = [unread EXCEPT ![c] = @ - n]
    /\ UNCHANGED <<stage, peer, sent, echoed>>

\* write takes n chunks.
Replied(c, n) ==
    /\ peer[c] # "reset"
    /\ echoed' = [echoed EXCEPT ![c] = @ + n]
    /\ UNCHANGED <<stage, peer, sent, unread>>

\* read returns 0.
AtEof(c) == peer[c] = "fin" /\ unread[c] = 0

Closed(c) ==
    /\ stage' = [stage EXCEPT ![c] = "closed"]
    /\ UNCHANGED <<peer, sent, unread, echoed>>

-----------------------------------------------------------------------------

ClientTypeOK ==
    /\ stage \in [Conn -> {"new", "backlog", "open", "closed"}]
    /\ peer \in [Conn -> {"up", "fin", "reset"}]
    /\ sent \in [Conn -> 0 .. MaxSent]
    /\ unread \in [Conn -> 0 .. MaxSent]
    /\ echoed \in [Conn -> 0 .. MaxSent]

\* Everything the client of c sent has been echoed back to it.
Complete(c) == echoed[c] = sent[c]
=============================================================================
