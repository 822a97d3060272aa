------------------------------ MODULE EpollServer ------------------------------
(***************************************************************************)
(* chap-23/epoll_server.c: one thread and epoll.  The listening socket is  *)
(* blocking and edge-triggered, with one accept per event; connections are *)
(* non-blocking and level-triggered.                                       *)
(*                                                                         *)
(* events is the array epoll_wait filled; its entries are handled one by   *)
(* one while the world goes on.  An event is a set element [conn, bad],    *)
(* bad for EPOLLERR or EPOLLHUP, or Listen.                                *)
(***************************************************************************)
EXTENDS FiniteSets, Functions, EchoClients

CONSTANTS Listen,   \* the event of the listening socket
          MaxOpen,  \* connections the process may have open at once
          MaxTotal  \* bound: chunks all clients send together

ASSUME EpollAssumption ==
    MaxOpen \in Nat /\ MaxTotal \in Nat /\ Listen \notin [conn : Conn, bad : BOOLEAN]

VARIABLES edge,    \* the listening socket became readable since epoll_wait
          events,  \* the events that are still to be handled
          full,    \* the send buffer of the connection has no room
          exited,  \* SIGPIPE has ended the process
          careful  \* clients come one at a time and read what they are sent

serverVars == <<edge, events, full, exited, careful>>
vars == <<serverVars, clientVars>>

Init ==
    /\ ClientInit
    /\ edge = FALSE /\ events = {} /\ exited = FALSE
    /\ careful \in BOOLEAN
    /\ full = [c \in Conn |-> FALSE]

Open == {c \in Conn : stage[c] = "open"}

-----------------------------------------------------------------------------
(* Clients and the kernel *)

\* A new connection raises the edge, whether it is down or up already.
Arrive(c) ==
    /\ careful => Backlog = {} /\ Cardinality(Open) < MaxOpen
    /\ Connect(c)
    /\ edge' = TRUE
    /\ UNCHANGED <<events, full, exited, careful>>

SendOne(c) == FoldFunction(+, 0, sent) < MaxTotal /\ Send(c)

Drain(c) ==
    /\ full[c]
    /\ full' = [full EXCEPT ![c] = FALSE]
    /\ UNCHANGED <<edge, events, exited, careful, clientVars>>

Speak(c) == (SendOne(c) \/ Fin(c) \/ Reset(c)) /\ UNCHANGED serverVars

Client(c) == Arrive(c) \/ Drain(c) \/ Speak(c)

Ready == {c \in Open : unread[c] > 0 \/ peer[c] # "up"}

-----------------------------------------------------------------------------
(* main *)

Wait ==
    /\ events = {}
    /\ events' = {[conn |-> c, bad |-> peer[c] = "reset"] : c \in Ready}
                 \cup {l \in {Listen} : edge /\ Backlog # {}}
    /\ events' # {}
    /\ edge' = FALSE
    /\ UNCHANGED <<full, exited, careful, clientVars>>

Handle(e) ==
    /\ e \in events
    /\ events' = events \ {e}
    /\ UNCHANGED <<edge, careful>>

AcceptOne_Loop(c) ==
    /\ Listen \in events /\ Cardinality(Open) < MaxOpen
    /\ Accepted(c)
    /\ UNCHANGED serverVars

AcceptOne(c) ==
    /\ Handle(Listen) /\ Cardinality(Open) < MaxOpen
    /\ Accepted(c)
    /\ UNCHANGED <<full, exited>>

\* accept, then fcntl and epoll_ctl with the -1 it returned: all three fail.
AcceptFails ==
    /\ Handle(Listen) /\ Cardinality(Open) >= MaxOpen
    /\ UNCHANGED <<full, exited, clientVars>>

HangUp_Ignored(c) ==
    /\ Handle([conn |-> c, bad |-> TRUE])
    /\ UNCHANGED <<full, exited, clientVars>>

HangUp(c) ==
    /\ Handle([conn |-> c, bad |-> TRUE])
    /\ Closed(c)
    /\ UNCHANGED <<full, exited>>

Eof_Early(c) ==
    /\ Handle([conn |-> c, bad |-> FALSE])
    /\ peer[c] = "fin"
    /\ Closed(c)
    /\ UNCHANGED <<full, exited>>

Eof(c) ==
    /\ Handle([conn |-> c, bad |-> FALSE])
    /\ AtEof(c)
    /\ Closed(c)
    /\ UNCHANGED <<full, exited>>

\* A reset since epoll_wait: error(0, ...), and the next event is a bad one.
ReadFails(c) ==
    /\ Handle([conn |-> c, bad |-> FALSE])
    /\ peer[c] = "reset" /\ unread[c] = 0
    /\ UNCHANGED <<full, exited, clientVars>>

\* One read and one write, whose result is only tested for being negative: what
\* the send buffer does not take is lost.
Echo(c) ==
    /\ Handle([conn |-> c, bad |-> FALSE])
    /\ peer[c] # "reset"
    /\ \E n \in 1 .. unread[c] :
       \E k \in (IF full[c] THEN {0} ELSE IF careful THEN {n} ELSE 1 .. n) :
         /\ unread' = [unread EXCEPT ![c] = @ - n]
         /\ echoed' = [echoed EXCEPT ![c] = @ + k]
         /\ full' = [full EXCEPT ![c] = k < n]
    /\ UNCHANGED <<exited, stage, peer, sent>>

\* The reset is met by write, which fails or raises SIGPIPE.
EchoFails(c) ==
    /\ Handle([conn |-> c, bad |-> FALSE])
    /\ peer[c] = "reset"
    /\ \E n \in 1 .. MaxSent : Received(c, n)
    /\ exited' \in BOOLEAN
    /\ UNCHANGED full

-----------------------------------------------------------------------------

Server ==
    /\ ~exited
    /\ \/ Wait \/ AcceptFails
       \/ \E c \in Conn : \/ AcceptOne(c) \/ HangUp(c) \/ Eof(c)
                          \/ ReadFails(c) \/ Echo(c) \/ EchoFails(c)

Next == Server \/ (~exited /\ \E c \in Conn : Client(c))

Spec == Init /\ [][Next]_vars

\* The process runs, a client ends its connection some day.
Fairness ==
    /\ WF_vars(Server)
    /\ \A c \in Conn : WF_vars(~exited /\ Fin(c) /\ UNCHANGED serverVars)

-----------------------------------------------------------------------------
(* Properties *)

\* Every variable stays in its range.
TypeOK ==
    /\ ClientTypeOK
    /\ {edge, exited, careful} \subseteq BOOLEAN
    /\ events \subseteq [conn : Conn, bad : BOOLEAN] \cup {Listen}
    /\ full \in [Conn -> BOOLEAN]

\* When the server gets to an event it still holds: accept on the blocking
\* listening socket finds a connection and does not stop the whole server, and
\* no call is made on a descriptor that an earlier event has closed.
EventsStillHold ==
    /\ TypeOK
    /\ Listen \in events => Backlog # {}
    /\ \A e \in events \ {Listen} : e.conn \in Ready

Service == INSTANCE EchoService WITH MayRefuse <- FALSE

\* All that c sent has been read, but what its send buffer did not take is lost.
ClosedWithLoss(c) ==
    /\ ~careful /\ unread[c] = 0 /\ peer[c] = "fin"
    /\ Service!Moves(c, "open", "closed")
    /\ UNCHANGED <<peer, sent, echoed>>

\* The server is an echo server, for clients that read what they are sent; of the
\* others it may lose chunks, and closes the connection all the same.
ImplementsService ==
    /\ Service!Init
    /\ [][Service!Next \/ \E c \in Conn : ClosedWithLoss(c)]_(Service!serviceVars)

\* Clients that come one at a time are accepted and served to the end; whatever
\* other clients do, an accepted connection that has ended is closed.
EventuallyServed ==
    \A c \in Conn :
        (careful /\ stage[c] = "backlog") \/ (stage[c] = "open" /\ peer[c] # "up") ~>
            stage[c] = "closed" \/ exited
=============================================================================
