----------------------------- MODULE ProcessServer -----------------------------
(***************************************************************************)
(* chap-25/blocking_io_process_server.c: the parent accepts and forks a    *)
(* child per connection.  A socket stays open while any process refers to  *)
(* it; fork copies every reference the parent has at that moment.          *)
(*                                                                         *)
(* Children end as zombies and raise SIGCHLD, of which at most one is      *)
(* pending.  Its handler interrupts the parent between any two steps and   *)
(* is not interrupted by another SIGCHLD (the semantics of signal(2)).     *)
(***************************************************************************)
EXTENDS FiniteSets, EchoClients

CONSTANTS MaxChild,  \* process slots the system has for children
          NoConn

ASSUME ProcessAssumption == MaxChild \in Nat /\ NoConn \notin Conn

Parent == 0
Child == 1 .. MaxChild

VARIABLES at,        \* where main is: "accept", "fork" or "close"
          conn_fd,   \* the connection main has accepted last
          child,     \* "none", "start", "loop" or "zombie", per slot
          serves,    \* the connection child_run was called with
          held,      \* chunks in buf of each child, read and not written
          holds,     \* the processes that refer to each connection
          listeners, \* those that refer to the listening socket
          pending,   \* SIGCHLD is pending
          handling,  \* the parent is in sigchld_handler
          refused    \* connections for which fork failed

parentVars == <<at, conn_fd, refused>>
childVars == <<child, serves, held>>
signalVars == <<pending, handling>>
refVars == <<holds, listeners>>
vars == <<parentVars, childVars, refVars, signalVars, clientVars>>

Init ==
    /\ ClientInit
    /\ at = "accept" /\ conn_fd = NoConn
    /\ child = [p \in Child |-> "none"]
    /\ serves = [p \in Child |-> NoConn]
    /\ held = [p \in Child |-> 0]
    /\ holds = [c \in Conn |-> {}]
    /\ listeners = {Parent}
    /\ pending = FALSE /\ handling = FALSE
    /\ refused = {}

Release_Parent(p, S) ==
    /\ holds' = [c \in Conn |-> IF c \in S THEN holds[c] \ {p} ELSE holds[c]]
    /\ stage' = [c \in Conn |-> IF c \in S /\ p = Parent THEN "closed" ELSE stage[c]]
    /\ UNCHANGED <<peer, sent, unread, echoed>>

\* Process p gives up its references to the connections in S; those nobody
\* refers to any more are closed.
Release(p, S) ==
    /\ holds' = [c \in Conn |-> IF c \in S THEN holds[c] \ {p} ELSE holds[c]]
    /\ stage' = [c \in Conn |-> IF c \in S /\ holds[c] = {p} THEN "closed" ELSE stage[c]]
    /\ UNCHANGED <<peer, sent, unread, echoed>>

-----------------------------------------------------------------------------
(* main *)

Accept(c) ==
    /\ at = "accept" /\ Accepted(c)
    /\ at' = "fork" /\ conn_fd' = c
    /\ holds' = [holds EXCEPT ![c] = {Parent}]
    /\ UNCHANGED <<refused, childVars, listeners, signalVars>>

Fork(p) ==
    /\ at = "fork" /\ child[p] = "none" /\ \A q \in 1 .. p - 1 : child[q] # "none"
    /\ at' = "close"
    /\ child' = [child EXCEPT ![p] = "start"]
    /\ serves' = [serves EXCEPT ![p] = conn_fd]
    /\ holds' = [c \in Conn |-> IF Parent \in holds[c] THEN holds[c] \cup {p} ELSE holds[c]]
    /\ listeners' = listeners \cup {p}
    /\ UNCHANGED <<conn_fd, refused, held, signalVars, clientVars>>

\* fork returns -1: the parent goes the way of the parent and closes.
ForkFails ==
    /\ at = "fork" /\ \A p \in Child : child[p] # "none"
    /\ at' = "close"
    /\ refused' = refused \cup {conn_fd}
    /\ UNCHANGED <<conn_fd, childVars, refVars, signalVars, clientVars>>

CloseConn_Never ==
    /\ at = "close"
    /\ at' = "accept"
    /\ UNCHANGED <<conn_fd, refused, childVars, refVars, signalVars, clientVars>>

CloseConn ==
    /\ at = "close"
    /\ at' = "accept"
    /\ Release(Parent, {conn_fd})
    /\ UNCHANGED <<conn_fd, refused, childVars, listeners, signalVars>>

-----------------------------------------------------------------------------
(* sigchld_handler *)

Deliver ==
    /\ pending /\ ~handling
    /\ pending' = FALSE /\ handling' = TRUE
    /\ UNCHANGED <<parentVars, childVars, refVars, clientVars>>

Zombies == {p \in Child : child[p] = "zombie"}

Reap_Once(p) ==
    /\ handling /\ p \in Zombies
    /\ child' = [child EXCEPT ![p] = "none"]
    /\ handling' = FALSE
    /\ UNCHANGED <<parentVars, serves, held, refVars, pending, clientVars>>

\* waitpid(-1, 0, WNOHANG) returns a child, and the handler calls it again ...
Reap(p) ==
    /\ handling /\ p \in Zombies
    /\ child' = [child EXCEPT ![p] = "none"]
    /\ UNCHANGED <<parentVars, serves, held, refVars, signalVars, clientVars>>

\* ... until it returns none.
Return ==
    /\ handling /\ Zombies = {}
    /\ handling' = FALSE
    /\ UNCHANGED <<parentVars, childVars, refVars, pending, clientVars>>

-----------------------------------------------------------------------------
(* A child *)

Start(p) ==
    /\ child[p] = "start"
    /\ child' = [child EXCEPT ![p] = "loop"]
    /\ listeners' = listeners \ {p}
    /\ UNCHANGED <<parentVars, serves, held, holds, signalVars, clientVars>>

Read(p) ==
    /\ child[p] = "loop" /\ held[p] = 0
    /\ \E n \in 1 .. MaxSent : Received(serves[p], n) /\ held' = [held EXCEPT ![p] = n]
    /\ UNCHANGED <<parentVars, child, serves, refVars, signalVars>>

Write_Keep(p) ==
    /\ child[p] = "loop" /\ held[p] > 0
    /\ Replied(serves[p], held[p])
    /\ UNCHANGED <<parentVars, childVars, refVars, signalVars>>

Write(p) ==
    /\ child[p] = "loop" /\ held[p] > 0
    /\ Replied(serves[p], held[p])
    /\ held' = [held EXCEPT ![p] = 0]
    /\ UNCHANGED <<parentVars, child, serves, refVars, signalVars>>

Done(p) == held[p] = 0 /\ AtEof(serves[p])

\* exit(0) after the end of the stream, or error(1, ...) or SIGPIPE after a
\* reset: the process gives up everything and becomes a zombie.
Exit(p) ==
    /\ child[p] = "loop"
    /\ Done(p) \/ peer[serves[p]] = "reset"
    /\ child' = [child EXCEPT ![p] = "zombie"]
    /\ held' = [held EXCEPT ![p] = 0]
    /\ Release(p, Conn)
    /\ listeners' = listeners \ {p}
    /\ pending' = TRUE
    /\ UNCHANGED <<parentVars, serves, handling>>

-----------------------------------------------------------------------------

Main == ~handling /\ ((\E c \in Conn : Accept(c)) \/ (\E p \in Child : Fork(p))
                      \/ ForkFails \/ CloseConn)
Handler == Deliver \/ (\E p \in Child : Reap(p)) \/ Return
ChildStep(p) == Start(p) \/ Read(p) \/ Write(p) \/ Exit(p)
Others == UNCHANGED <<parentVars, childVars, refVars, signalVars>>
Client(c) == ClientStep(c) /\ Others

Next ==
    \/ Main
    \/ Handler
    \/ \E p \in Child : ChildStep(p)
    \/ \E c \in Conn : Client(c)

Spec == Init /\ [][Next]_vars

\* Every process gets to run, a pending signal is delivered, and a client
\* ends its connection some day.
Fairness ==
    /\ WF_vars(Main)
    /\ WF_vars(Handler)
    /\ \A p \in Child : WF_vars(ChildStep(p))
    /\ \A c \in Conn : WF_vars(Fin(c) /\ Others)

LiveSpec == Spec /\ Fairness

-----------------------------------------------------------------------------
(* Properties *)

Service == INSTANCE EchoService WITH MayRefuse <- TRUE

\* Every variable stays in its range.
TypeOK ==
    /\ at \in {"accept", "fork", "close"}
    /\ conn_fd \in Conn \cup {NoConn}
    /\ child \in [Child -> {"none", "start", "loop", "zombie"}]
    /\ serves \in [Child -> Conn \cup {NoConn}]
    /\ held \in [Child -> 0 .. MaxSent]
    /\ holds \in [Conn -> SUBSET (Child \cup {Parent})]
    /\ listeners \subseteq Child \cup {Parent}
    /\ pending \in BOOLEAN /\ handling \in BOOLEAN
    /\ ClientTypeOK
    /\ refused \subseteq Conn

\* A connection is open exactly as long as some process refers to it: neither
\* the parent's close nor the child's exit ends or keeps it alone.  A child
\* refers to the connection it serves and to no other, so that its exit ends
\* that connection: what fork copies is what the child needs.
OpenIsHeld ==
    \A c \in Conn :
        /\ stage[c] = "open" <=> holds[c] # {}
        /\ \A p \in holds[c] \ {Parent} :
             serves[p] = c /\ child[p] \in {"start", "loop"}

\* Signals of children that end together are merged; still no zombie is left
\* without a SIGCHLD to come or a handler at work.
ZombieIsSignalled == Zombies # {} => pending \/ handling

\* What clients see is an echo service, whichever of parent and child closes last;
\* a connection for which fork fails is closed before anything is echoed.
ImplementsService == Service!Spec

\* A connection in the backlog is accepted and closed in the end; a reset ends
\* no other connection.
EventuallyServed ==
    \A c \in Conn : stage[c] = "backlog" ~> stage[c] = "closed"
=============================================================================
