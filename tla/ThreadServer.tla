----------------------------- MODULE ThreadServer -----------------------------
(***************************************************************************)
(* chap-26/blocking_io_thread_server.c: main accepts and creates a thread  *)
(* per connection.  The thread is handed a pointer to main's conn_fd, one  *)
(* stack slot that every turn of the loop writes again, and copies the     *)
(* descriptor out of it whenever it gets to run.                           *)
(*                                                                         *)
(* Prompt restricts the scheduler: accept does not return while a created  *)
(* thread has yet to copy conn_fd.                                         *)
(***************************************************************************)
EXTENDS FiniteSets, EchoClients

CONSTANTS MaxThread,    \* bound: threads pthread_create creates
          MaxFd,        \* descriptors the process may have open at once
          NoFd,         \* the -1 of a failed accept
          NoConn,
          Prompt

VARIABLES conn_fd,  \* the slot in main's frame
          created,  \* main has accepted and not yet created the thread
          at,       \* "none", "starting", "loop", "closing" or "done", per thread
          own,      \* fd of connection_loop, per thread
          held,     \* chunks in buf, read and not written, per thread
          sock,     \* the descriptor table: the connection behind each one
          exited    \* the process has ended

\* Threads are numbered in the order in which they are created.
Thread == 1 .. MaxThread
Fd == 1 .. MaxFd

ASSUME ThreadAssumption ==
    MaxThread \in Nat /\ MaxFd \in Nat /\ NoFd \notin Fd /\ NoConn \notin Conn

mainVars == <<conn_fd, created, exited>>
threadVars == <<at, own, held>>
vars == <<mainVars, threadVars, sock, clientVars>>

Init ==
    /\ ClientInit
    /\ conn_fd = NoFd /\ created = TRUE
    /\ at = [t \in Thread |-> "none"]
    /\ own = [t \in Thread |-> NoFd]
    /\ held = [t \in Thread |-> 0]
    /\ sock = [f \in Fd |-> NoConn]
    /\ exited = FALSE

-----------------------------------------------------------------------------
(* main *)

SlotIsFree == Prompt => \A t \in Thread : at[t] # "starting"

Accept(c, f) ==
    /\ created /\ SlotIsFree
    /\ sock[f] = NoConn /\ \A g \in 1 .. f - 1 : sock[g] # NoConn
    /\ Accepted(c)
    /\ sock' = [sock EXCEPT ![f] = c]
    /\ conn_fd' = f
    /\ created' = FALSE
    /\ UNCHANGED <<threadVars, exited>>

\* No descriptor is left for the connection: -1 is stored before it is tested.
AcceptFails ==
    /\ created /\ SlotIsFree
    /\ Backlog # {} /\ \A f \in Fd : sock[f] # NoConn
    /\ conn_fd' = NoFd
    /\ UNCHANGED <<created, threadVars, sock, clientVars, exited>>

Create(t) ==
    /\ ~created /\ at[t] = "none" /\ \A u \in 1 .. t - 1 : at[u] # "none"
    /\ at' = [at EXCEPT ![t] = "starting"]
    /\ created' = TRUE
    /\ UNCHANGED <<conn_fd, own, held, sock, clientVars, exited>>

-----------------------------------------------------------------------------
(* thread_run and connection_loop *)

Start(t) ==
    /\ at[t] = "starting"
    /\ at' = [at EXCEPT ![t] = "loop"]
    /\ own' = [own EXCEPT ![t] = conn_fd]
    /\ UNCHANGED <<mainVars, held, sock, clientVars>>

\* The connection a thread reads from and writes to: whatever its descriptor
\* stands for now.  NoConn: the calls fail with EBADF.
Served(t) == IF own[t] = NoFd THEN NoConn ELSE sock[own[t]]

InLoop(t) == at[t] = "loop" /\ Served(t) # NoConn

Read(t) ==
    /\ InLoop(t) /\ held[t] = 0
    /\ \E n \in 1 .. MaxSent : Received(Served(t), n) /\ held' = [held EXCEPT ![t] = n]
    /\ UNCHANGED <<mainVars, at, own, sock>>

Write(t) ==
    /\ InLoop(t) /\ held[t] > 0
    /\ Replied(Served(t), held[t])
    /\ held' = [held EXCEPT ![t] = 0]
    /\ UNCHANGED <<mainVars, at, own, sock>>

Eof_Early(t) ==
    /\ InLoop(t) /\ held[t] = 0 /\ peer[Served(t)] = "fin"
    /\ at' = [at EXCEPT ![t] = "closing"]
    /\ UNCHANGED <<mainVars, own, held, sock, clientVars>>

\* read returned 0 ...
Eof(t) ==
    /\ InLoop(t) /\ held[t] = 0 /\ AtEof(Served(t))
    /\ at' = [at EXCEPT ![t] = "closing"]
    /\ UNCHANGED <<mainVars, own, held, sock, clientVars>>

Close_Never(t) ==
    /\ at[t] = "closing"
    /\ at' = [at EXCEPT ![t] = "done"]
    /\ UNCHANGED <<mainVars, own, held, sock, clientVars>>

Close_Continue(t) ==
    /\ at[t] = "closing" /\ Served(t) # NoConn
    /\ at' = [at EXCEPT ![t] = "loop"]
    /\ sock' = [sock EXCEPT ![own[t]] = NoConn]
    /\ Closed(Served(t))
    /\ UNCHANGED <<mainVars, own, held>>

\* ... and the thread closes whatever the descriptor stands for by now.
Close(t) ==
    /\ at[t] = "closing"
    /\ at' = [at EXCEPT ![t] = "done"]
    /\ sock' = [sock EXCEPT ![own[t]] = NoConn]
    /\ \/ Served(t) = NoConn /\ UNCHANGED clientVars
       \/ Served(t) # NoConn /\ Closed(Served(t))
    /\ UNCHANGED <<mainVars, own, held>>

\* error(1, ...) after a failed read or write, or SIGPIPE, ends the process.
Die(t) ==
    /\ at[t] = "loop"
    /\ Served(t) # NoConn => peer[Served(t)] = "reset"
    /\ exited' = TRUE
    /\ UNCHANGED <<conn_fd, created, threadVars, sock, clientVars>>

-----------------------------------------------------------------------------

MainStep == ~exited /\ (AcceptFails \/ (\E c \in Conn, f \in Fd : Accept(c, f))
                                    \/ (\E t \in Thread : Create(t)))
ThreadStep(t) == ~exited /\ (Start(t) \/ Read(t) \/ Write(t) \/ Eof(t) \/ Close(t) \/ Die(t))
Others == UNCHANGED <<mainVars, threadVars, sock>>
Client(c) == ~exited /\ ClientStep(c) /\ Others

Next ==
    \/ MainStep
    \/ \E t \in Thread : ThreadStep(t)
    \/ \E c \in Conn : Client(c)

Spec == Init /\ [][Next]_vars

Fairness ==
    /\ WF_vars(MainStep)
    /\ \A t \in Thread : WF_vars(ThreadStep(t))
    /\ \A c \in Conn : WF_vars(~exited /\ Fin(c) /\ Others)

LiveSpec == Spec /\ Fairness

-----------------------------------------------------------------------------
(* Properties *)

Service == INSTANCE EchoService WITH MayRefuse <- FALSE

\* Every variable stays in its range.
TypeOK ==
    /\ conn_fd \in Fd \cup {NoFd} /\ created \in BOOLEAN
    /\ at \in [Thread -> {"none", "starting", "loop", "closing", "done"}]
    /\ own \in [Thread -> Fd \cup {NoFd}]
    /\ held \in [Thread -> 0 .. MaxSent]
    /\ sock \in [Fd -> Conn \cup {NoConn}]
    /\ ClientTypeOK
    /\ exited \in BOOLEAN

Working(t) == at[t] \in {"loop", "closing"}

\* Every connection is served by a thread of its own: no two threads work on
\* the same one, and no thread works on a descriptor that is not open.
OneThreadPerConnection ==
    /\ TypeOK
    /\ \A t, u \in Thread : Working(t) /\ Working(u) /\ own[t] = own[u] => t = u
    /\ \A t \in Thread : Working(t) => Served(t) # NoConn

\* As long as no thread gets the descriptor of another one, what clients see is an
\* echo service: no thread echoes what another one read, or closes its connection.
ImplementsService == Service!Spec

\* A connection in the backlog is accepted, served and closed in the end,
\* unless a reset has ended the process.
EventuallyServed ==
    \A c \in Conn : stage[c] = "backlog" ~> stage[c] = "closed" \/ exited
=============================================================================
