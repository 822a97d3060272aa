--------------------------- MODULE ThreadPoolServer ---------------------------
(***************************************************************************)
(* chap-26/blocking_io_threadpool_server.c: main accepts connections and   *)
(* pushes their descriptors into the blocking queue, a fixed pool of       *)
(* workers pops them and serves one connection at a time to its end.       *)
(* The queue is module BlockingQueue, all of its interleavings included.   *)
(*                                                                         *)
(* A worker that is outside of pop and has a result is in connection_loop. *)
(***************************************************************************)
EXTENDS Integers, Sequences, FiniteSets, EchoClients

CONSTANTS Main, Workers,  \* the threads
          Size,           \* BLOCKING_QUEUE_SIZE
          MaxFd, NoFd,    \* descriptors the process may have open at once
          NoThread, NoConn

VARIABLES fd, used, front, rear, mutex, pc, arg, result,  \* the queue
          sock,     \* the descriptor table: the connection behind each one
          held,     \* chunks in buf of each worker, read and not written
          exited    \* the process has ended

queueVars == <<fd, used, front, rear, mutex, pc, arg, result>>
connVars == <<clientVars, sock, held, exited>>
vars == <<queueVars, connVars>>

Fd == 1 .. MaxFd

ASSUME PoolAssumption ==
    /\ Size \in Nat \ {0} /\ MaxFd \in Nat
    /\ NoFd \notin Fd /\ NoConn \notin Conn
    /\ Main \notin Workers /\ NoThread \notin Workers \cup {Main}
    /\ IsFiniteSet(Workers)

Q == INSTANCE BlockingQueue WITH Producers <- {Main}, Consumers <- Workers

Init ==
    /\ Q!Init /\ ClientInit
    /\ sock = [f \in Fd |-> NoConn]
    /\ held = [w \in Workers |-> 0]
    /\ exited = FALSE

-----------------------------------------------------------------------------
(* main *)

\* accept, which returns the lowest free descriptor, and the call of push.  With no descriptor left accept fails, main
\* reports it and tries again, the connection stays in the backlog.
Accept(c, f) ==
    /\ sock[f] = NoConn /\ \A g \in 1 .. f - 1 : sock[g] # NoConn
    /\ Accepted(c)
    /\ sock' = [sock EXCEPT ![f] = c]
    /\ Q!PushCall(Main, f)
    /\ UNCHANGED <<held, exited>>

-----------------------------------------------------------------------------
(* thread_run and connection_loop *)

Serving(w) == pc[w] = "idle" /\ result[w] # NoFd
Served(w) == sock[result[w]]   \* the connection behind the worker's descriptor

\* The first pop of the thread.
FirstPop(w) == result[w] = NoFd /\ Q!PopCall(w) /\ UNCHANGED connVars

Read(w) ==
    /\ Serving(w) /\ held[w] = 0
    /\ \E n \in 1 .. MaxSent : Received(Served(w), n) /\ held' = [held EXCEPT ![w] = n]
    /\ UNCHANGED <<queueVars, sock, exited>>

Write(w) ==
    /\ Serving(w) /\ held[w] > 0
    /\ Replied(Served(w), held[w])
    /\ held' = [held EXCEPT ![w] = 0]
    /\ UNCHANGED <<queueVars, sock, exited>>

CloseAtEof_Eager(w) ==
    /\ Serving(w) /\ held[w] = 0 /\ peer[Served(w)] = "fin"
    /\ Closed(Served(w))
    /\ sock' = [sock EXCEPT ![result[w]] = NoConn]
    /\ Q!PopCall(w)
    /\ UNCHANGED <<held, exited>>

CloseAtEof_Leak(w) ==
    /\ Serving(w) /\ held[w] = 0 /\ AtEof(Served(w))
    /\ Q!PopCall(w)
    /\ UNCHANGED connVars

\* read returned 0: close, leave connection_loop and pop the next one.
CloseAtEof(w) ==
    /\ Serving(w) /\ held[w] = 0 /\ AtEof(Served(w))
    /\ Closed(Served(w))
    /\ sock' = [sock EXCEPT ![result[w]] = NoConn]
    /\ Q!PopCall(w)
    /\ UNCHANGED <<held, exited>>

\* read or write meets the reset: error(1, ...) ends the whole process, and so
\* does the SIGPIPE that nobody ignores.
Die(w) ==
    /\ Serving(w) /\ peer[Served(w)] = "reset"
    /\ exited' = TRUE
    /\ UNCHANGED <<queueVars, clientVars, sock, held>>

-----------------------------------------------------------------------------

MainStep ==
    /\ ~exited
    /\ \/ \E c \in Conn, f \in Fd : Accept(c, f)
       \/ Q!PushStep(Main) /\ UNCHANGED connVars
       \/ (Q!Lock(Main) \/ Q!Unlock(Main)) /\ UNCHANGED connVars

WorkerStep(w) ==
    /\ ~exited
    /\ \/ FirstPop(w) \/ Read(w) \/ Write(w) \/ CloseAtEof(w) \/ Die(w)
       \/ Q!PopStep(w) /\ UNCHANGED connVars
       \/ (Q!Lock(w) \/ Q!Unlock(w)) /\ UNCHANGED connVars

Spurious == ~exited /\ UNCHANGED connVars
            /\ \E t \in Workers \cup {Main} : Q!SpuriousWake(t)

Others == UNCHANGED <<queueVars, sock, held, exited>>
Client(c) == ~exited /\ ClientStep(c) /\ Others

Next ==
    \/ MainStep
    \/ \E w \in Workers : WorkerStep(w)
    \/ \E c \in Conn : Client(c)
    \/ Spurious

Spec == Init /\ [][Next]_vars

\* A thread that can take its next step takes it; a client ends its connection
\* some day; pthread_cond_wait returns for no reason only finitely often.
Fairness ==
    /\ WF_vars(MainStep)
    /\ \A w \in Workers : WF_vars(WorkerStep(w))
    /\ \A c \in Conn : WF_vars(~exited /\ Fin(c) /\ Others)
    /\ <>[][~Spurious]_vars

LiveSpec == Spec /\ Fairness

-----------------------------------------------------------------------------
(* Properties *)

Service == INSTANCE EchoService WITH MayRefuse <- FALSE

\* Every variable stays in its range.
TypeOK ==
    /\ Q!TypeOK
    /\ ClientTypeOK
    /\ sock \in [Fd -> Conn \cup {NoConn}]
    /\ held \in [Workers -> 0 .. MaxSent]
    /\ exited \in BOOLEAN

\* Who has descriptor f: main on its way into the queue, slots of the ring,
\* workers on their way out of the queue or in connection_loop.
Hands(f) ==
    (IF pc[Main] \in {"lock", "test", "wait"} /\ arg[Main] = f THEN {<<Main>>} ELSE {})
    \cup {<<k>> : k \in {k \in 1 .. used : Q!Contents[k] = f}}
    \cup {<<w>> : w \in {w \in Workers : result[w] = f}}

\* An open descriptor is in exactly one hand and a closed one in none: no
\* connection is forgotten, served twice, or closed under somebody's feet,
\* although descriptors are reused as soon as they are closed.
OneHand ==
    /\ TypeOK
    /\ \A f \in Fd : Cardinality(Hands(f)) = IF sock[f] = NoConn THEN 0 ELSE 1

\* Workers, descriptors and the queue are invisible to the clients: what they see
\* is an echo service, which closes a connection when all of it has been echoed.
ImplementsService == Service!Spec

\* A connection in the backlog is accepted, queued, served and closed in the
\* end, even when there are fewer workers, slots and descriptors than
\* connections, unless a reset has ended the process.
EventuallyServed ==
    \A c \in Conn : stage[c] = "backlog" ~> stage[c] = "closed" \/ exited
=============================================================================
