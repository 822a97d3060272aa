---------------------------- MODULE BlockingQueue ----------------------------
(***************************************************************************)
(* The blocking queue of chap-26/blocking_io_threadpool_server.c: a ring   *)
(* of connected descriptors behind one mutex and two condition variables,  *)
(* `free' (room for a producer) and `nonempty' (work for a consumer).      *)
(*                                                                         *)
(* A thread inside blocking_queue_push or blocking_queue_pop goes through  *)
(*    lock   waits for the mutex, on entry or on the way out of a wait     *)
(*    test   holds it, evaluates the condition of the while loop           *)
(*    wait   blocked in pthread_cond_wait, the mutex released              *)
(*    signal has changed the ring, is about to signal the other side       *)
(*    unlock is about to release the mutex and return                      *)
(* and is `idle' outside of the two functions.  The threads blocked on     *)
(* `free' are the producers that wait, those blocked on `nonempty' the     *)
(* consumers that wait.                                                    *)
(***************************************************************************)
EXTENDS Integers, Sequences, FiniteSets

CONSTANTS Producers,  \* threads that push (main, in the program)
          Consumers,  \* threads that pop (the pool)
          Size,       \* BLOCKING_QUEUE_SIZE
          Fd,         \* descriptors accept can return
          NoFd,       \* what calloc leaves in a slot; no descriptor
          NoThread    \* the mutex is free

ASSUME QueueAssumption ==
    /\ Size \in Nat \ {0}
    /\ NoFd \notin Fd
    /\ Producers \cap Consumers = {}
    /\ NoThread \notin Producers \cup Consumers
    /\ IsFiniteSet(Producers) /\ IsFiniteSet(Consumers)

VARIABLES fd, used, front, rear,   \* the struct, field by field
          mutex,                   \* the thread that owns the mutex
          pc,                      \* where each thread is
          arg, result              \* argument of push, return value of pop

ring == <<fd, used, front, rear>>
vars == <<fd, used, front, rear, mutex, pc, arg, result>>

Threads == Producers \cup Consumers
Places == {"idle", "lock", "test", "wait", "signal", "unlock"}

Init ==
    /\ fd = [i \in 0 .. Size - 1 |-> NoFd]
    /\ used = 0 /\ front = 0 /\ rear = 0
    /\ mutex = NoThread
    /\ pc = [t \in Threads |-> "idle"]
    /\ arg = [p \in Producers |-> NoFd]
    /\ result = [c \in Consumers |-> NoFd]

\* ++i, back to zero at the end of the array
Advance_Short(i) == IF i + 1 >= Size - 1 THEN 0 ELSE i + 1
Advance(i) == IF i + 1 = Size THEN 0 ELSE i + 1

Full == used = Size
Empty == used = 0

Waiting(S) == {t \in S : pc[t] = "wait"}

-----------------------------------------------------------------------------
(* Steps that push and pop share *)

\* pthread_mutex_lock, and the re-acquisition inside pthread_cond_wait.

Lock(t) ==
    /\ pc[t] = "lock"
    /\ mutex = NoThread
    /\ mutex' = t
    /\ pc' = [pc EXCEPT ![t] = "test"]
    /\ UNCHANGED <<ring, arg, result>>

\* pthread_cond_wait: block and release the mutex in one step.
CondWait(t) ==
    /\ mutex' = NoThread
    /\ pc' = [pc EXCEPT ![t] = "wait"]
    /\ UNCHANGED <<ring, arg, result>>

\* pthread_cond_signal on the condition the threads of S block on: one of
\* them, whichever the scheduler picks, goes back to the mutex.
CondSignal_OnEdge(t, S) ==
    LET edge == used = IF t \in Producers THEN 1 ELSE Size - 1 IN
    /\ pc[t] = "signal"
    /\ IF edge /\ Waiting(S) # {}
       THEN \E w \in Waiting(S) : pc' = [pc EXCEPT ![t] = "unlock", ![w] = "lock"]
       ELSE pc' = [pc EXCEPT ![t] = "unlock"]
    /\ UNCHANGED <<ring, mutex, arg, result>>

CondSignal(t, S) ==
    /\ pc[t] = "signal"
    /\ \/ \E w \in Waiting(S) : pc' = [pc EXCEPT ![t] = "unlock", ![w] = "lock"]
       \/ Waiting(S) = {} /\ pc' = [pc EXCEPT ![t] = "unlock"]
    /\ UNCHANGED <<ring, mutex, arg, result>>

Unlock(t) ==
    /\ pc[t] = "unlock"
    /\ mutex' = NoThread
    /\ pc' = [pc EXCEPT ![t] = "idle"]
    /\ UNCHANGED <<ring, arg, result>>

\* POSIX lets pthread_cond_wait return without a signal.
SpuriousWake(t) ==
    /\ pc[t] = "wait"
    /\ pc' = [pc EXCEPT ![t] = "lock"]
    /\ UNCHANGED <<ring, mutex, arg, result>>

-----------------------------------------------------------------------------
(* blocking_queue_push *)

PushCall(p, x) ==
    /\ pc[p] = "idle"
    /\ arg' = [arg EXCEPT ![p] = x]
    /\ pc' = [pc EXCEPT ![p] = "lock"]
    /\ UNCHANGED <<ring, mutex, result>>

PushWait(p) == pc[p] = "test" /\ Full /\ CondWait(p)

PushStore(p) ==
    /\ pc[p] = "test"
    /\ ~Full
    /\ fd' = [fd EXCEPT ![rear] = arg[p]]
    /\ rear' = Advance(rear)
    /\ used' = used + 1
    /\ pc' = [pc EXCEPT ![p] = "signal"]
    /\ UNCHANGED <<front, mutex, arg, result>>

PushSignal(p) == CondSignal(p, Consumers)

-----------------------------------------------------------------------------
(* blocking_queue_pop *)

PopCall(c) ==
    /\ pc[c] = "idle"
    /\ result' = [result EXCEPT ![c] = NoFd]
    /\ pc' = [pc EXCEPT ![c] = "lock"]
    /\ UNCHANGED <<ring, mutex, arg>>

PopWait(c) == pc[c] = "test" /\ Empty /\ CondWait(c)

PopTake_Newest(c) ==
    /\ pc[c] = "test"
    /\ ~Empty
    /\ LET last == IF rear = 0 THEN Size - 1 ELSE rear - 1 IN
         /\ result' = [result EXCEPT ![c] = fd[last]]
         /\ rear' = last
    /\ used' = used - 1
    /\ pc' = [pc EXCEPT ![c] = "signal"]
    /\ UNCHANGED <<fd, front, mutex, arg>>

PopTake(c) ==
    /\ pc[c] = "test"
    /\ ~Empty
    /\ result' = [result EXCEPT ![c] = fd[front]]
    /\ front' = Advance(front)
    /\ used' = used - 1
    /\ pc' = [pc EXCEPT ![c] = "signal"]
    /\ UNCHANGED <<fd, rear, mutex, arg>>

PopSignal(c) == CondSignal(c, Producers)

-----------------------------------------------------------------------------

PushStep(p) == PushWait(p) \/ PushStore(p) \/ PushSignal(p)
PopStep(c) == PopWait(c) \/ PopTake(c) \/ PopSignal(c)

Next ==
    \/ \E p \in Producers : PushStep(p) \/ \E x \in Fd : PushCall(p, x)
    \/ \E c \in Consumers : PopStep(c) \/ PopCall(c)
    \/ \E t \in Threads : Lock(t) \/ Unlock(t) \/ SpuriousWake(t)

Spec == Init /\ [][Next]_vars

-----------------------------------------------------------------------------
(* Properties *)

\* Every field of the struct and every thread stays in its range.
TypeOK ==
    /\ fd \in [0 .. Size - 1 -> Fd \cup {NoFd}]
    /\ used \in 0 .. Size
    /\ front \in 0 .. Size - 1 /\ rear \in 0 .. Size - 1
    /\ mutex \in Threads \cup {NoThread}
    /\ pc \in [Threads -> Places]
    /\ arg \in [Producers -> Fd \cup {NoFd}]
    /\ result \in [Consumers -> Fd \cup {NoFd}]

\* The ring position k places behind front.
Slot(k) == IF front + k < Size THEN front + k ELSE front + k - Size

\* The mutex is owned by exactly the thread that is between lock and unlock.
MutexOwned ==
    \A t \in Threads : pc[t] \in {"test", "signal", "unlock"} <=> mutex = t

\* A producer inside push carries the descriptor it was called with.
ArgKnown == \A p \in Producers : pc[p] # "idle" => arg[p] \in Fd

\* front, rear and used, three separately updated fields, agree on which
\* slots are occupied, and an occupied slot holds a descriptor a producer
\* pushed, never what calloc left there.
RingConsistent ==
    /\ rear = Slot(used)
    /\ \A k \in 0 .. used - 1 : fd[Slot(k)] \in Fd

\* Threads that will evaluate their while condition before they block again.
Looking(S) == {t \in S : pc[t] \in {"lock", "test"}}
Signalling(S) == {t \in S : pc[t] = "signal"}

\* If a thread of S sleeps, then each of the n things it could take is matched
\* by a thread of S about to look or a thread of R about to signal.
Matched(S, R, n) ==
    Waiting(S) # {} => n <= Cardinality(Looking(S)) + Cardinality(Signalling(R))

\* No wakeup is lost: as long as a consumer sleeps on `nonempty', every
\* descriptor in the ring is matched by a consumer that is about to look at
\* the ring or by a push that is about to signal.  The same for producers
\* that sleep on `free' and the empty slots.
NoLostWakeup ==
    /\ Matched(Consumers, Producers, used)
    /\ Matched(Producers, Consumers, Size - used)

\* The descriptors inside, oldest first.
Contents == [i \in 1 .. used |-> fd[Slot(i - 1)]]

Fifo == INSTANCE BoundedFifo WITH queue <- Contents

\* The ring behind its mutex is a bounded first-in first-out queue: every step
\* of push and pop is a Put, a Get, a call, or invisible.
ImplementsFifo == Fifo!Spec
=============================================================================
