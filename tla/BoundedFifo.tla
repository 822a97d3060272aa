----------------------------- MODULE BoundedFifo -----------------------------
(***************************************************************************)
(* What the blocking queue of the thread pool server promises to the       *)
(* threads that call it: descriptors leave in the order in which they      *)
(* entered, each exactly once, and at most Size of them are inside.        *)
(* There are no locks, condition variables or ring positions here.         *)
(***************************************************************************)
EXTENDS Naturals, Sequences

CONSTANTS Producers, Consumers, Size, Fd, NoFd

VARIABLES queue,   \* the descriptors inside, oldest first
          arg,     \* arg[p]: the descriptor p asked to push last
          result   \* result[c]: the descriptor the last pop of c returned

fifoVars == <<queue, arg, result>>

Init ==
    /\ queue = <<>>
    /\ arg = [p \in Producers |-> NoFd]
    /\ result = [c \in Consumers |-> NoFd]

Request(p, x) ==
    /\ arg' = [arg EXCEPT ![p] = x]
    /\ UNCHANGED <<queue, result>>

Put(p) ==
    /\ Len(queue) < Size
    /\ queue' = Append(queue, arg[p])
    /\ UNCHANGED <<arg, result>>

Forget(c) ==
    /\ result' = [result EXCEPT ![c] = NoFd]
    /\ UNCHANGED <<queue, arg>>

Get(c) ==
    /\ queue # <<>>
    /\ result' = [result EXCEPT ![c] = Head(queue)]
    /\ queue' = Tail(queue)
    /\ UNCHANGED arg

Next ==
    \/ \E p \in Producers : Put(p) \/ \E x \in Fd : Request(p, x)
    \/ \E c \in Consumers : Get(c) \/ Forget(c)

Spec == Init /\ [][Next]_fifoVars
=============================================================================
