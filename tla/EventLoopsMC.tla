----------------------------- MODULE EventLoopsMC -----------------------------
(***************************************************************************)
(* What is in lib/, and the server whose loop the library's resembles, on  *)
(* small instances: EpollServer, EventLoop with either of its dispatchers, *)
(* or Dict runs, whichever of Programs the initial state says.             *)
(*                                                                         *)
(* The hashes of Dict's strings collide modulo 2 and modulo 4 in different *)
(* ways, so that entries that share a chain of the small table are spread  *)
(* over the large one.                                                     *)
(***************************************************************************)
EXTENDS EpollServer

CONSTANTS Programs,
          MaxFd, Size, Default, MaxCalls, NoChannel,                   \* EventLoop
          Key, Text, Hash, Val, Absent, InitialSize, ExpandTo, RehashBy  \* Dict

VARIABLES program,
          dispatcher, available_num, entries, fds, revents, ready_num, calls, phase,
          interest, open, can, made, deleted, added,
          dict, reply, broken

Loop == INSTANCE EventLoop
Dict == INSTANCE Dict WITH d <- dict

ASSUME LoopsAssumption ==
    /\ Programs \subseteq {"server", "loop", "dict"}
    /\ Loop!LoopAssumption /\ Dict!DictAssumption

loopVars == <<dispatcher, available_num, entries, fds, revents, ready_num, calls, phase,
              interest, open, can, made, deleted, added>>
dictVars == <<dict, reply, broken>>
MCvars == <<program, vars, loopVars, dictVars>>

\* The choices of Init are those of the program that runs.
MCInit ==
    /\ program \in Programs
    /\ Init /\ (program # "server" => careful = FALSE)
    /\ Loop!Init /\ (program # "loop" => dispatcher = "poll")
    /\ Dict!Init

ServerStep(A) == program = "server" /\ ~exited /\ A /\ UNCHANGED <<program, loopVars, dictVars>>
LoopStep(A) == program = "loop" /\ A /\ UNCHANGED <<program, vars, dictVars>>
DictStep(A) == program = "dict" /\ ~broken /\ A /\ UNCHANGED <<program, vars, loopVars>>

\* The steps of the three next-state relations, one by one.
MCNext ==
    \/ ServerStep(Wait) \/ ServerStep(AcceptFails)
    \/ \E c \in Conn :
         \/ ServerStep(AcceptOne(c)) \/ ServerStep(HangUp(c)) \/ ServerStep(Eof(c))
         \/ ServerStep(ReadFails(c)) \/ ServerStep(Echo(c)) \/ ServerStep(EchoFails(c))
         \/ ServerStep(Arrive(c)) \/ ServerStep(Drain(c)) \/ ServerStep(Speak(c))
    \/ LoopStep(Loop!Poll) \/ LoopStep(Loop!Invalid)
    \/ LoopStep(Loop!Activate) \/ LoopStep(Loop!Return) \/ LoopStep(Loop!EpollDispatch)
    \/ LoopStep(Loop!Clear)
    \/ \E f \in Loop!Fd :
         \/ LoopStep(Loop!Delete(f)) \/ \E e \in Loop!Event : LoopStep(Loop!Arrive(f, e))
         \/ \E ev \in SUBSET Loop!Event :
              LoopStep(Loop!Add(f, ev)) \/ LoopStep(Loop!Update(f, ev))
    \/ \E k \in Key :
         \/ DictStep(Dict!DictGet(k)) \/ DictStep(Dict!DictDel(k))
         \/ \E v \in Val : DictStep(Dict!DictAdd(k, v))
    \/ \E n \in ExpandTo : DictStep(Dict!DictExpand(n))
    \/ \E n \in RehashBy : DictStep(Dict!DictRehash(n))

MCSpec == MCInit /\ [][MCNext]_MCvars

\* A program that does not run stays in its initial state, where nothing that
\* its fairness is about can happen.
LoopsSpec == MCSpec /\ Fairness /\ Loop!Fairness

\* One pointer per string.
Pointers == {"a", "b", "c", "e"}
OwnText == [k \in Pointers |-> k]
SomeHash == [t \in Pointers |->
               CASE t = "a" -> 0 [] t = "b" -> 2 [] t = "c" -> 4 [] t = "e" -> 3]

\* poll_dispatch handles each slot that poll reported exactly once.
EachReportedOnce == Loop!EachReportedOnce

\* Without a deletion no callback is called for an event that is gone.
NoStaleCall == Loop!NoStaleCall

\* A channel whose event is there is dispatched in the end.
EventuallyDispatched == Loop!EventuallyDispatched

\* event_dispatcher.h:27: dispatch calls the callback of a channel that is ready.
DispatchCallsBack == Loop!DispatchCallsBack

\* Entries are where a lookup searches them, and counted.
TablesConsistent == Dict!TablesConsistent

\* The dict answers as a map does, until a deletion leaves defined behaviour.
ImplementsMap == Dict!ImplementsMap
==============================================================================
