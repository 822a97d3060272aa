------------------------------ MODULE PollServer ------------------------------
(***************************************************************************)
(* chap-21/poll_server.c: one thread, poll(2) and an array of slots, slot  *)
(* 0 for the listening socket.  Sockets are blocking.                      *)
(*                                                                         *)
(* ready holds the slots whose revents are set and not handled yet; the    *)
(* count ready_num is their number, and one more while phase is "accept".  *)
(***************************************************************************)
EXTENDS FiniteSets, EchoClients

CONSTANTS PollFdSize,  \* POLL_FD_SIZE
          MaxOpen,     \* connections the process may have open at once
          NoConn       \* the fd of a slot is -1

ASSUME PollAssumption == PollFdSize \in Nat \ {0} /\ NoConn \notin Conn

Slots == 1 .. PollFdSize - 1

VARIABLES fds,    \* the connection of each slot
          ready, phase,
          held,   \* chunks in buf between read and write
          exited

serverVars == <<fds, ready, phase, held, exited>>
vars == <<serverVars, clientVars>>

Init ==
    /\ ClientInit
    /\ fds = [i \in Slots |-> NoConn]
    /\ ready = {} /\ phase = "poll" /\ held = 0 /\ exited = FALSE

Open == {c \in Conn : stage[c] = "open"}
Placed == {fds[i] : i \in Slots} \ {NoConn}
Empty == {i \in Slots : fds[i] = NoConn}
Lowest(S) == CHOOSE i \in S : \A j \in S : i <= j

Readable(c) == unread[c] > 0 \/ peer[c] # "up"

-----------------------------------------------------------------------------
(* main *)

Poll ==
    /\ phase = "poll"
    /\ ready' = {i \in Slots \ Empty : Readable(fds[i])}
    /\ ready' # {} \/ Backlog # {}
    /\ phase' = IF Backlog # {} THEN "accept" ELSE "loop"
    /\ UNCHANGED <<fds, held, exited, clientVars>>

AfterAccept_Poll == phase' = "poll" /\ UNCHANGED <<ready, held, exited>>

AfterAccept == phase' = (IF ready = {} THEN "poll" ELSE "loop") /\ UNCHANGED <<ready, held, exited>>

Accept_First(c) ==
    /\ phase = "accept" /\ Cardinality(Open) < MaxOpen
    /\ Accepted(c)
    /\ fds' = [i \in Slots |-> IF i = 1 THEN c ELSE fds[i]]
    /\ AfterAccept

\* Without an empty slot the connection is open and in no slot: fd_idx never
\* changes, and its comparison with POLL_FD_SIZE never holds.
Accept(c) ==
    /\ phase = "accept" /\ Cardinality(Open) < MaxOpen
    /\ Accepted(c)
    /\ fds' = IF Empty = {} THEN fds ELSE [fds EXCEPT ![Lowest(Empty)] = c]
    /\ AfterAccept

\* -1 goes into an empty slot, which leaves it empty.
AcceptFails ==
    /\ phase = "accept" /\ Cardinality(Open) >= MaxOpen
    /\ AfterAccept /\ UNCHANGED <<fds, clientVars>>

At(i) == phase = "loop" /\ ready # {} /\ i = Lowest(ready)
Handled(i) == ready' = ready \ {i}

Read(i) ==
    /\ At(i)
    /\ \E n \in 1 .. MaxSent : Received(fds[i], n) /\ held' = n
    /\ phase' = "write"
    /\ UNCHANGED <<fds, ready, exited>>

Write(i) ==
    /\ phase = "write" /\ i = Lowest(ready) /\ Replied(fds[i], held)
    /\ phase' = "loop" /\ held' = 0 /\ Handled(i)
    /\ UNCHANGED <<fds, exited>>

\* error(1, errno, "write failed"), or SIGPIPE.
WriteFails(i) ==
    /\ phase = "write" /\ i = Lowest(ready) /\ peer[fds[i]] = "reset"
    /\ exited' = TRUE
    /\ UNCHANGED <<fds, ready, phase, held, clientVars>>

Ended_AnyEnd(i) == peer[fds[i]] # "up"

Ended(i) == unread[fds[i]] = 0 /\ peer[fds[i]] # "up"

Close_KeepSlot(i) ==
    /\ At(i) /\ Ended(i)
    /\ Closed(fds[i]) /\ Handled(i)
    /\ UNCHANGED <<fds, phase, held, exited>>

\* The end of the stream and ECONNRESET are treated alike.
Close(i) ==
    /\ At(i) /\ Ended(i)
    /\ Closed(fds[i]) /\ Handled(i)
    /\ fds' = [fds EXCEPT ![i] = NoConn]
    /\ UNCHANGED <<phase, held, exited>>

Again ==
    /\ phase = "loop" /\ ready = {}
    /\ phase' = "poll"
    /\ UNCHANGED <<fds, ready, held, exited, clientVars>>

-----------------------------------------------------------------------------

Server ==
    /\ ~exited
    /\ \/ Poll \/ AcceptFails \/ Again
       \/ \E c \in Conn : Accept(c)
       \/ \E i \in Slots : Read(i) \/ Write(i) \/ WriteFails(i) \/ Close(i)

Next == Server \/ (~exited /\ (\E c \in Conn : ClientStep(c)) /\ UNCHANGED serverVars)

Spec == Init /\ [][Next]_vars

\* The process runs, clients read what it writes and end some day.
LiveSpec ==
    /\ Spec
    /\ WF_vars(Server)
    /\ \A c \in Conn : WF_vars(~exited /\ Fin(c) /\ UNCHANGED serverVars)

-----------------------------------------------------------------------------
(* Properties *)

Service == INSTANCE EchoService WITH MayRefuse <- FALSE

\* Every variable stays in its range.
TypeOK ==
    /\ ClientTypeOK
    /\ fds \in [Slots -> Conn \cup {NoConn}]
    /\ ready \subseteq Slots
    /\ phase \in {"poll", "accept", "loop", "write"}
    /\ held \in 0 .. MaxSent /\ (phase # "write" => held = 0)
    /\ exited \in BOOLEAN

\* A slot holds an open connection, no two slots the same one, and what is
\* still to be handled has something to read: the blocking read never stops the
\* server, although slots are reused.
SlotsAreOpen ==
    /\ TypeOK
    /\ Placed \subseteq Open
    /\ \A i, j \in Slots : fds[i] = fds[j] /\ fds[i] # NoConn => i = j
    /\ \A i \in ready : fds[i] # NoConn /\ (phase # "write" => Readable(fds[i]))

\* What clients see is an echo service: the slots mix no connections up, and what
\* has arrived with the end of the stream is echoed before the close.
ImplementsService == Service!Spec

\* Connections that are open and that poll will never report.
Lost == Open \ Placed

\* A connection is lost only when it is accepted with every slot in use.
LostOnlyWhenFull == [][Lost' \subseteq Lost \/ Empty = {}]_vars

\* Every connection that is not lost is served to its end.
EventuallyServed ==
    \A c \in Conn : stage[c] = "backlog" ~> stage[c] = "closed" \/ c \in Lost \/ exited
=============================================================================
