---------------------------- MODULE EventLoopsProofs ----------------------------
(***************************************************************************)
(* Theorems about the two event loops around epoll and the hash table.  Of *)
(* EpollServer, for any number of connections and chunks: the events of a  *)
(* batch still hold when their turn comes, and clients get an echo         *)
(* service.  Of EventLoop, for any number of descriptors, slots and calls: *)
(* each slot that poll reports is handled once, and for an event that is   *)
(* there.  Of Dict, for any strings and hashes: every entry is where a     *)
(* lookup searches it, and counted, and callers see a map.                 *)
(***************************************************************************)
EXTENDS EventLoopsMC, FiniteSetTheorems, SequenceTheorems, TLAPS

-----------------------------------------------------------------------------
(* The epoll server *)


\* An event of a connection, and the one that epoll_wait reports.
About(c, b) == [conn |-> c, bad |-> b]
Report(c) == About(c, peer[c] = "reset")

Shapes ==
    /\ ClientTypeOK
    /\ events \subseteq [conn : Conn, bad : BOOLEAN] \cup {Listen}

Flags == edge \in BOOLEAN /\ exited \in BOOLEAN /\ careful \in BOOLEAN

\* A chunk is unread, echoed or lost.
Counts == \A c \in Conn : unread[c] + echoed[c] <= sent[c]

ListenHolds == Listen \in events => Backlog # {}

EventsHold == \A e \in events \ {Listen} : e.conn \in Ready

\* A batch has one event for a connection, so that its handling, and its close,
\* makes no other one stale.
OneEvent == \A e, f \in events \ {Listen} : e.conn = f.conn => e = f

IInv ==
    /\ Shapes /\ Flags /\ full \in [Conn -> BOOLEAN]
    /\ Counts /\ ListenHolds /\ EventsHold /\ OneEvent

-----------------------------------------------------------------------------

LEMMA InitHolds == Init => IInv
<1> USE ClientAssumption, EpollAssumption DEF Init, ClientInit
<1>1. Init => Shapes
  BY DEF Shapes, ClientTypeOK
<1>2. Init => Flags
  BY Zenon DEF Flags
<1>3. Init => full \in [Conn -> BOOLEAN]
  OBVIOUS
<1>4. Init => Counts /\ ListenHolds /\ EventsHold /\ OneEvent
  BY DEF Counts, ListenHolds, EventsHold, OneEvent
<1> QED
  BY <1>1, <1>2, <1>3, <1>4 DEF IInv

\* While the batch stays as it is, or loses events, it is enough that nothing
\* in it comes to an end.
LEMMA BatchKept ==
  ASSUME IInv, events' \subseteq events, Backlog \subseteq Backlog', Ready \subseteq Ready'
  PROVE  ListenHolds' /\ EventsHold' /\ OneEvent'
  BY DEF IInv, ListenHolds, EventsHold, OneEvent

\* The event of c is handled: c may end, and no event that is left is about it.
LEMMA EventHandled ==
  ASSUME IInv, NEW c \in Conn, NEW b \in BOOLEAN, Handle(About(c, b)),
         Backlog' = Backlog, Ready \ {c} \subseteq Ready'
  PROVE  events' \subseteq events /\ ListenHolds' /\ EventsHold' /\ OneEvent'
<1> DEFINE e == About(c, b)
<1>1. e \in [conn : Conn, bad : BOOLEAN] /\ e.conn = c
  BY Zenon DEF About
<1>2. e \in events \ {Listen}
  BY <1>1, EpollAssumption DEF Handle
<1>3. \A f \in events' \ {Listen} : f \in events \ {Listen} /\ f # e
  BY DEF Handle
<1> HIDE DEF e
<1>4. \A f \in events' \ {Listen} : f.conn # c
  BY <1>1, <1>2, <1>3 DEF IInv, OneEvent
<1> QED
  BY <1>3, <1>4 DEF Handle, IInv, ListenHolds, EventsHold, OneEvent

\* c is ready when its event is handled, and so open.
LEMMA HandledIsReady ==
  ASSUME IInv, NEW c, NEW b \in BOOLEAN, Handle(About(c, b)), c \in Conn
  PROVE  c \in Ready /\ stage[c] = "open"
<1> DEFINE e == About(c, b)
<1>1. e \in [conn : Conn, bad : BOOLEAN] /\ e.conn = c
  BY Zenon DEF About
<1>2. e \in events \ {Listen}
  BY <1>1, EpollAssumption DEF Handle
<1> HIDE DEF e
<1> QED
  BY <1>1, <1>2 DEF IInv, EventsHold, Ready, Open

-----------------------------------------------------------------------------

\* Clients end nothing that is in the batch.
LEMMA ClientKeeps ==
  ASSUME IInv, NEW c \in Conn, Client(c)
  PROVE  IInv'
<1> USE DEF IInv
<1>1. CASE Arrive(c)
  <2> USE <1>1 DEF Arrive, Connect
  <2>1. Shapes' /\ Counts' /\ full' \in [Conn -> BOOLEAN]
    BY DEF Shapes, ClientTypeOK, Counts
  <2>2. Flags'
    BY Zenon DEF Flags
  <2>3. Backlog \subseteq Backlog' /\ Ready \subseteq Ready'
    BY DEF Backlog, Ready, Open, Shapes, ClientTypeOK
  <2> QED
    BY <2>1, <2>2, <2>3, BatchKept
<1>2. CASE Drain(c)
  <2> USE <1>2 DEF Drain, clientVars
  <2>1. Shapes' /\ Counts' /\ full' \in [Conn -> BOOLEAN]
    BY DEF Shapes, ClientTypeOK, Counts
  <2>2. Flags'
    BY Zenon DEF Flags
  <2>3. Backlog \subseteq Backlog' /\ Ready \subseteq Ready'
    BY DEF Backlog, Ready, Open
  <2> QED
    BY <2>1, <2>2, <2>3, BatchKept
<1>3. CASE Speak(c)
  <2>1. (Send(c) \/ Fin(c) \/ Reset(c)) /\ UNCHANGED serverVars
    BY <1>3, Zenon DEF Speak, SendOne
  <2> USE ClientAssumption DEF Send, Fin, Reset
  <2>2. Shapes' /\ Counts'
    BY <2>1 DEF serverVars, Shapes, ClientTypeOK, Counts
  <2>3. Flags' /\ full' \in [Conn -> BOOLEAN]
    BY <2>1, Zenon DEF serverVars, Flags
  <2>4. Backlog \subseteq Backlog' /\ Ready \subseteq Ready'
    BY <2>1 DEF Backlog, Ready, Open, Shapes, ClientTypeOK
  <2> QED
    BY <2>1, <2>2, <2>3, <2>4, BatchKept DEF serverVars
<1> QED
  BY <1>1, <1>2, <1>3 DEF Client

\* epoll_wait reports what holds, with one event for each descriptor.
LEMMA WaitKeeps ==
  ASSUME IInv, Wait
  PROVE  IInv'
<1> USE DEF IInv, Wait, clientVars
<1>1. \A e \in events' \ {Listen} : \E c \in Ready : e = Report(c)
  BY Zenon DEF Report, About
<1>2. \A c \in Conn : Report(c) \in [conn : Conn, bad : BOOLEAN] /\ Report(c).conn = c
  <2> TAKE c \in Conn
  <2>1. (peer[c] = "reset") \in BOOLEAN
    BY Zenon
  <2> QED
    BY <2>1, Zenon DEF Report, About
<1>3. Ready' = Ready /\ Ready \subseteq Conn /\ Backlog' = Backlog
  BY DEF Ready, Open, Backlog
<1>4. Shapes' /\ Counts'
  <2>1. events' \subseteq [conn : Conn, bad : BOOLEAN] \cup {Listen}
    BY <1>1, <1>2, <1>3
  <2> QED
    BY <2>1 DEF Shapes, ClientTypeOK, Counts
<1>5. Flags' /\ full' \in [Conn -> BOOLEAN]
  BY Zenon DEF Flags
<1>6. ListenHolds'
  <2>1. Listen \in events' => Listen \in {l \in {Listen} : edge /\ Backlog # {}}
    <3> HAVE Listen \in events'
    <3>1. \A c \in Ready : Listen # Report(c)
      BY <1>2, <1>3, EpollAssumption
    <3> QED
      BY <3>1, Zenon DEF Report, About
  <2> QED
    BY <2>1, <1>3 DEF ListenHolds
<1>7. EventsHold' /\ OneEvent'
  BY <1>1, <1>2, <1>3 DEF EventsHold, OneEvent
<1> QED
  BY <1>4, <1>5, <1>6, <1>7

\* Only the event of the listening socket takes from the backlog.
LEMMA ListenKeeps ==
  ASSUME IInv, AcceptFails \/ \E c \in Conn : AcceptOne(c)
  PROVE  IInv'
<1> USE DEF IInv, AcceptFails, AcceptOne, Accepted, Handle, clientVars
<1>1. Shapes' /\ Counts' /\ full' \in [Conn -> BOOLEAN]
  BY DEF Shapes, ClientTypeOK, Counts
<1>2. Flags'
  BY Zenon DEF Flags
<1>3. events' \subseteq events /\ Listen \notin events' /\ Ready \subseteq Ready'
  BY DEF Ready, Open, Shapes, ClientTypeOK, Backlog
<1>4. ListenHolds' /\ EventsHold' /\ OneEvent'
  BY <1>3 DEF ListenHolds, EventsHold, OneEvent
<1> QED
  BY <1>1, <1>2, <1>4

\* The descriptor is closed.
LEMMA CloseKeeps ==
  ASSUME IInv, NEW c \in Conn, HangUp(c) \/ Eof(c)
  PROVE  IInv'
<1> USE DEF IInv, Closed
<1>1. PICK b \in BOOLEAN : Handle(About(c, b))
  BY Zenon DEF HangUp, Eof, About
<1>2. Closed(c) /\ UNCHANGED <<full, exited, edge, careful>>
  BY Zenon DEF HangUp, Eof, Handle
<1>3. stage[c] = "open"
  BY <1>1, HandledIsReady
<1>4. Backlog' = Backlog /\ Ready \ {c} \subseteq Ready'
  BY <1>2, <1>3 DEF Backlog, Ready, Open, Shapes, ClientTypeOK
<1>5. events' \subseteq events /\ ListenHolds' /\ EventsHold' /\ OneEvent'
  BY <1>1, <1>4, EventHandled
<1>6. Shapes' /\ Counts'
  BY <1>2, <1>5 DEF Shapes, ClientTypeOK, Counts
<1>7. Flags' /\ full' \in [Conn -> BOOLEAN]
  BY <1>2, Zenon DEF Flags
<1> QED
  BY <1>5, <1>6, <1>7

\* One read, and one write of what was read.
LEMMA EchoKeeps ==
  ASSUME IInv, NEW c \in Conn, Echo(c)
  PROVE  IInv'
<1> USE DEF IInv
<1>1. Handle(About(c, FALSE)) /\ UNCHANGED <<exited, edge, careful, stage, peer, sent>>
  BY Zenon DEF Echo, Handle, About
<1>2. PICK n \in 1 .. unread[c], k \in 0 .. MaxSent :
        /\ k <= n
        /\ unread' = [unread EXCEPT ![c] = @ - n]
        /\ echoed' = [echoed EXCEPT ![c] = @ + k]
        /\ full' = [full EXCEPT ![c] = k < n]
  <2>1. PICK n \in 1 .. unread[c] :
          \E k \in {0} \cup {n} \cup 1 .. n :
            /\ unread' = [unread EXCEPT ![c] = @ - n]
            /\ echoed' = [echoed EXCEPT ![c] = @ + k]
            /\ full' = [full EXCEPT ![c] = k < n]
    BY Zenon DEF Echo
  <2>2. unread[c] \in 0 .. MaxSent
    BY DEF Shapes, ClientTypeOK
  <2>3. \A k \in {0} \cup {n} \cup 1 .. n : k \in 0 .. MaxSent /\ k <= n
    BY <2>2, ClientAssumption
  <2> QED
    BY <2>1, <2>3
<1>3. Backlog' = Backlog /\ Ready \ {c} \subseteq Ready'
  BY <1>1, <1>2 DEF Backlog, Ready, Open
<1>4. events' \subseteq events /\ ListenHolds' /\ EventsHold' /\ OneEvent'
  BY <1>1, <1>3, EventHandled
<1>5. Shapes' /\ Counts'
  BY <1>1, <1>2, <1>4, ClientAssumption DEF Shapes, ClientTypeOK, Counts
<1>6. Flags'
  BY <1>1, Zenon DEF Flags
<1>7. full' \in [Conn -> BOOLEAN]
  <2>1. (k < n) \in BOOLEAN
    BY ClientAssumption
  <2> QED
    BY <1>2, <2>1
<1> QED
  BY <1>4, <1>5, <1>6, <1>7

\* The read or the write meets a reset.
LEMMA FailKeeps ==
  ASSUME IInv, NEW c \in Conn, ReadFails(c) \/ EchoFails(c)
  PROVE  IInv'
<1> USE DEF IInv
<1>1. Handle(About(c, FALSE)) /\ exited' \in BOOLEAN
  BY Zenon DEF ReadFails, EchoFails, About, Flags
<1>2. UNCHANGED <<full, edge, careful, stage, peer, sent, echoed>>
  BY Zenon DEF ReadFails, EchoFails, Handle, Received, clientVars
<1>3. /\ unread' \in [Conn -> 0 .. MaxSent] /\ \A b \in Conn : unread'[b] <= unread[b]
      /\ \A b \in Conn \ {c} : unread'[b] = unread[b]
  BY ClientAssumption DEF ReadFails, EchoFails, Received, clientVars, Shapes, ClientTypeOK
<1>4. Backlog' = Backlog /\ Ready \ {c} \subseteq Ready'
  BY <1>2, <1>3 DEF Backlog, Ready, Open
<1>5. events' \subseteq events /\ ListenHolds' /\ EventsHold' /\ OneEvent'
  BY <1>1, <1>4, EventHandled
<1>6. Shapes' /\ Counts'
  BY <1>2, <1>3, <1>5, ClientAssumption DEF Shapes, ClientTypeOK, Counts
<1>7. Flags' /\ full' \in [Conn -> BOOLEAN]
  BY <1>1, <1>2, Zenon DEF Flags
<1> QED
  BY <1>5, <1>6, <1>7

LEMMA StutterKeeps ==
  ASSUME IInv, UNCHANGED vars
  PROVE  IInv'
<1> USE DEF IInv, vars, serverVars, clientVars
<1>1. Shapes' /\ Counts' /\ full' \in [Conn -> BOOLEAN]
  BY DEF Shapes, ClientTypeOK, Counts
<1>2. Flags'
  BY Zenon DEF Flags
<1>3. ListenHolds' /\ EventsHold' /\ OneEvent'
  BY DEF ListenHolds, EventsHold, OneEvent, Backlog, Ready, Open
<1> QED
  BY <1>1, <1>2, <1>3

LEMMA Invariant == Spec => []IInv
<1>1. IInv /\ [Next]_vars => IInv'
  <2> SUFFICES ASSUME IInv, [Next]_vars PROVE IInv'
    OBVIOUS
  <2> QED
    BY ClientKeeps, WaitKeeps, ListenKeeps, CloseKeeps, EchoKeeps, FailKeeps, StutterKeeps
    DEF Next, Server
<1> QED
  BY InitHolds, <1>1, PTL DEF Spec

\* Whatever clients do between epoll_wait and the turn of an event, and whatever
\* the events before it did: accept finds a connection and does not block the
\* server, and read gets an open descriptor.
THEOREM BatchStaysTrue == Spec => []EventsStillHold
<1>1. IInv => EventsStillHold
  <2> SUFFICES ASSUME IInv PROVE EventsStillHold
    OBVIOUS
  <2>1. TypeOK
    BY Zenon DEF IInv, Shapes, Flags, TypeOK
  <2> QED
    BY <2>1, Zenon DEF IInv, ListenHolds, EventsHold, EventsStillHold
<1> QED
  BY Invariant, <1>1, PTL

-----------------------------------------------------------------------------

\* A bad event is about a connection that was reset, and stays so.
BadHolds == \A c \in Conn : About(c, TRUE) \in events => peer[c] = "reset"

\* Nothing of what a careful client sent is lost, unless it resets.
Kept ==
    careful = TRUE =>
        \A c \in Conn : /\ full[c] = FALSE
                        /\ peer[c] # "reset" => unread[c] + echoed[c] = sent[c]

\* A connection that its client ended is closed when it has been read.
ReadToTheEnd ==
    \A c \in Conn : stage[c] = "closed" /\ peer[c] = "fin" => unread[c] = 0

Careful == BadHolds /\ Kept /\ ReadToTheEnd

LEMMA InitCareful == Init => Careful
  BY DEF Init, ClientInit, Careful, BadHolds, Kept, ReadToTheEnd

LEMMA ClientCareful ==
  ASSUME IInv, Careful, NEW c \in Conn, Client(c)
  PROVE  Careful'
<1> USE DEF IInv, Shapes, ClientTypeOK, Careful, BadHolds, Kept, ReadToTheEnd, serverVars, clientVars
<1>1. CASE Arrive(c)
  <2>1. Connect(c) /\ UNCHANGED <<events, full, careful>>
    BY <1>1, Zenon DEF Arrive
  <2> QED
    BY <2>1 DEF Connect, About
<1>2. CASE Drain(c)
  <2>1. full' = [full EXCEPT ![c] = FALSE] /\ UNCHANGED <<events, careful, clientVars>>
    BY <1>2, Zenon DEF Drain
  <2> QED
    BY <2>1 DEF About
<1>3. CASE Speak(c)
  <2>1. Exists(c) /\ (Send(c) \/ Fin(c) \/ Reset(c)) /\ UNCHANGED <<events, full, careful>>
    BY <1>3, Zenon DEF Speak, SendOne, Send, Fin, Reset
  <2>2. BadHolds' /\ ReadToTheEnd'
    BY <2>1 DEF Exists, Send, Fin, Reset, About
  <2>3. Kept'
    BY <2>1, ClientAssumption DEF Send, Fin, Reset
  <2> QED
    BY <2>2, <2>3
<1> QED
  BY <1>1, <1>2, <1>3 DEF Client

LEMMA WaitCareful ==
  ASSUME IInv, Careful, Wait
  PROVE  Careful'
<1>1. ASSUME NEW c \in Conn, About(c, TRUE) \in events' PROVE peer'[c] = "reset"
  <2>1. About(c, TRUE) \in [conn : Conn, bad : BOOLEAN]
    BY Zenon DEF About
  <2>2. PICK d \in Ready : About(c, TRUE) = Report(d)
    BY <1>1, <2>1, EpollAssumption, Zenon DEF Wait, Report, About
  <2>3. c = d /\ TRUE = (peer[d] = "reset")
    BY <2>2, Zenon DEF Report, About
  <2> QED
    BY <2>3 DEF Wait, clientVars
<1>2. Kept' /\ ReadToTheEnd'
  BY DEF Careful, Kept, ReadToTheEnd, Wait, clientVars
<1> QED
  BY <1>1, <1>2 DEF Careful, BadHolds

\* The events of the listening socket and stuttering.
LEMMA ListenCareful ==
  ASSUME IInv, Careful, AcceptFails \/ (\E c \in Conn : AcceptOne(c)) \/ UNCHANGED vars
  PROVE  Careful'
<1>1. /\ UNCHANGED <<full, careful, peer, sent, unread, echoed>>
      /\ events' \subseteq events
      /\ UNCHANGED stage \/ \E c \in Conn : stage' = [stage EXCEPT ![c] = "open"]
  BY DEF AcceptFails, AcceptOne, Accepted, Handle, vars, serverVars, clientVars
<1> QED
  BY <1>1 DEF IInv, Shapes, ClientTypeOK, Careful, BadHolds, Kept, ReadToTheEnd, About

\* HangUp closes what was reset, Eof what has been read.
LEMMA CloseCareful ==
  ASSUME IInv, Careful, NEW c \in Conn, HangUp(c) \/ Eof(c)
  PROVE  Careful'
<1>1. Closed(c) /\ UNCHANGED <<full, careful>> /\ events' \subseteq events
  BY Zenon DEF HangUp, Eof, Handle
<1>2. peer[c] = "reset" \/ unread[c] = 0
  BY Zenon DEF HangUp, Eof, AtEof, Handle, Careful, BadHolds, About
<1> QED
  BY <1>1, <1>2 DEF IInv, Shapes, ClientTypeOK, Careful, BadHolds, Kept, ReadToTheEnd, Closed, About

\* A send buffer that is never full takes all that was read.
LEMMA EchoCareful ==
  ASSUME IInv, Careful, NEW c \in Conn, Echo(c)
  PROVE  Careful'
<1>1. UNCHANGED <<careful, stage, peer, sent>> /\ events' \subseteq events
  BY Zenon DEF Echo, Handle
<1>2. stage[c] = "open"
  <2>1. Handle(About(c, FALSE))
    BY Zenon DEF Echo, About
  <2> QED
    BY <2>1, HandledIsReady
<1>3. BadHolds'
  BY <1>1 DEF Careful, BadHolds, About
<1>4. ReadToTheEnd'
  <2>1. \A b \in Conn \ {c} : unread'[b] = unread[b]
    BY DEF Echo, IInv, Shapes, ClientTypeOK
  <2> QED
    BY <1>1, <1>2, <2>1 DEF Careful, ReadToTheEnd
<1>5. ASSUME careful = TRUE PROVE Kept'
  <2>1. full[c] = FALSE
    BY <1>5 DEF Careful, Kept
  <2>2. PICK n \in 1 .. unread[c] :
          /\ unread' = [unread EXCEPT ![c] = @ - n]
          /\ echoed' = [echoed EXCEPT ![c] = @ + n]
          /\ full' = [full EXCEPT ![c] = n < n]
    BY <1>5, <2>1, Zenon DEF Echo
  <2>3. (n < n) = FALSE
    BY ClientAssumption DEF IInv, Shapes, ClientTypeOK
  <2> QED
    BY <1>1, <1>5, <2>2, <2>3, ClientAssumption DEF IInv, Shapes, ClientTypeOK, Careful, Kept
<1> QED
  BY <1>1, <1>3, <1>4, <1>5 DEF Careful, Kept

LEMMA FailCareful ==
  ASSUME IInv, Careful, NEW c \in Conn, ReadFails(c) \/ EchoFails(c)
  PROVE  Careful'
<1>1. /\ UNCHANGED <<full, careful, stage, peer, sent, echoed>> /\ events' \subseteq events
      /\ peer[c] = "reset"
  BY Zenon DEF ReadFails, EchoFails, Handle, Received, clientVars
<1>2. \A b \in Conn \ {c} : unread'[b] = unread[b]
  BY DEF ReadFails, EchoFails, Received, clientVars, IInv, Shapes, ClientTypeOK
<1> QED
  BY <1>1, <1>2 DEF Careful, BadHolds, Kept, ReadToTheEnd, About

LEMMA CarefulInvariant == Spec => []Careful
<1>1. IInv /\ Careful /\ [Next]_vars => Careful'
  <2> SUFFICES ASSUME IInv, Careful, [Next]_vars PROVE Careful'
    OBVIOUS
  <2> QED
    BY ClientCareful, WaitCareful, ListenCareful, CloseCareful, EchoCareful, FailCareful
    DEF Next, Server
<1> QED
  BY InitCareful, Invariant, <1>1, PTL DEF Spec

\* What a closed connection tells of its client's chunks.
EchoedBeforeClose ==
    \A c \in Conn : careful /\ stage[c] = "closed" /\ peer[c] = "fin" => Complete(c)

\* A careful client whose connection is closed at the end of its stream has got
\* everything back.
THEOREM NothingLost == Spec => []EchoedBeforeClose
<1>1. IInv /\ Careful => EchoedBeforeClose
  <2> SUFFICES ASSUME IInv, Careful, careful = TRUE,
                      NEW c \in Conn, stage[c] = "closed", peer[c] = "fin"
               PROVE  echoed[c] = sent[c]
    BY Zenon DEF EchoedBeforeClose, Complete, IInv, Flags
  <2> QED
    BY ClientAssumption DEF Careful, Kept, ReadToTheEnd, IInv, Shapes, ClientTypeOK
<1> QED
  BY Invariant, CarefulInvariant, <1>1, PTL

-----------------------------------------------------------------------------
(* The epoll server is an echo server *)

\* What a step of the server may do to what clients see.
Serves == Service!Next \/ \E c \in Conn : ClosedWithLoss(c)

\* Clients do to their connections what the service lets them do.
LEMMA ClientServes ==
  ASSUME IInv, NEW c \in Conn, Client(c)
  PROVE  Serves \/ UNCHANGED Service!serviceVars
<1>1. CASE Arrive(c)
  BY <1>1 DEF Arrive, Connect, Serves, Service!Next, Service!Connect, Service!Moves
<1>2. CASE Drain(c)
  BY <1>2 DEF Drain, clientVars, Service!serviceVars
<1>3. CASE Speak(c)
  <2>1. Service!Send(c) \/ Service!End(c)
    BY <1>3, Zenon DEF Speak, SendOne, Send, Fin, Reset, Exists, Service!Send, Service!End
  <2> QED
    BY <2>1, Zenon DEF Serves, Service!Next
<1> QED
  BY <1>1, <1>2, <1>3 DEF Client

\* accept takes the oldest connection.
LEMMA AcceptServes ==
  ASSUME NEW c \in Conn, AcceptOne(c)
  PROVE  Service!Accept(c)
<1>1. Accepted(c)
  BY Zenon DEF AcceptOne
<1> QED
  BY <1>1 DEF Accepted, Backlog, Service!Accept, Service!Moves

\* A connection is closed when it was reset, or when all has been read; a careful
\* client has then got it all back.
LEMMA CloseServes ==
  ASSUME IInv, Careful, NEW c \in Conn, HangUp(c) \/ Eof(c)
  PROVE  Service!Close(c) \/ ClosedWithLoss(c)
<1>1. PICK b \in BOOLEAN : Handle(About(c, b))
  BY Zenon DEF HangUp, Eof, About
<1>2. stage[c] = "open"
  BY <1>1, HandledIsReady
<1>3. Closed(c)
  BY Zenon DEF HangUp, Eof
<1>4. Service!Moves(c, "open", "closed") /\ UNCHANGED <<peer, sent, echoed>>
  BY <1>2, <1>3, Zenon DEF Closed, Service!Moves
<1>5. peer[c] = "reset" \/ (peer[c] = "fin" /\ unread[c] = 0)
  BY Zenon DEF HangUp, Eof, AtEof, Handle, Careful, BadHolds, About
<1>6. CASE peer[c] = "reset"
  BY <1>4, <1>6 DEF Service!Close
<1>7. CASE peer[c] = "fin" /\ unread[c] = 0 /\ careful = TRUE
  <2>1. echoed[c] = sent[c]
    BY <1>7, ClientAssumption DEF Careful, Kept, IInv, Shapes, ClientTypeOK
  <2> QED
    BY <1>4, <1>7, <2>1 DEF Service!Close
<1>8. CASE peer[c] = "fin" /\ unread[c] = 0 /\ ~careful
  BY <1>4, <1>8 DEF ClosedWithLoss
<1> QED
  BY <1>5, <1>6, <1>7, <1>8, Zenon DEF IInv, Flags

\* What is echoed was unread, and so had been sent and not been echoed.
LEMMA EchoServes ==
  ASSUME IInv, NEW c \in Conn, Echo(c)
  PROVE  Service!Echo(c) \/ UNCHANGED Service!serviceVars
<1>1. stage[c] = "open"
  <2>1. Handle(About(c, FALSE))
    BY Zenon DEF Echo, About
  <2> QED
    BY <2>1, HandledIsReady
<1>2. PICK n \in 1 .. unread[c] :
        \E k \in {0} \cup {n} \cup 1 .. n : echoed' = [echoed EXCEPT ![c] = @ + k]
  BY Zenon DEF Echo
<1>3. /\ unread[c] \in Nat /\ sent[c] \in Nat /\ echoed \in [Conn -> 0 .. MaxSent]
      /\ unread[c] + echoed[c] <= sent[c]
  BY ClientAssumption DEF IInv, Shapes, ClientTypeOK, Counts
<1>4. PICK k \in 0 .. n : echoed' = [echoed EXCEPT ![c] = @ + k]
  <2>1. \A k \in {0} \cup {n} \cup 1 .. n : k \in 0 .. n
    BY <1>3
  <2> QED
    BY <1>2, <2>1, Zenon
<1>5. peer[c] # "reset" /\ UNCHANGED <<stage, peer, sent>>
  BY Zenon DEF Echo
<1>6. CASE k = 0
  <2>1. echoed[c] + 0 = echoed[c]
    BY <1>3, ClientAssumption
  <2>2. echoed' = echoed
    BY <1>3, <1>4, <1>6, <2>1
  <2> QED
    BY <1>5, <2>2 DEF Service!serviceVars
<1>7. CASE k # 0
  <2>1. k \in 1 .. sent[c] - echoed[c]
    BY <1>3, <1>7, ClientAssumption
  <2> QED
    BY <1>1, <1>4, <1>5, <2>1, Zenon DEF Service!Echo
<1> QED
  BY <1>6, <1>7

\* The steps that clients do not see.
LEMMA RestServes ==
  ASSUME \/ Wait \/ AcceptFails \/ \E c \in Conn : ReadFails(c) \/ EchoFails(c)
         \/ UNCHANGED vars
  PROVE  UNCHANGED Service!serviceVars
  BY DEF Wait, AcceptFails, ReadFails, EchoFails, Received, vars, clientVars, Service!serviceVars

\* The epoll server implements the echo service, but for clients that do not read
\* what they are sent: those it may close with some of their chunks lost.
THEOREM EpollImplementsService == Spec => ImplementsService
<1>1. Init => Service!Init
  BY DEF Init, ClientInit, Service!Init
<1>2. IInv /\ Careful /\ [Next]_vars
        => [Service!Next \/ \E c \in Conn : ClosedWithLoss(c)]_(Service!serviceVars)
  <2> SUFFICES ASSUME IInv, Careful, [Next]_vars
               PROVE  Serves \/ UNCHANGED Service!serviceVars
    BY Zenon DEF Serves
  <2>1. CASE \E c \in Conn : Client(c)
    BY <2>1, ClientServes
  <2>2. CASE \E c \in Conn : AcceptOne(c)
    BY <2>2, AcceptServes, Zenon DEF Serves, Service!Next
  <2>3. CASE \E c \in Conn : HangUp(c) \/ Eof(c)
    BY <2>3, CloseServes, Zenon DEF Serves, Service!Next
  <2>4. CASE \E c \in Conn : Echo(c)
    BY <2>4, EchoServes, Zenon DEF Serves, Service!Next
  <2> QED
    BY <2>1, <2>2, <2>3, <2>4, RestServes, Zenon DEF Next, Server
<1> QED
  BY Invariant, CarefulInvariant, <1>1, <1>2, PTL DEF Spec, ImplementsService

-----------------------------------------------------------------------------
(* Induction, and functions that are defined by it *)

\* Every set of naturals that is not empty has a smallest element.
LEMMA Smallest ==
  ASSUME NEW T \in SUBSET Nat, T # {}
  PROVE  \E m \in T : \A n \in T : m <= n
<1> DEFINE R == OpToRel(<, Nat)
<1>1. IsWellFoundedOn(R, Nat)
  BY NatLessThanWellFounded
<1>2. \A m, n \in Nat : <<m, n>> \in R <=> m < n
  BY DEF OpToRel
<1> HIDE DEF R
<1>3. PICK m \in T : \A n \in T : ~ (<<n, m>> \in R)
  BY <1>1, WFMin
<1>4. ASSUME NEW n \in T PROVE m <= n
  <2>1. ~ (n < m)
    BY <1>2, <1>3
  <2> QED
    BY <2>1
<1> QED
  BY <1>4

\* A set that holds 0, and with n its successor, holds every natural.
LEMMA Induction ==
  ASSUME NEW S, 0 \in S, \A n \in Nat : n \in S => n + 1 \in S
  PROVE  Nat \subseteq S
<1> DEFINE T == Nat \ S
<1>1. SUFFICES ASSUME T # {} PROVE FALSE
  OBVIOUS
<1>2. PICK m \in T : \A n \in T : m <= n
  BY <1>1, Smallest
<1>3. m # 0 /\ m - 1 \in Nat /\ m - 1 \in S
  BY <1>2
<1> QED
  BY <1>2, <1>3

Iterates(f, a, step) == f[0] = a /\ \A n \in Nat : f[n + 1] = step[f[n]]

\* Iterating a function defines one on the naturals.
LEMMA Iterated ==
  ASSUME NEW V, NEW a \in V, NEW step \in [V -> V]
  PROVE  \E f \in [Nat -> V] : Iterates(f, a, step)
<1> DEFINE Upto(n) == {g \in [0 .. n -> V] : g[0] = a /\ \A i \in 0 .. n - 1 : g[i + 1] = step[g[i]]}
           Good == {n \in Nat : \E g : Upto(n) = {g}}
<1>0. ASSUME NEW n \in Nat, NEW k \in Upto(n + 1) PROVE [i \in 0 .. n |-> k[i]] \in Upto(n)
  OBVIOUS
<1>1. 0 \in Good
  <2> DEFINE g == [i \in {0} |-> a]
  <2>1. g \in Upto(0)
    OBVIOUS
  <2>2. \A h \in Upto(0) : h = g
    OBVIOUS
  <2> QED
    BY <2>1, <2>2
<1>2. ASSUME NEW n \in Nat, n \in Good PROVE n + 1 \in Good
  <2>1. PICK g : Upto(n) = {g}
    BY <1>2
  <2>2. g \in [0 .. n -> V] /\ g[0] = a /\ \A i \in 0 .. n - 1 : g[i + 1] = step[g[i]]
    BY <2>1
  <2> DEFINE h == [i \in 0 .. n + 1 |-> IF i = n + 1 THEN step[g[n]] ELSE g[i]]
  <2>3. h \in Upto(n + 1)
    BY <2>2
  <2>4. ASSUME NEW k \in Upto(n + 1) PROVE k = h
    <3> DEFINE r == [i \in 0 .. n |-> k[i]]
    <3>1. r \in Upto(n)
      BY <1>0
    <3>2. r = g
      BY <2>1, <3>1
    <3>3. \A i \in 0 .. n : k[i] = g[i]
      BY <3>2
    <3>4. k[n + 1] = step[g[n]]
      BY <3>3
    <3> QED
      BY <3>3, <3>4
  <2> HIDE DEF h, Upto
  <2>5. Upto(n + 1) = {h}
    BY <2>3, <2>4
  <2> QED
    BY <2>5
<1>3. Nat \subseteq Good
  <2> HIDE DEF Good
  <2> QED
    BY <1>1, <1>2, Induction
<1> DEFINE G(n) == CHOOSE g : g \in Upto(n)
           f == [n \in Nat |-> G(n)[n]]
<1>4. ASSUME NEW n \in Nat PROVE Upto(n) = {G(n)} /\ G(n) \in Upto(n)
  <2> HIDE DEF Upto
  <2> QED
    BY <1>3
<1>5. ASSUME NEW n \in Nat PROVE \A i \in 0 .. n : G(n + 1)[i] = G(n)[i]
  <2> DEFINE r == [i \in 0 .. n |-> G(n + 1)[i]]
  <2>1. G(n + 1) \in Upto(n + 1) /\ n + 1 \in Nat
    <3> HIDE DEF G, Upto
    <3> QED
      BY <1>4
  <2>2. r \in Upto(n)
    <3> HIDE DEF G, Upto
    <3> QED
      BY <2>1, <1>0
  <2>3. r = G(n)
    <3> HIDE DEF G, Upto, r
    <3> QED
      BY <1>4, <2>2
  <2> QED
    BY <2>3
<1>6. f \in [Nat -> V] /\ f[0] = a
  <2> HIDE DEF G
  <2> QED
    BY <1>4
<1>7. ASSUME NEW n \in Nat PROVE f[n + 1] = step[f[n]]
  <2> HIDE DEF G
  <2>1. G(n + 1)[n + 1] = step[G(n + 1)[n]]
    BY <1>4
  <2> QED
    BY <2>1, <1>5
<1> QED
  BY <1>6, <1>7 DEF Iterates

-----------------------------------------------------------------------------

\* Power is what its recursive definition says.
LEMMA PowerSteps ==
  Loop!Power \in [Nat -> Nat] /\ Loop!Power[0] = 1 /\ \A n \in Nat : Loop!Power[n + 1] = 2 * Loop!Power[n]
<1> DEFINE D(f) == [k \in Nat |-> IF k = 0 THEN 1 ELSE 2 * f[k - 1]]
           step == [m \in Nat |-> 2 * m]
           one == 1
<1>1. PICK f \in [Nat -> Nat] : Iterates(f, one, step)
  <2>1. one \in Nat /\ step \in [Nat -> Nat]
    OBVIOUS
  <2> HIDE DEF one, step
  <2> QED
    BY <2>1, Iterated
<1>2. f = D(f)
  <2>1. \A k \in Nat : k # 0 => f[k] = 2 * f[k - 1]
    <3> TAKE k \in Nat
    <3> HAVE k # 0
    <3>1. k - 1 \in Nat /\ (k - 1) + 1 = k
      OBVIOUS
    <3> QED
      BY <1>1, <3>1 DEF Iterates
  <2> QED
    BY <1>1, <2>1 DEF Iterates
<1>3. Loop!Power = D(Loop!Power)
  BY <1>2 DEF Loop!Power
<1> HIDE DEF D
<1>4. \A k \in Nat : Loop!Power[k] = IF k = 0 THEN 1 ELSE 2 * Loop!Power[k - 1]
  BY <1>3 DEF D
<1> DEFINE S == {n \in Nat : Loop!Power[n] \in Nat}
<1>5. Nat \subseteq S
  <2>1. 0 \in S
    BY <1>4
  <2>2. ASSUME NEW n \in Nat, n \in S PROVE n + 1 \in S
    BY <1>4, <2>2
  <2> HIDE DEF S
  <2> QED
    BY <2>1, <2>2, Induction
<1>6. Loop!Power \in [Nat -> Nat]
  <2>1. Loop!Power = [k \in Nat |-> Loop!Power[k]]
    BY <1>3 DEF D
  <2> QED
    BY <1>5, <2>1
<1>7. \A n \in Nat : Loop!Power[n + 1] = 2 * Loop!Power[n]
  BY <1>4
<1> QED
  BY <1>4, <1>6, <1>7

\* Doublings outgrow every number, and follow one another.
LEMMA PowerGrows ==
  /\ \A n \in Nat : Loop!Power[n] > n
  /\ \A j, k \in Nat : Loop!Power[j + k] = Loop!Power[j] * Loop!Power[k]
<1> DEFINE S == {n \in Nat : Loop!Power[n] > n}
<1>1. Nat \subseteq S
  <2>1. 0 \in S
    BY PowerSteps
  <2>2. ASSUME NEW n \in Nat, n \in S PROVE n + 1 \in S
    <3>1. Loop!Power[n] \in Nat /\ Loop!Power[n] > n /\ Loop!Power[n + 1] = 2 * Loop!Power[n]
      BY PowerSteps, <2>2
    <3> QED
      BY <3>1
  <2> HIDE DEF S
  <2> QED
    BY <2>1, <2>2, Induction
<1>2. ASSUME NEW j \in Nat, NEW k \in Nat
      PROVE  Loop!Power[j + k] = Loop!Power[j] * Loop!Power[k]
  <2> DEFINE T == {n \in Nat : Loop!Power[j + n] = Loop!Power[j] * Loop!Power[n]}
  <2>1. 0 \in T
    BY PowerSteps
  <2>2. ASSUME NEW n \in Nat, n \in T PROVE n + 1 \in T
    <3>1. /\ Loop!Power[j] \in Nat /\ Loop!Power[n] \in Nat
          /\ Loop!Power[n + 1] = 2 * Loop!Power[n]
          /\ Loop!Power[(j + n) + 1] = 2 * Loop!Power[j + n]
      BY PowerSteps
    <3>2. Loop!Power[j + n] = Loop!Power[j] * Loop!Power[n]
      BY <2>2
    <3>3. \A a, p \in Nat : 2 * (a * p) = a * (2 * p)
      OBVIOUS
    <3>4. (j + n) + 1 = j + (n + 1)
      OBVIOUS
    <3> QED
      BY <3>1, <3>2, <3>3, <3>4
  <2>3. Nat \subseteq T
    <3> HIDE DEF T
    <3> QED
      BY <2>1, <2>2, Induction
  <2> QED
    BY <2>3
<1> QED
  BY <1>1, <1>2

\* A product of naturals is no less than its factors, when none is 0.
LEMMA Products ==
  \A a, p \in Nat : /\ a * p \in Nat
                    /\ a > 0 => a * p >= p
                    /\ 2 * (a * p) = a * (2 * p)
<1> SUFFICES ASSUME NEW a \in Nat, NEW p \in Nat
             PROVE  a * p \in Nat /\ (a > 0 => a * p >= p) /\ 2 * (a * p) = a * (2 * p)
  OBVIOUS
<1>1. a > 0 => a * p = p + (a - 1) * p /\ a - 1 \in Nat
  OBVIOUS
<1>2. \A b, q \in Nat : b * q \in Nat
  OBVIOUS
<1> QED
  BY <1>1, <1>2

\* map_make_space makes the map so large that slot is in it, and doubles it no
\* further than that.
LEMMA GrownCovers ==
  ASSUME Loop!LoopAssumption, Loop!TypeOK, NEW slot \in Loop!Fd
  PROVE  /\ Loop!Grown(slot) \in {0} \cup {Default * Loop!Power[k] : k \in 0 .. MaxFd + 1}
         /\ Loop!Grown(slot) > slot /\ Loop!Grown(slot) >= available_num
<1> USE DEF Loop!LoopAssumption, Loop!Fd
<1>1. slot \in Nat /\ slot <= MaxFd /\ Default \in Nat /\ Default > 0
  OBVIOUS
<1>2. available_num \in {0} \cup {Default * Loop!Power[k] : k \in 0 .. MaxFd + 1}
  BY DEF Loop!TypeOK
<1>3. CASE available_num > slot
  BY <1>1, <1>2, <1>3, PowerSteps, Products DEF Loop!Grown
<1>4. CASE ~(available_num > slot)
  <2> DEFINE cur == IF available_num = 0 THEN Default ELSE available_num
             S == {n \in slot + 1 .. 2 * (slot + Default) :
                      \E k \in 0 .. slot + 1 : n = cur * Loop!Power[k]}
  <2>1. PICK j \in 0 .. MaxFd + 1 : cur = Default * Loop!Power[j] /\ (cur > slot => j = 0)
    <3>1. CASE available_num = 0
      BY <3>1, <1>1, PowerSteps
    <3>2. CASE available_num # 0
      <4>1. PICK j \in 0 .. MaxFd + 1 : available_num = Default * Loop!Power[j]
        BY <1>2, <3>2
      <4> QED
        BY <4>1, <3>2, <1>4, <1>1, PowerSteps, Products
    <3> QED
      BY <3>1, <3>2
  <2>2. cur \in Nat /\ cur > 0
    <3>1. Loop!Power[j] \in Nat /\ Loop!Power[j] > j /\ j \in Nat
      <4>1. j \in Nat
        BY <1>1
      <4> QED
        BY <4>1, PowerSteps, PowerGrows
    <3>2. Default * Loop!Power[j] \in Nat /\ Default * Loop!Power[j] >= Loop!Power[j]
      BY <1>1, <3>1, Products
    <3> QED
      BY <2>1, <3>1, <3>2
  <2>3. cur > slot => cur = Default
    BY <2>1, <1>1, PowerSteps
  <2> HIDE DEF cur
  <2>4. S # {}
    <3> DEFINE Enough == {k \in Nat : cur * Loop!Power[k] > slot}
    <3>1. slot \in Enough
      <4>1. Loop!Power[slot] \in Nat /\ Loop!Power[slot] > slot
        BY <1>1, PowerSteps, PowerGrows
      <4>2. cur * Loop!Power[slot] \in Nat /\ cur * Loop!Power[slot] >= Loop!Power[slot]
        BY <2>2, <4>1, Products
      <4> QED
        BY <1>1, <4>1, <4>2
    <3>2. PICK k \in Enough : \A n \in Enough : k <= n
      <4> HIDE DEF Enough
      <4>1. Enough \in SUBSET Nat
        BY DEF Enough
      <4> QED
        BY <3>1, <4>1, Smallest
    <3>3. k \in 0 .. slot + 1
      BY <3>1, <3>2, <1>1
    <3>4. cur * Loop!Power[k] \in slot + 1 .. 2 * (slot + Default)
      <4>1. cur * Loop!Power[k] \in Nat /\ cur * Loop!Power[k] > slot
        BY <2>2, <3>2, PowerSteps, Products
      <4>2. CASE k = 0
        <5>1. cur * Loop!Power[k] = cur
          BY <4>2, <2>2, PowerSteps
        <5> QED
          BY <5>1, <4>1, <2>3, <1>1
      <4>3. CASE k # 0
        <5>1. k - 1 \in Nat /\ ~(cur * Loop!Power[k - 1] > slot)
          BY <4>3, <3>2
        <5>2. Loop!Power[k] = 2 * Loop!Power[k - 1] /\ Loop!Power[k - 1] \in Nat
          BY <5>1, <4>3, PowerSteps
        <5>3. cur * Loop!Power[k] = 2 * (cur * Loop!Power[k - 1]) /\ cur * Loop!Power[k - 1] \in Nat
          BY <5>2, <2>2, Products
        <5> QED
          BY <5>1, <5>3, <4>1, <1>1
      <4> QED
        BY <4>2, <4>3
    <3> QED
      BY <3>3, <3>4
  <2> DEFINE n == Loop!Grown(slot)
  <2>5. n \in S /\ \A m \in S : n <= m
    <3>1. S \in SUBSET Nat
      BY <1>1
    <3>2. n = Loop!Min(S)
      BY <1>4 DEF Loop!Grown, cur
    <3> HIDE DEF S, n
    <3> QED
      BY <2>4, <3>1, <3>2, Smallest DEF Loop!Min
  <2> HIDE DEF n
  <2>6. n \in Nat /\ n > slot
    BY <2>5, <1>1
  <2>7. PICK k \in 0 .. slot + 1 : n = cur * Loop!Power[k]
    BY <2>5
  <2>8. n = Default * Loop!Power[j + k]
    <3>1. Loop!Power[j] \in Nat /\ Loop!Power[k] \in Nat /\ Loop!Power[j + k] = Loop!Power[j] * Loop!Power[k]
      <4>1. j \in Nat /\ k \in Nat
        BY <1>1
      <4> QED
        BY <4>1, PowerSteps, PowerGrows
    <3>2. \A a, p, q \in Nat : (a * p) * q = a * (p * q)
      OBVIOUS
    <3> QED
      BY <3>1, <3>2, <2>1, <2>7, <1>1
  <2>9. j + k <= MaxFd + 1
    <3>1. CASE k = 0
      BY <3>1, <2>1, <1>1
    <3>2. CASE k # 0
      <4>1. k - 1 \in 0 .. slot + 1 /\ Loop!Power[k] = 2 * Loop!Power[k - 1] /\ Loop!Power[k - 1] \in Nat
        BY <3>2, <1>1, PowerSteps
      <4>2. n = 2 * (cur * Loop!Power[k - 1]) /\ cur * Loop!Power[k - 1] \in Nat
        BY <4>1, <2>2, <2>7, Products
      <4>3. cur * Loop!Power[k - 1] <= slot
        <5> SUFFICES ASSUME cur * Loop!Power[k - 1] > slot PROVE FALSE
          BY <4>2, <1>1
        <5>1. n <= 2 * (slot + Default) /\ n >= 0
          BY <2>5, <1>1
        <5>2. cur * Loop!Power[k - 1] \in slot + 1 .. 2 * (slot + Default)
          BY <5>1, <4>2, <1>1
        <5>3. cur * Loop!Power[k - 1] \in S
          BY <5>2, <4>1
        <5> QED
          BY <5>3, <2>5, <2>6, <4>2
      <4>4. cur * Loop!Power[k - 1] = Default * (Loop!Power[j + (k - 1)])
        <5>1. /\ Loop!Power[j] \in Nat /\ Loop!Power[k - 1] \in Nat
              /\ Loop!Power[j + (k - 1)] = Loop!Power[j] * Loop!Power[k - 1]
          <6>1. j \in Nat /\ k - 1 \in Nat
            BY <4>1, <1>1
          <6> QED
            BY <6>1, PowerSteps, PowerGrows
        <5>2. \A a, p, q \in Nat : (a * p) * q = a * (p * q)
          OBVIOUS
        <5> QED
          BY <5>1, <5>2, <2>1, <1>1
      <4>5. j + (k - 1) \in Nat /\ Loop!Power[j + (k - 1)] \in Nat
        BY <4>1, PowerSteps
      <4>6. Loop!Power[j + (k - 1)] <= MaxFd
        BY <4>3, <4>4, <4>5, <1>1, Products
      <4> QED
        BY <4>5, <4>6, PowerGrows, <1>1
    <3> QED
      BY <3>1, <3>2
  <2>10. j + k \in 0 .. MaxFd + 1
    BY <2>9, <1>1
  <2>11. n >= available_num
    BY <1>1, <1>2, <1>4, <2>6, PowerSteps, Products
  <2> QED
    BY <2>6, <2>8, <2>10, <2>11 DEF n
<1> QED
  BY <1>3, <1>4

-----------------------------------------------------------------------------
(* The library: every slot that poll reported is handled exactly once *)

MapTypes ==
    /\ available_num \in {0} \cup {Default * Loop!Power[k] : k \in 0 .. MaxFd + 1}
    /\ entries \in [Loop!Fd -> (SUBSET Loop!Event) \cup {NoChannel}]
    /\ \A f \in Loop!Fd : entries[f] # NoChannel => f < available_num

SlotTypes ==
    /\ fds \in [Loop!Slots -> [fd : Loop!Fd \cup {-1}, events : SUBSET Loop!Event]]
    /\ revents \in [Loop!Slots -> (SUBSET Loop!Event) \cup {{"invalid"}}]

KernelTypes ==
    /\ interest \in [Loop!Fd -> (SUBSET Loop!Event) \cup {NoChannel}]
    /\ open \subseteq Loop!Fd /\ can \in [Loop!Fd -> SUBSET Loop!Event]

PhaseTypes == phase \in {"idle", "scan", "callback", "crashed", "exited", "cleared"}

LoopTypes == MapTypes /\ SlotTypes /\ KernelTypes /\ PhaseTypes

\* ready_num counts the slots that are still to be handled.
Counted ==
    /\ phase = "idle" => Loop!Reported = {}
    /\ phase \in {"scan", "callback"} =>
         ready_num = Cardinality(Loop!Reported) /\ ready_num > 0

LInv == Loop!LoopAssumption /\ LoopTypes /\ Counted

\* The library has its own instance of FiniteSets.
LEMMA SameCardinality == \A S : Loop!Cardinality(S) = Cardinality(S)
  BY DEF Loop!Cardinality, Cardinality

LEMMA TypesAreTypes == LoopTypes <=> Loop!TypeOK
  BY Zenon DEF LoopTypes, MapTypes, SlotTypes, KernelTypes, PhaseTypes, Loop!TypeOK

LEMMA LoopInit == ASSUME Loop!LoopAssumption, Loop!Init PROVE LInv
<1> USE DEF Loop!Init
<1>1. MapTypes
  <2>1. entries = [f \in Loop!Fd |-> NoChannel] /\ available_num = 0
    OBVIOUS
  <2> QED
    BY <2>1 DEF MapTypes
<1>2. SlotTypes
  BY DEF SlotTypes, Loop!Slots
<1>3. KernelTypes
  <2>1. interest = [f \in Loop!Fd |-> NoChannel] /\ can = [f \in Loop!Fd |-> {}] /\ open = {}
    OBVIOUS
  <2>2. interest \in [Loop!Fd -> (SUBSET Loop!Event) \cup {NoChannel}]
    BY <2>1
  <2>3. can \in [Loop!Fd -> SUBSET Loop!Event]
    BY <2>1
  <2> QED
    BY <2>1, <2>2, <2>3 DEF KernelTypes
<1>4. Counted
  BY DEF Counted, Loop!Reported
<1> QED
  BY <1>1, <1>2, <1>3, <1>4 DEF LInv, LoopTypes, PhaseTypes

LEMMA ReportedFinite ==
  ASSUME Loop!LoopAssumption
  PROVE  /\ Loop!Slots \subseteq Nat /\ IsFiniteSet(Loop!Slots)
         /\ Loop!Reported \subseteq Loop!Slots /\ IsFiniteSet(Loop!Reported)
<1>1. Size - 1 \in Int
  BY DEF Loop!LoopAssumption
<1>2. Loop!Slots \subseteq Nat /\ IsFiniteSet(Loop!Slots)
  BY <1>1, FS_Interval DEF Loop!Slots
<1>3. Loop!Reported \subseteq Loop!Slots
  BY DEF Loop!Reported
<1> QED
  BY <1>2, <1>3, FS_Subset

\* While the scan goes on there is a slot to handle, and At is the first.
LEMMA AtIsReported ==
  ASSUME LInv, phase \in {"scan", "callback"}
  PROVE  Loop!At \in Loop!Reported /\ Loop!At \in Loop!Slots
<1>1. Loop!Reported # {}
  BY FS_EmptySet DEF LInv, Counted
<1>2. Loop!Reported \in SUBSET Nat /\ Loop!Reported \subseteq Loop!Slots
  BY ReportedFinite DEF LInv
<1>3. PICK m \in Loop!Reported : \A n \in Loop!Reported : m <= n
  BY <1>1, <1>2, Smallest
<1> QED
  BY <1>2, <1>3 DEF Loop!At, Loop!Min

\* Nothing is reported or handled, though the program may end.
LEMMA CountKept ==
  ASSUME Counted, UNCHANGED <<revents, ready_num>>,
         phase' = phase \/ phase' \in {"crashed", "exited", "cleared"}
  PROVE  Counted'
<1>1. Loop!Reported' = Loop!Reported
  BY DEF Loop!Reported
<1> QED
  BY <1>1 DEF Counted

LEMMA HandledCounts ==
  ASSUME LInv, phase \in {"scan", "callback"}, Loop!Handled
  PROVE  /\ Counted' /\ phase' \in {"idle", "scan"}
         /\ revents' \in [Loop!Slots -> (SUBSET Loop!Event) \cup {{"invalid"}}]
<1>1. Loop!At \in Loop!Reported /\ Loop!At \in Loop!Slots
  BY AtIsReported
<1>2. Loop!Reported' = Loop!Reported \ {Loop!At}
  BY <1>1 DEF Loop!Handled, Loop!Reported, LInv, LoopTypes, SlotTypes
<1>3. IsFiniteSet(Loop!Reported)
  BY ReportedFinite DEF LInv
<1>4. Cardinality(Loop!Reported') = Cardinality(Loop!Reported) - 1 /\ IsFiniteSet(Loop!Reported')
  BY <1>1, <1>2, <1>3, FS_RemoveElement
<1>5. /\ ready_num' = Cardinality(Loop!Reported') /\ ready_num' \in Nat
      /\ ready_num' = 0 <=> Loop!Reported' = {}
  BY <1>4, FS_CardinalityType, FS_EmptySet DEF Loop!Handled, LInv, Counted
<1>6. phase' = IF ready_num' <= 0 \/ Loop!Reported' = {} THEN "idle" ELSE "scan"
  BY DEF Loop!Handled
<1>7. Counted' /\ phase' \in {"idle", "scan"}
  BY <1>5, <1>6 DEF Counted
<1> QED
  BY <1>7 DEF Loop!Handled, LInv, LoopTypes, SlotTypes

-----------------------------------------------------------------------------

\* What add, update and del do to the slots, the kernel and the phase.
LEMMA DispatcherKeeps ==
  ASSUME LInv, NEW f \in Loop!Fd, NEW ev \in SUBSET Loop!Event, UNCHANGED <<revents, ready_num>>,
         \/ Loop!PollAdd(f, ev) \/ Loop!EpollAdd(f, ev)
         \/ Loop!PollUpdate(f, ev) \/ Loop!EpollUpdate(f, ev)
         \/ Loop!PollDel(f) \/ Loop!EpollDel(f)
  PROVE  /\ SlotTypes' /\ phase' \in {phase, "exited"}
         /\ interest' \in [Loop!Fd -> (SUBSET Loop!Event) \cup {NoChannel}]
<1> USE DEF LInv, LoopTypes, SlotTypes, KernelTypes
<1>1. Loop!PollEvents(ev) \in SUBSET Loop!Event
  BY DEF Loop!PollEvents
<1>2. \A g \in Loop!Garbage(ev) : g \in SUBSET Loop!Event
  BY DEF Loop!Garbage
<1>3. CASE Loop!PollAdd(f, ev)
  BY <1>1, <1>3 DEF Loop!PollAdd
<1>4. CASE Loop!EpollAdd(f, ev) \/ Loop!EpollUpdate(f, ev)
  BY <1>2, <1>4 DEF Loop!EpollAdd, Loop!EpollUpdate, Loop!EpollCtl
<1>5. CASE Loop!PollUpdate(f, ev)
  <2>1. \A g \in Loop!Garbage(Loop!PollEvents(ev)) : g \in SUBSET Loop!Event
    BY DEF Loop!Garbage
  <2> QED
    BY <1>5, <2>1 DEF Loop!PollUpdate
<1>6. CASE Loop!PollDel(f)
  <2>1. \A F : F \subseteq F
    OBVIOUS
  <2>2. fds' \in [Loop!Slots -> [fd : Loop!Fd \cup {-1}, events : SUBSET Loop!Event]]
    BY <1>6, <2>1 DEF Loop!PollDel
  <2> QED
    BY <1>6, <2>2 DEF Loop!PollDel
<1>7. CASE Loop!EpollDel(f)
  <2>1. interest' = [interest EXCEPT ![f] = NoChannel]
    BY <1>7 DEF Loop!EpollDel
  <2> QED
    BY <1>7, <2>1 DEF Loop!EpollDel
<1> QED
  BY <1>3, <1>4, <1>5, <1>6, <1>7

LEMMA AddKeeps ==
  ASSUME LInv, NEW f \in Loop!Fd, NEW ev \in SUBSET Loop!Event, Loop!Add(f, ev)
  PROVE  LInv'
<1> USE DEF LInv, LoopTypes
<1>1. SlotTypes' /\ phase' \in {phase, "exited"}
      /\ interest' \in [Loop!Fd -> (SUBSET Loop!Event) \cup {NoChannel}]
  BY DispatcherKeeps DEF Loop!Add, Loop!Call
<1>2. Counted'
  BY <1>1, CountKept DEF Loop!Add, Loop!Call
<1>3. KernelTypes'
  <2>1. open' \subseteq Loop!Fd
    BY DEF Loop!Add, KernelTypes, Loop!kernelVars
  <2>2. can' \in [Loop!Fd -> SUBSET Loop!Event]
    BY DEF Loop!Add, KernelTypes, Loop!kernelVars
  <2> QED
    BY <1>1, <2>1, <2>2 DEF KernelTypes
<1>4. MapTypes'
  <2>1. available_num' = Loop!Grown(f) /\ entries' = [entries EXCEPT ![f] = ev]
    BY DEF Loop!Add
  <2>2. /\ Loop!Grown(f) \in {0} \cup {Default * Loop!Power[k] : k \in 0 .. MaxFd + 1}
        /\ Loop!Grown(f) > f /\ Loop!Grown(f) >= available_num
    BY GrownCovers, TypesAreTypes
  <2>3. available_num \in Int /\ Loop!Grown(f) \in Int
    BY <2>2, PowerSteps DEF MapTypes, Loop!LoopAssumption
  <2>4. \A g \in Loop!Fd : g \in Int
    BY DEF Loop!Fd, Loop!LoopAssumption
  <2>5. entries \in [Loop!Fd -> (SUBSET Loop!Event) \cup {NoChannel}]
        /\ \A g \in Loop!Fd : entries[g] # NoChannel => g < available_num
    BY DEF MapTypes
  <2>6. entries' \in [Loop!Fd -> (SUBSET Loop!Event) \cup {NoChannel}]
    BY <2>1, <2>5
  <2>7. ASSUME NEW g \in Loop!Fd, entries'[g] # NoChannel PROVE g < available_num'
    <3>1. g = f \/ entries[g] # NoChannel
      BY <2>1, <2>5, <2>7
    <3> QED
      BY <3>1, <2>1, <2>2, <2>3, <2>4, <2>5
  <2> HIDE DEF LInv
  <2> QED
    BY <2>1, <2>2, <2>6, <2>7 DEF MapTypes
<1> QED
  BY <1>1, <1>2, <1>3, <1>4 DEF PhaseTypes

LEMMA UpdateKeeps ==
  ASSUME LInv, NEW f \in Loop!Fd, NEW ev \in SUBSET Loop!Event, Loop!Update(f, ev)
  PROVE  LInv'
<1> USE DEF LInv, LoopTypes
<1>1. SlotTypes' /\ phase' \in {phase, "exited"}
      /\ interest' \in [Loop!Fd -> (SUBSET Loop!Event) \cup {NoChannel}]
  BY DispatcherKeeps DEF Loop!Update, Loop!Call
<1>2. Counted'
  BY <1>1, CountKept DEF Loop!Update, Loop!Call
<1>3. KernelTypes' /\ MapTypes'
  <2>1. entries' = [entries EXCEPT ![f] = ev] /\ entries[f] # NoChannel
        /\ UNCHANGED <<available_num, open, can>>
    BY DEF Loop!Update, Loop!kernelVars
  <2> QED
    BY <1>1, <2>1 DEF KernelTypes, MapTypes
<1> QED
  BY <1>1, <1>2, <1>3 DEF PhaseTypes

LEMMA DeleteKeeps ==
  ASSUME LInv, NEW f \in Loop!Fd, Loop!Delete(f)
  PROVE  LInv'
<1> USE DEF LInv, LoopTypes
<1>1. SlotTypes' /\ phase' \in {phase, "exited"}
      /\ interest' \in [Loop!Fd -> (SUBSET Loop!Event) \cup {NoChannel}]
  <2>1. {} \in SUBSET Loop!Event
    OBVIOUS
  <2> QED
    BY <2>1, DispatcherKeeps DEF Loop!Delete, Loop!Call
<1>2. Counted'
  BY <1>1, CountKept DEF Loop!Delete, Loop!Call
<1>3. KernelTypes' /\ MapTypes'
  <2>1. entries' = [entries EXCEPT ![f] = NoChannel] /\ UNCHANGED <<available_num, can>>
        /\ open' \subseteq open
    BY DEF Loop!Delete
  <2> QED
    BY <1>1, <2>1 DEF KernelTypes, MapTypes
<1> QED
  BY <1>1, <1>2, <1>3 DEF PhaseTypes

LEMMA WorldKeeps ==
  ASSUME LInv, Loop!Clear \/ \E f \in Loop!Fd, e \in Loop!Event : Loop!Arrive(f, e)
  PROVE  LInv'
<1> USE DEF LInv, LoopTypes, PhaseTypes
<1>1. CASE Loop!Clear
  <2>1. Counted'
    BY <1>1, CountKept DEF Loop!Clear
  <2>2. MapTypes'
    <3>1. available_num' = 0 /\ entries' = [f \in Loop!Fd |-> NoChannel]
      BY <1>1 DEF Loop!Clear
    <3> QED
      BY <3>1 DEF MapTypes
  <2>3. SlotTypes'
    BY <1>1 DEF Loop!Clear, SlotTypes
  <2>4. KernelTypes'
    <3>1. interest' = [f \in Loop!Fd |-> NoChannel] /\ UNCHANGED <<open, can>>
      BY <1>1 DEF Loop!Clear, Loop!kernelVars
    <3> QED
      BY <3>1 DEF KernelTypes
  <2> QED
    BY <1>1, <2>1, <2>2, <2>3, <2>4 DEF Loop!Clear
<1>2. CASE \E f \in Loop!Fd, e \in Loop!Event : Loop!Arrive(f, e)
  <2> USE DEF Loop!Arrive, Loop!mapVars, Loop!turnVars, Loop!userVars
  <2>1. Counted'
    BY <1>2, CountKept
  <2> QED
    BY <1>2, <2>1 DEF MapTypes, SlotTypes, KernelTypes
<1> QED
  BY <1>1, <1>2

\* The steps of dispatch.
LEMMA DispatchKeeps ==
  ASSUME LInv, Loop!Loop
  PROVE  LInv'
<1> USE DEF LInv, LoopTypes, PhaseTypes, Loop!mapVars, Loop!turnVars, Loop!kernelVars, Loop!userVars
<1>1. CASE Loop!Poll
  <2>1. \A s \in Loop!Slots : Loop!Result(fds[s]) \in (SUBSET Loop!Event) \cup {{"invalid"}}
    <3> TAKE s \in Loop!Slots
    <3>1. fds[s].events \in SUBSET Loop!Event
      BY DEF SlotTypes
    <3>2. (fds[s].events \cap can[fds[s].fd]) \in SUBSET Loop!Event
      BY <3>1
    <3> QED
      BY <3>2, Zenon DEF Loop!Result
  <2>2. SlotTypes'
    BY <1>1, <2>1 DEF Loop!Poll, SlotTypes
  <2>3. Counted'
    BY <1>1, SameCardinality DEF Loop!Poll, Counted
  <2> QED
    BY <1>1, <2>2, <2>3 DEF Loop!Poll, MapTypes, KernelTypes
<1>2. CASE Loop!Invalid
  <2>1. Counted' /\ phase' \in {"idle", "scan"} /\ SlotTypes'
    BY <1>2, HandledCounts DEF Loop!Invalid, SlotTypes
  <2> QED
    BY <1>2, <2>1 DEF Loop!Invalid, MapTypes, KernelTypes
<1>3. CASE Loop!Activate
  <2>1. Counted'
    BY <1>3 DEF Loop!Activate, Counted, Loop!Reported
  <2> QED
    BY <1>3, <2>1 DEF Loop!Activate, MapTypes, SlotTypes, KernelTypes
<1>4. CASE Loop!Return
  <2>1. /\ Counted' /\ phase' \in {"idle", "scan", "callback", "crashed"}
        /\ revents' \in [Loop!Slots -> (SUBSET Loop!Event) \cup {{"invalid"}}]
    <3>1. CASE calls = {Loop!Called}
      BY <1>4, <3>1, HandledCounts DEF Loop!Return
    <3>2. CASE calls # {Loop!Called}
      BY <1>4, <3>2, CountKept DEF Loop!Return, SlotTypes
    <3> QED
      BY <3>1, <3>2
  <2>2. SlotTypes' /\ MapTypes' /\ KernelTypes'
    BY <1>4, <2>1 DEF Loop!Return, MapTypes, SlotTypes, KernelTypes
  <2> QED
    BY <2>1, <2>2
<1>5. CASE Loop!EpollDispatch
  <2>1. Counted'
    BY <1>5, CountKept DEF Loop!EpollDispatch
  <2>2. KernelTypes'
    BY <1>5, Zenon DEF Loop!EpollDispatch, KernelTypes
  <2> QED
    BY <1>5, <2>1, <2>2 DEF Loop!EpollDispatch, MapTypes, SlotTypes
<1> QED
  BY <1>1, <1>2, <1>3, <1>4, <1>5 DEF Loop!Loop

LEMMA LoopStutterKeeps ==
  ASSUME LInv, UNCHANGED Loop!vars
  PROVE  LInv'
<1> USE DEF LInv, LoopTypes, Loop!vars, Loop!mapVars, Loop!turnVars, Loop!kernelVars, Loop!userVars
<1>1. Counted'
  BY CountKept
<1> QED
  BY <1>1 DEF MapTypes, SlotTypes, KernelTypes, PhaseTypes

LEMMA LoopInvariant == ASSUME Loop!LoopAssumption PROVE Loop!Spec => []LInv
<1>1. Loop!Init => LInv
  BY LoopInit
<1>2. LInv /\ [Loop!Next]_Loop!vars => LInv'
  BY AddKeeps, UpdateKeeps, DeleteKeeps, WorldKeeps, DispatchKeeps, LoopStutterKeeps
  DEF Loop!Next, Loop!User
<1> QED
  BY <1>1, <1>2, PTL DEF Loop!Spec

\* A turn of poll_dispatch handles every slot that poll reported exactly once,
\* for any number of slots, descriptors and calls of the user.
THEOREM LoopHandlesEachOnce == ASSUME Loop!LoopAssumption PROVE Loop!Spec => []EachReportedOnce
<1>1. LInv => EachReportedOnce
  BY TypesAreTypes, SameCardinality, Zenon DEF LInv, Counted, EachReportedOnce, Loop!EachReportedOnce
<1> QED
  BY <1>1, LoopInvariant, PTL

-----------------------------------------------------------------------------
(* The library: without a deletion no callback is called for a past event *)

Used(s) == fds[s].fd # -1

\* As long as nothing is deleted every slot in use has an open descriptor of its
\* own, with a channel.
OwnDescriptors ==
    /\ \A f \in Loop!Fd : f \in open <=> entries[f] # NoChannel
    /\ \A s \in Loop!Slots : Used(s) => fds[s].fd \in open
    /\ \A s, t \in Loop!Slots : Used(s) /\ fds[s].fd = fds[t].fd => s = t
    /\ \A s \in Loop!Reported : Used(s)

\* What poll reported is still there when its slot's turn comes, and what is to be
\* called of the slot at hand until it is called.
StillReady ==
    /\ phase = "scan" => \A s \in Loop!Reported : revents[s] \subseteq can[fds[s].fd]
    /\ phase = "callback" =>
         /\ calls # {} /\ calls \subseteq can[fds[Loop!At].fd]
         /\ \A s \in Loop!Reported \ {Loop!At} : revents[s] \subseteq can[fds[s].fd]

Fresh == phase # "crashed" /\ OwnDescriptors /\ StillReady

Calm ==
    /\ deleted \in BOOLEAN /\ dispatcher \in {"poll", "epoll"}
    /\ dispatcher = "epoll" => phase \notin {"scan", "callback", "crashed"}
    /\ dispatcher = "poll" /\ deleted = FALSE /\ phase # "cleared" => Fresh

LEMMA LoopInitCalm == ASSUME Loop!Init PROVE Calm
<1>1. deleted = FALSE /\ dispatcher \in {"poll", "epoll"} /\ phase = "idle"
  BY DEF Loop!Init
<1>2. OwnDescriptors
  BY DEF Loop!Init, OwnDescriptors, Used, Loop!Reported
<1> QED
  BY <1>1, <1>2 DEF Calm, Fresh, StillReady

\* The descriptors of reported slots are descriptors.
LEMMA ReportedAreOpen ==
  ASSUME LInv, OwnDescriptors, NEW s \in Loop!Reported
  PROVE  s \in Loop!Slots /\ fds[s].fd \in Loop!Fd /\ fds[s].fd \in open /\ entries[fds[s].fd] # NoChannel
<1>1. s \in Loop!Slots /\ fds[s].fd \in open
  BY DEF Loop!Reported, OwnDescriptors, Used
<1> QED
  BY <1>1 DEF LInv, LoopTypes, KernelTypes, OwnDescriptors

\* A new channel takes a free slot, of which nothing is reported.
LEMMA AddCalm ==
  ASSUME LInv, Calm, NEW f \in Loop!Fd, NEW ev \in SUBSET Loop!Event, Loop!Add(f, ev)
  PROVE  Calm'
<1> USE DEF LInv, LoopTypes
<1>1. /\ UNCHANGED <<deleted, dispatcher, revents, ready_num, calls>>
      /\ phase \in {"idle", "callback"} /\ entries' = [entries EXCEPT ![f] = ev]
  BY DEF Loop!Add, Loop!Call
<1>2. dispatcher = "epoll" => phase' \in {phase, "exited"}
  BY DispatcherKeeps, <1>1 DEF Loop!Add
<1>3. ASSUME dispatcher = "poll", deleted = FALSE PROVE Fresh'
  <2>1. phase \notin {"crashed", "cleared"} /\ Fresh
    BY <1>1, <1>3 DEF Calm
  <2>2. f \notin open /\ open' = open \cup {f} /\ can' = [can EXCEPT ![f] = {}]
    BY <2>1 DEF Loop!Add, Fresh, OwnDescriptors
  <2>3. Loop!PollAdd(f, ev) /\ phase' = phase
    BY <1>3 DEF Loop!Add, Loop!PollAdd, Loop!EpollAdd, Loop!EpollCtl
  <2>4. /\ entries \in [Loop!Fd -> (SUBSET Loop!Event) \cup {NoChannel}] /\ ev # NoChannel
        /\ can \in [Loop!Fd -> SUBSET Loop!Event]
    BY DEF MapTypes, KernelTypes, Loop!LoopAssumption, Loop!Event
  <2>5. \A g \in Loop!Fd : g \in open' <=> entries'[g] # NoChannel
    BY <1>1, <2>1, <2>2, <2>4 DEF Fresh, OwnDescriptors
  <2>6. Loop!Reported' = Loop!Reported /\ Loop!At' = Loop!At
    BY <1>1 DEF Loop!Reported, Loop!At
  <2>7. \A s \in Loop!Slots : fds'[s].fd = fds[s].fd \/ (~Used(s) /\ fds'[s].fd = f)
    <3>1. CASE Loop!Free = {}
      BY <2>3, <3>1 DEF Loop!PollAdd
    <3>2. CASE Loop!Free # {}
      <4>1. Loop!Free \in SUBSET Nat /\ \A s \in Loop!Free : fds[s].fd < 0
        BY ReportedFinite DEF Loop!Free
      <4>2. Loop!Min(Loop!Free) \in Loop!Free
        BY <3>2, <4>1, Smallest DEF Loop!Min
      <4>3. \A s \in Loop!Slots : fds[s].fd < 0 => fds[s].fd = -1
        BY DEF SlotTypes, Loop!Fd, Loop!LoopAssumption
      <4>4. fds' = [fds EXCEPT ![Loop!Min(Loop!Free)] = [fd |-> f, events |-> Loop!PollEvents(ev)]]
        BY <2>3, <3>2 DEF Loop!PollAdd
      <4> DEFINE m == Loop!Min(Loop!Free)
      <4>5. m \in Loop!Slots /\ ~Used(m)
        BY <4>1, <4>2, <4>3 DEF Loop!Free, Used
      <4> HIDE DEF m
      <4> QED
        BY <4>4, <4>5 DEF SlotTypes, m
    <3> QED
      BY <3>1, <3>2
  <2>8. \A s, t \in Loop!Slots : fds'[s].fd = f /\ fds'[t].fd = f => s = t
    <3>1. \A s \in Loop!Slots : fds[s].fd = f => FALSE
      BY <2>1, <2>2 DEF Fresh, OwnDescriptors, Used, Loop!Fd, Loop!LoopAssumption
    <3> QED
      BY <2>3, <3>1 DEF Loop!PollAdd, SlotTypes
  <2>9. \A s \in Loop!Reported : s \in Loop!Slots /\ fds'[s].fd = fds[s].fd /\ fds[s].fd # f
    <3>1. \A s \in Loop!Reported : Used(s) /\ s \in Loop!Slots /\ fds[s].fd \in open
      BY <2>1, ReportedAreOpen DEF Fresh, OwnDescriptors
    <3> QED
      BY <2>2, <2>7, <3>1
  <2>10. OwnDescriptors'
    BY <2>1, <2>2, <2>5, <2>6, <2>7, <2>8, <2>9 DEF Fresh, OwnDescriptors, Used
  <2>11. \A s \in Loop!Reported : can'[fds'[s].fd] = can[fds[s].fd]
    BY <2>2, <2>4, <2>9
  <2>12. StillReady'
    <3>1. CASE phase = "callback"
      <4>1. Loop!At \in Loop!Reported
        BY <3>1, AtIsReported
      <4> QED
        BY <1>1, <2>1, <2>3, <2>6, <2>11, <3>1, <4>1 DEF Fresh, StillReady
    <3>2. CASE phase = "idle"
      BY <2>3, <3>2 DEF StillReady
    <3> QED
      BY <3>1, <3>2, <1>1
  <2> QED
    BY <2>1, <2>3, <2>10, <2>12 DEF Fresh
<1> QED
  BY <1>1, <1>2, <1>3 DEF Calm

LEMMA UpdateCalm ==
  ASSUME LInv, Calm, NEW f \in Loop!Fd, NEW ev \in SUBSET Loop!Event, Loop!Update(f, ev)
  PROVE  Calm'
<1> USE DEF LInv, LoopTypes
<1>1. /\ UNCHANGED <<deleted, dispatcher, revents, ready_num, calls, open, can>>
      /\ phase \in {"idle", "callback"} /\ entries' = [entries EXCEPT ![f] = ev]
      /\ entries[f] # NoChannel
  BY DEF Loop!Update, Loop!Call, Loop!kernelVars
<1>2. dispatcher = "epoll" => phase' \in {phase, "exited"}
  BY DispatcherKeeps, <1>1 DEF Loop!Update
<1>3. ASSUME dispatcher = "poll", deleted = FALSE PROVE Fresh'
  <2>1. phase \notin {"crashed", "cleared"} /\ Fresh
    BY <1>1, <1>3 DEF Calm
  <2>2. Loop!PollUpdate(f, ev) /\ phase' = phase
    BY <1>3 DEF Loop!Update, Loop!PollUpdate, Loop!EpollUpdate, Loop!EpollCtl
  <2>3. \A s \in Loop!Slots : fds'[s].fd = fds[s].fd
    BY <2>2 DEF Loop!PollUpdate, SlotTypes
  <2>4. Loop!Reported' = Loop!Reported /\ Loop!At' = Loop!At /\ Loop!Reported \subseteq Loop!Slots
    BY <1>1 DEF Loop!Reported, Loop!At
  <2>5. \A g \in Loop!Fd : entries'[g] # NoChannel <=> entries[g] # NoChannel
    BY <1>1 DEF MapTypes, Loop!LoopAssumption, Loop!Event
  <2>6. OwnDescriptors'
    BY <1>1, <2>1, <2>3, <2>4, <2>5 DEF Fresh, OwnDescriptors, Used
  <2>7. phase = "callback" => Loop!At \in Loop!Slots
    BY AtIsReported
  <2>8. StillReady'
    BY <1>1, <2>1, <2>2, <2>3, <2>4, <2>7 DEF Fresh, StillReady
  <2> QED
    BY <2>1, <2>2, <2>6, <2>8 DEF Fresh
<1> QED
  BY <1>1, <1>2, <1>3 DEF Calm

\* A deletion ends the promise; an arrival makes more ready.
LEMMA WorldCalm ==
  ASSUME LInv, Calm,
         \/ Loop!Clear
         \/ \E f \in Loop!Fd : Loop!Delete(f) \/ \E e \in Loop!Event : Loop!Arrive(f, e)
  PROVE  Calm'
<1>1. CASE Loop!Clear
  BY <1>1 DEF Loop!Clear, Loop!userVars, Calm
<1>2. ASSUME NEW f \in Loop!Fd, Loop!Delete(f) PROVE Calm'
  <2>1. deleted' = TRUE /\ UNCHANGED <<dispatcher, revents, ready_num>>
    BY <1>2 DEF Loop!Delete, Loop!Call
  <2>2. phase' \in {phase, "exited"}
    <3>1. {} \in SUBSET Loop!Event
      OBVIOUS
    <3> QED
      BY <1>2, <2>1, <3>1, DispatcherKeeps DEF Loop!Delete
  <2> QED
    BY <2>1, <2>2 DEF Calm
<1>3. ASSUME NEW f \in Loop!Fd, NEW e \in Loop!Event, Loop!Arrive(f, e) PROVE Calm'
  <2> USE DEF Loop!Arrive, Loop!mapVars, Loop!turnVars, Loop!userVars
  <2>1. UNCHANGED <<dispatcher, entries, fds, revents, calls, phase, open, deleted>>
    BY <1>3
  <2>2. \A g \in Loop!Fd : can[g] \subseteq can'[g]
    BY <1>3 DEF LInv, LoopTypes, KernelTypes
  <2>3. ASSUME Fresh PROVE Fresh'
    <3>1. Loop!Reported' = Loop!Reported /\ Loop!At' = Loop!At
      BY <2>1 DEF Loop!Reported, Loop!At
    <3>2. OwnDescriptors'
      BY <2>1, <2>3, <3>1 DEF Fresh, OwnDescriptors, Used
    <3>3. \A s \in Loop!Reported : fds[s].fd \in Loop!Fd
      BY <2>3, ReportedAreOpen DEF Fresh
    <3>4. phase = "callback" => Loop!At \in Loop!Reported
      BY AtIsReported
    <3>5. StillReady'
      BY <2>1, <2>2, <2>3, <3>1, <3>3, <3>4 DEF Fresh, StillReady
    <3> QED
      BY <2>1, <2>3, <3>2, <3>5 DEF Fresh
  <2> QED
    BY <2>1, <2>3 DEF Calm
<1> QED
  BY <1>1, <1>2, <1>3

\* What is called is what poll reported of the slot.
LEMMA ActivateCalm ==
  ASSUME LInv, Calm, Loop!Poll \/ Loop!Activate
  PROVE  Calm'
<1> USE DEF LInv, LoopTypes, Loop!mapVars, Loop!turnVars, Loop!kernelVars, Loop!userVars
<1>1. CASE Loop!Poll
  <2>1. UNCHANGED <<dispatcher, entries, fds, calls, open, can, deleted>>
        /\ phase = "idle" /\ phase' = "scan" /\ dispatcher = "poll"
        /\ revents' = [s \in Loop!Slots |-> Loop!Result(fds[s])]
    BY <1>1 DEF Loop!Poll
  <2>2. ASSUME deleted = FALSE PROVE Fresh'
    <3>1. OwnDescriptors
      BY <2>1, <2>2 DEF Calm, Fresh
    <3>2. ASSUME NEW s \in Loop!Reported'
          PROVE  s \in Loop!Slots /\ Used(s) /\ revents'[s] \subseteq can[fds[s].fd]
      <4>1. s \in Loop!Slots /\ Loop!Result(fds[s]) # {}
        BY <2>1 DEF Loop!Reported
      <4>2. fds[s].fd # -1
        BY <4>1 DEF Loop!Result
      <4>3. fds[s].fd \in open
        BY <3>1, <4>1, <4>2 DEF OwnDescriptors, Used
      <4> QED
        BY <2>1, <4>1, <4>2, <4>3 DEF Loop!Result, Used
    <3>3. OwnDescriptors'
      BY <2>1, <3>1, <3>2 DEF OwnDescriptors, Used
    <3>4. StillReady'
      BY <2>1, <3>2 DEF StillReady
    <3> QED
      BY <2>1, <3>3, <3>4 DEF Fresh
  <2> QED
    BY <2>1, <2>2 DEF Calm
<1>2. CASE Loop!Activate
  <2>1. UNCHANGED <<dispatcher, entries, fds, revents, open, can, deleted>>
        /\ phase = "scan" /\ calls' = revents[Loop!At] /\ revents[Loop!At] \cap Loop!Event # {}
        /\ phase' = IF entries[fds[Loop!At].fd] = NoChannel THEN "crashed" ELSE "callback"
    BY <1>2 DEF Loop!Activate
  <2>2. ASSUME deleted = FALSE, dispatcher = "poll" PROVE Fresh'
    <3>1. Fresh
      BY <2>1, <2>2 DEF Calm
    <3>2. Loop!Reported' = Loop!Reported /\ Loop!At' = Loop!At /\ Loop!At \in Loop!Reported
      BY <2>1, AtIsReported DEF Loop!Reported, Loop!At
    <3>3. phase' = "callback"
      BY <2>1, <3>1, <3>2, ReportedAreOpen DEF Fresh
    <3>4. OwnDescriptors'
      BY <2>1, <3>1, <3>2 DEF Fresh, OwnDescriptors, Used
    <3>5. StillReady'
      BY <2>1, <3>1, <3>2, <3>3 DEF Fresh, StillReady
    <3> QED
      BY <3>3, <3>4, <3>5 DEF Fresh
  <2>3. dispatcher = "poll"
    BY <2>1 DEF Calm
  <2> QED
    BY <2>1, <2>2, <2>3 DEF Calm
<1> QED
  BY <1>1, <1>2

\* The callback at hand is the one whose event is taken; the descriptor of no
\* other reported slot is touched.
LEMMA ReturnCalm ==
  ASSUME LInv, Calm, Loop!Invalid \/ Loop!Return
  PROVE  Calm'
<1> USE DEF LInv, LoopTypes, Loop!mapVars, Loop!turnVars, Loop!kernelVars, Loop!userVars
<1>1. UNCHANGED <<dispatcher, entries, fds, open, deleted>> /\ phase \in {"scan", "callback"}
  BY DEF Loop!Invalid, Loop!Return
<1>2. dispatcher = "poll"
  BY <1>1 DEF Calm
<1>3. Loop!At \in Loop!Reported
  BY <1>1, AtIsReported
<1>4. ASSUME Loop!Handled
      PROVE  /\ Loop!Reported' = Loop!Reported \ {Loop!At} /\ phase' \in {"idle", "scan"}
             /\ \A s \in Loop!Reported' : revents'[s] = revents[s]
  <2>1. phase' \in {"idle", "scan"}
    BY <1>1, <1>4, HandledCounts
  <2> QED
    BY <1>4, <2>1 DEF Loop!Handled, Loop!Reported, SlotTypes
<1>5. ASSUME Fresh PROVE Fresh'
  <2>1. OwnDescriptors /\ StillReady
    BY <1>5 DEF Fresh
  <2>2. \A s \in Loop!Reported : /\ s \in Loop!Slots /\ fds[s].fd \in Loop!Fd /\ Used(s)
                                 /\ entries[fds[s].fd] # NoChannel
    BY <2>1, ReportedAreOpen DEF OwnDescriptors
  <2>3. CASE Loop!Invalid
    <3>1. Loop!Handled /\ UNCHANGED can /\ phase = "scan"
      BY <2>3 DEF Loop!Invalid
    <3>2. OwnDescriptors'
      BY <1>1, <1>4, <2>1, <3>1 DEF OwnDescriptors, Used
    <3>3. StillReady'
      BY <1>1, <1>4, <2>1, <3>1 DEF StillReady
    <3> QED
      BY <1>4, <3>1, <3>2, <3>3 DEF Fresh
  <2>4. CASE Loop!Return
    <3> DEFINE fd == fds[Loop!At].fd
    <3>1. phase = "callback" /\ can' = [can EXCEPT ![fd] = @ \ {Loop!Called}]
      BY <2>4 DEF Loop!Return
    <3>2. fd \in Loop!Fd /\ calls # {} /\ calls \subseteq can[fd]
      BY <1>3, <2>1, <2>2, <3>1 DEF StillReady
    <3>3. Loop!Called \in calls
      <4>1. calls \subseteq Loop!Event
        BY <3>2 DEF KernelTypes
      <4> QED
        BY <3>2, <4>1 DEF Loop!Called, Loop!Event
    <3>4. \A s \in Loop!Reported \ {Loop!At} : /\ can'[fds[s].fd] = can[fds[s].fd]
                                               /\ revents[s] \subseteq can[fds[s].fd]
      <4>1. \A s \in Loop!Reported \ {Loop!At} : fds[s].fd # fd
        BY <1>3, <2>1, <2>2 DEF OwnDescriptors
      <4> QED
        BY <2>1, <2>2, <3>1, <4>1 DEF KernelTypes, StillReady
    <3>5. can'[fd] = can[fd] \ {Loop!Called}
      BY <3>1, <3>2 DEF KernelTypes
    <3> HIDE DEF fd
    <3>6. CASE calls = {Loop!Called}
      <4>1. Loop!Handled
        BY <2>4, <3>6 DEF Loop!Return
      <4>2. OwnDescriptors'
        BY <1>1, <1>4, <2>1, <4>1 DEF OwnDescriptors, Used
      <4>3. StillReady'
        BY <1>1, <1>4, <3>4, <4>1 DEF StillReady
      <4> QED
        BY <1>4, <4>1, <4>2, <4>3 DEF Fresh
    <3>7. CASE calls # {Loop!Called}
      <4>1. calls' = calls \ {Loop!Called} /\ UNCHANGED <<revents, ready_num>>
            /\ phase' \in IF entries[fd] = NoChannel THEN {phase, "crashed"} ELSE {phase}
        BY <2>4, <3>7 DEF Loop!Return, fd
      <4>2. phase' = phase
        BY <4>1, <1>3, <2>2 DEF fd
      <4>3. Loop!Reported' = Loop!Reported /\ Loop!At' = Loop!At /\ fd' = fd
        BY <1>1, <4>1 DEF Loop!Reported, Loop!At, fd
      <4>4. OwnDescriptors'
        BY <1>1, <2>1, <4>3 DEF OwnDescriptors, Used
      <4>5. StillReady'
        <5>1. calls' # {} /\ calls' \subseteq can'[fd]
          BY <3>2, <3>3, <3>5, <3>7, <4>1
        <5> QED
          BY <1>1, <3>1, <3>4, <4>1, <4>2, <4>3, <5>1 DEF StillReady, fd
      <4> QED
        BY <3>1, <4>2, <4>4, <4>5 DEF Fresh
    <3> QED
      BY <3>6, <3>7
  <2> QED
    BY <2>3, <2>4
<1> QED
  BY <1>1, <1>2, <1>5 DEF Calm

LEMMA LoopQuietCalm ==
  ASSUME LInv, Calm, Loop!EpollDispatch \/ UNCHANGED Loop!vars
  PROVE  Calm'
<1> USE DEF Loop!vars, Loop!mapVars, Loop!turnVars, Loop!kernelVars, Loop!userVars
<1>1. CASE Loop!EpollDispatch
  BY <1>1 DEF Loop!EpollDispatch, Calm
<1>2. CASE UNCHANGED Loop!vars
  BY <1>2 DEF Calm, Fresh, OwnDescriptors, StillReady, Used, Loop!Reported, Loop!At
<1> QED
  BY <1>1, <1>2

\* As long as no channel is deleted the poll dispatcher calls no callback for an
\* event that is gone, and finds the channel of every slot that poll reports: for
\* any number of slots, descriptors and calls of the user from within callbacks.
THEOREM LoopCallsFresh == ASSUME Loop!LoopAssumption PROVE Loop!Spec => []NoStaleCall
<1>1. Loop!Init => Calm
  BY LoopInitCalm
<1>2. LInv /\ Calm /\ [Loop!Next]_Loop!vars => Calm'
  BY AddCalm, UpdateCalm, WorldCalm, ActivateCalm, ReturnCalm, LoopQuietCalm
  DEF Loop!Next, Loop!User, Loop!Loop
<1>3. LInv /\ Calm => NoStaleCall
  <2> SUFFICES ASSUME LInv, Calm, deleted = FALSE
               PROVE  phase # "crashed" /\ (phase = "callback" => Loop!Called \in can[fds[Loop!At].fd])
    BY Zenon DEF NoStaleCall, Loop!NoStaleCall, Calm
  <2>1. phase \in {"callback", "crashed"} => Fresh
    BY DEF Calm
  <2>2. phase = "callback" => Loop!Called \in calls
    <3> HAVE phase = "callback"
    <3>1. Fresh /\ Loop!At \in Loop!Reported
      BY <2>1, AtIsReported
    <3>2. calls # {} /\ calls \subseteq Loop!Event
      BY <3>1, ReportedAreOpen DEF Fresh, StillReady, LInv, LoopTypes, KernelTypes
    <3> QED
      BY <3>2 DEF Loop!Called, Loop!Event
  <2> QED
    BY <2>1, <2>2 DEF Fresh, StillReady
<1> QED
  BY <1>1, <1>2, <1>3, LoopInvariant, PTL DEF Loop!Spec

-----------------------------------------------------------------------------
(* The hash table *)

\* The hash table has its own instance of FiniteSets.
LEMMA SameDictCardinality == \A S : Dict!Cardinality(S) = Cardinality(S)
  BY DEF Dict!Cardinality, Cardinality

\* A table whose chains hold entries of their slot only, as many as it says.
WellTable(t) ==
    /\ t = [size |-> t.size, used |-> t.used, table |-> t.table]
    /\ t.size \in Nat /\ t.table \in [0 .. t.size - 1 -> Seq(Dict!Entry)]
    /\ \A s \in 0 .. t.size - 1 : \A j \in 1 .. Len(t.table[s]) :
         Dict!Slot(t, t.table[s][j].key) = s
    /\ IsFiniteSet(Dict!Linked(t)) /\ t.used = Cardinality(Dict!Linked(t))

\* There is a second table while rehashing, and then a first.
Well(x) ==
    /\ x = [ht |-> x.ht, rehashidx |-> x.rehashidx]
    /\ x.ht = [i \in {0, 1} |-> x.ht[i]]
    /\ \A i \in {0, 1} : WellTable(x.ht[i])
    /\ x.rehashidx \in -1 .. x.ht[0].size
    /\ Dict!IsRehashing(x) <=> x.ht[1].size # 0
    /\ Dict!IsRehashing(x) => x.ht[0].size # 0

\* A call with undefined behaviour is the last: after it only the shape is known.
DictInv == Dict!TypeOK /\ (broken = FALSE => Well(dict))

\* dictRehash is called with 1 only, as everywhere in the repository.
OneAtATime == RehashBy \subseteq {1}

\* A string's slot is one of the table's.
LEMMA HashSlot ==
  ASSUME Dict!DictAssumption, NEW t, WellTable(t), t.size # 0, NEW k \in Key
  PROVE  Dict!Slot(t, k) \in 0 .. t.size - 1
<1>1. Hash[Text[k]] \in Nat /\ t.size \in Nat \ {0}
  BY DEF Dict!DictAssumption, WellTable
<1>2. \A h \in Nat, n \in Nat \ {0} : h % n \in 0 .. n - 1
  OBVIOUS
<1> QED
  BY <1>1, <1>2 DEF Dict!Slot

\* The entry linked j-th from slot r is in place <<r, j>>.
LEMMA Places ==
  ASSUME NEW t, NEW n, t.table \in [0 .. n - 1 -> Seq(Dict!Entry)]
  PROVE  /\ \A r, j : <<r, j>> \in Dict!Linked(t) <=> r \in 0 .. n - 1 /\ j \in 1 .. Len(t.table[r])
         /\ \A p \in Dict!Linked(t) : p = <<p[1], p[2]>>
<1>1. DOMAIN t.table = 0 .. n - 1 /\ \A r \in 0 .. n - 1 : DOMAIN t.table[r] = 1 .. Len(t.table[r])
  OBVIOUS
<1>2. \A p : p \in Dict!Linked(t) <=> \E r \in DOMAIN t.table : p \in {r} \X DOMAIN t.table[r]
  BY DEF Dict!Linked
<1>3. \A r, D : \A p \in {r} \X D : p = <<p[1], p[2]>>
  OBVIOUS
<1>4. \A r, q, j, D : <<r, j>> \in {q} \X D <=> r = q /\ j \in D
  OBVIOUS
<1> QED
  BY <1>1, <1>2, <1>3, <1>4

\* Table t, and table i of x, with c for the chain of slot s and n for the counter.
WithChain(t, s, c, n) == [size |-> t.size, used |-> n, table |-> [t.table EXCEPT ![s] = c]]
Changed(x, i, s, c, n) == [x EXCEPT !.ht[i].table[s] = c, !.ht[i].used = n]

\* A chain that grows by an entry of its slot, and the count with it.
LEMMA OneMore ==
  ASSUME NEW t, WellTable(t), NEW s \in 0 .. t.size - 1, NEW c \in Seq(Dict!Entry),
         Len(c) = Len(t.table[s]) + 1,
         \A j \in 1 .. Len(c) : Dict!Slot(t, c[j].key) = s
  PROVE  WellTable(WithChain(t, s, c, t.used + 1))
<1> DEFINE u == [size |-> t.size, used |-> t.used + 1, table |-> [t.table EXCEPT ![s] = c]]
<1>0. t.size \in Nat /\ t.table \in [0 .. t.size - 1 -> Seq(Dict!Entry)]
  BY DEF WellTable
<1>1. /\ u = [size |-> u.size, used |-> u.used, table |-> u.table] /\ u.size = t.size
      /\ u.used = t.used + 1 /\ u.table = [t.table EXCEPT ![s] = c]
  OBVIOUS
<1> HIDE DEF u
<1>2. u.table \in [0 .. t.size - 1 -> Seq(Dict!Entry)] /\ u.table[s] = c
      /\ \A r \in 0 .. t.size - 1 : r # s => u.table[r] = t.table[r]
  BY <1>0, <1>1
<1>3. \A r \in 0 .. u.size - 1 : \A j \in 1 .. Len(u.table[r]) : Dict!Slot(u, u.table[r][j].key) = r
  <2> SUFFICES ASSUME NEW r \in 0 .. t.size - 1, NEW j \in 1 .. Len(u.table[r])
               PROVE  Dict!Slot(t, u.table[r][j].key) = r
    BY <1>1 DEF Dict!Slot
  <2> QED
    BY <1>2 DEF WellTable
<1>4. Dict!Linked(u) = Dict!Linked(t) \cup {<<s, Len(c)>>}
  <2>1. \A r \in 0 .. t.size - 1 : /\ DOMAIN u.table[r] = 1 .. Len(u.table[r])
                                   /\ DOMAIN t.table[r] = 1 .. Len(t.table[r])
                                   /\ Len(u.table[r]) \in Nat /\ Len(t.table[r]) \in Nat
    <3> TAKE r \in 0 .. t.size - 1
    <3>1. u.table[r] \in Seq(Dict!Entry) /\ t.table[r] \in Seq(Dict!Entry)
      BY ONLY <1>0, <1>2, r \in 0 .. t.size - 1
    <3> QED
      BY ONLY <3>1
  <2>2. \A j : j \in 1 .. Len(c) <=> j \in 1 .. Len(t.table[s]) \/ j = Len(c)
    BY <2>1
  <2>3. \A r, j : <<r, j>> \in Dict!Linked(u) <=> <<r, j>> \in Dict!Linked(t) \/ <<r, j>> = <<s, Len(c)>>
    <3>1. \A r, j : <<r, j>> \in Dict!Linked(u) <=> r \in 0 .. t.size - 1 /\ j \in 1 .. Len(u.table[r])
      BY <1>2, Places
    <3>2. \A r, j : <<r, j>> \in Dict!Linked(t) <=> r \in 0 .. t.size - 1 /\ j \in 1 .. Len(t.table[r])
      BY <1>0, Places
    <3> TAKE r, j
    <3>3. CASE r = s
      BY <1>2, <2>2, <3>1, <3>2, <3>3
    <3>4. CASE r # s
      BY <1>2, <3>1, <3>2, <3>4
    <3> QED
      BY <3>3, <3>4
  <2>4. \A p \in Dict!Linked(u) : p = <<p[1], p[2]>>
    BY <1>2, Places
  <2>5. \A p \in Dict!Linked(t) : p = <<p[1], p[2]>>
    BY <1>0, Places
  <2> QED
    BY ONLY <2>3, <2>4, <2>5
<1>5. <<s, Len(c)>> \notin Dict!Linked(t)
  <2>1. Len(t.table[s]) \in Nat
    BY <1>0
  <2> QED
    BY <1>0, <2>1, Places
<1>6. IsFiniteSet(Dict!Linked(u)) /\ Cardinality(Dict!Linked(u)) = t.used + 1
  <2>1. IsFiniteSet(Dict!Linked(t)) /\ Cardinality(Dict!Linked(t)) = t.used
    BY DEF WellTable
  <2> QED
    BY <2>1, <1>4, <1>5, FS_AddElement
<1> QED
  BY <1>0, <1>1, <1>2, <1>3, <1>6 DEF WellTable, WithChain, u

\* A chain that loses an entry, and the count with it.
LEMMA OneLess ==
  ASSUME NEW t, WellTable(t), NEW s \in 0 .. t.size - 1, NEW c \in Seq(Dict!Entry),
         Len(c) = Len(t.table[s]) - 1,
         \A j \in 1 .. Len(c) : Dict!Slot(t, c[j].key) = s
  PROVE  WellTable(WithChain(t, s, c, t.used - 1))
<1> DEFINE u == [size |-> t.size, used |-> t.used - 1, table |-> [t.table EXCEPT ![s] = c]]
           n == Len(t.table[s])
<1>0. t.size \in Nat /\ t.table \in [0 .. t.size - 1 -> Seq(Dict!Entry)]
  BY DEF WellTable
<1>1. /\ u = [size |-> u.size, used |-> u.used, table |-> u.table] /\ u.size = t.size
      /\ u.used = t.used - 1 /\ u.table = [t.table EXCEPT ![s] = c]
  OBVIOUS
<1> HIDE DEF u
<1>2. u.table \in [0 .. t.size - 1 -> Seq(Dict!Entry)] /\ u.table[s] = c
      /\ \A r \in 0 .. t.size - 1 : r # s => u.table[r] = t.table[r]
  BY <1>0, <1>1
<1>3. \A r \in 0 .. u.size - 1 : \A j \in 1 .. Len(u.table[r]) : Dict!Slot(u, u.table[r][j].key) = r
  <2> SUFFICES ASSUME NEW r \in 0 .. t.size - 1, NEW j \in 1 .. Len(u.table[r])
               PROVE  Dict!Slot(t, u.table[r][j].key) = r
    BY <1>1 DEF Dict!Slot
  <2> QED
    BY <1>2 DEF WellTable
<1>4. Dict!Linked(u) = Dict!Linked(t) \ {<<s, n>>}
  <2>1. \A r \in 0 .. t.size - 1 : /\ DOMAIN u.table[r] = 1 .. Len(u.table[r])
                                   /\ DOMAIN t.table[r] = 1 .. Len(t.table[r])
                                   /\ Len(u.table[r]) \in Nat /\ Len(t.table[r]) \in Nat
    <3> TAKE r \in 0 .. t.size - 1
    <3>1. u.table[r] \in Seq(Dict!Entry) /\ t.table[r] \in Seq(Dict!Entry)
      BY ONLY <1>0, <1>2, r \in 0 .. t.size - 1
    <3> QED
      BY ONLY <3>1
  <2>2. \A j : j \in 1 .. Len(c) <=> j \in 1 .. n /\ j # n
    <3>1. n \in Nat /\ Len(c) \in Nat /\ Len(c) = n - 1
      BY <2>1
    <3> HIDE DEF n
    <3> QED
      BY ONLY <3>1
  <2>3. \A r, j : <<r, j>> \in Dict!Linked(u) <=> <<r, j>> \in Dict!Linked(t) /\ <<r, j>> # <<s, n>>
    <3>1. \A r, j : <<r, j>> \in Dict!Linked(u) <=> r \in 0 .. t.size - 1 /\ j \in 1 .. Len(u.table[r])
      BY <1>2, Places
    <3>2. \A r, j : <<r, j>> \in Dict!Linked(t) <=> r \in 0 .. t.size - 1 /\ j \in 1 .. Len(t.table[r])
      BY <1>0, Places
    <3> TAKE r, j
    <3>3. CASE r = s
      BY <1>2, <2>2, <3>1, <3>2, <3>3
    <3>4. CASE r # s
      BY <1>2, <3>1, <3>2, <3>4
    <3> QED
      BY <3>3, <3>4
  <2> HIDE DEF n
  <2>4. \A p \in Dict!Linked(u) : p = <<p[1], p[2]>>
    BY <1>2, Places
  <2>5. \A p \in Dict!Linked(t) : p = <<p[1], p[2]>>
    BY <1>0, Places
  <2> QED
    BY ONLY <2>3, <2>4, <2>5
<1>5. <<s, n>> \in Dict!Linked(t)
  <2>1. n \in 1 .. Len(t.table[s])
    BY <1>0
  <2> QED
    BY <1>0, <2>1, Places
<1>6. IsFiniteSet(Dict!Linked(u)) /\ Cardinality(Dict!Linked(u)) = t.used - 1
  <2>1. IsFiniteSet(Dict!Linked(t)) /\ Cardinality(Dict!Linked(t)) = t.used
    BY DEF WellTable
  <2>2. /\ IsFiniteSet(Dict!Linked(t) \ {<<s, n>>})
        /\ Cardinality(Dict!Linked(t) \ {<<s, n>>}) = Cardinality(Dict!Linked(t)) - 1
    BY <2>1, <1>5, FS_RemoveElement
  <2> QED
    BY <2>1, <2>2, <1>4
<1> QED
  BY <1>0, <1>1, <1>2, <1>3, <1>6 DEF WellTable, WithChain, u

\* An entry that is linked is counted.
LEMMA LinkedAreCounted ==
  ASSUME NEW t, WellTable(t)
  PROVE  /\ t.used \in Nat
         /\ \A s \in 0 .. t.size - 1 : t.table[s] # <<>> => t.used > 0
         /\ t.size = 0 => t.used = 0
<1>1. IsFiniteSet(Dict!Linked(t)) /\ Cardinality(Dict!Linked(t)) = t.used
  BY DEF WellTable
<1>2. t.used \in Nat
  BY <1>1, FS_CardinalityType
<1>3. ASSUME NEW s \in 0 .. t.size - 1, t.table[s] # <<>> PROVE t.used > 0
  <2>1. t.table \in [0 .. t.size - 1 -> Seq(Dict!Entry)]
    BY DEF WellTable
  <2>2. 1 \in 1 .. Len(t.table[s])
    <3>1. t.table[s] \in Seq(Dict!Entry)
      BY <2>1
    <3> QED
      BY <3>1, <1>3, EmptySeq
  <2>3. <<s, 1>> \in Dict!Linked(t)
    BY <2>1, <2>2, Places
  <2>4. Dict!Linked(t) # {}
    BY <2>3
  <2>5. Cardinality(Dict!Linked(t)) # 0
    BY <1>1, <2>4, FS_EmptySet
  <2> QED
    BY <1>1, <1>2, <2>5
<1>4. t.size = 0 => t.used = 0
  <2> HAVE t.size = 0
  <2>1. t.table \in [0 .. t.size - 1 -> Seq(Dict!Entry)] /\ 0 .. t.size - 1 = {}
    BY DEF WellTable
  <2>2. \A r, j : <<r, j>> \in Dict!Linked(t) <=> r \in 0 .. t.size - 1 /\ j \in 1 .. Len(t.table[r])
    BY <2>1, Places
  <2>3. \A p \in Dict!Linked(t) : p = <<p[1], p[2]>>
    BY <2>1, Places
  <2>4. Dict!Linked(t) = {}
    BY <2>1, <2>2, <2>3
  <2> QED
    BY <1>1, <2>4, FS_EmptySet
<1> QED
  BY <1>2, <1>3, <1>4

\* Doubling the initial size ends, with a size that is not 0 and as large as asked.
LEMMA PowerFound ==
  ASSUME Dict!DictAssumption, NEW n \in Nat
  PROVE  Dict!NextPower(n) \in Nat \ {0} /\ Dict!NextPower(n) >= n
<1> DEFINE D(f) == [i \in Nat |-> IF i >= n THEN i ELSE f[2 * i]]
           W(i) == {m \in Nat : m >= n /\ \E k \in Nat : m = i * Loop!Power[k]}
           Least(T) == IF T = {} THEN 0 ELSE CHOOSE m \in T : \A l \in T : m <= l
           h == [i \in Nat |-> Least(W(i))]
           grow == CHOOSE f : f = D(f)
<1>1. ASSUME NEW i \in Nat, i >= n PROVE Least(W(i)) = i
  <2>1. i \in W(i)
    <3>1. i = i * Loop!Power[0] /\ 0 \in Nat
      BY PowerSteps
    <3> QED
      BY <1>1, <3>1
  <2>2. \A m \in W(i) : i <= m
    <3> SUFFICES ASSUME NEW k \in Nat PROVE i <= i * Loop!Power[k] \/ i * Loop!Power[k] < n
      OBVIOUS
    <3>1. Loop!Power[k] \in Nat /\ Loop!Power[k] > 0
      <4>1. Loop!Power[k] \in Nat
        BY PowerSteps
      <4>2. Loop!Power[k] > k
        BY PowerGrows
      <4> QED
        BY <4>1, <4>2
    <3>2. Loop!Power[k] * i >= i
      BY <3>1, Products
    <3> QED
      BY <3>1, <3>2
  <2>3. W(i) \subseteq Nat
    OBVIOUS
  <2> HIDE DEF W
  <2> QED
    BY <2>1, <2>2, <2>3
<1>2. ASSUME NEW i \in Nat, ~(i >= n) PROVE W(i) = W(2 * i)
  <2>1. \A k \in Nat : i * Loop!Power[k + 1] = 2 * i * Loop!Power[k]
    <3> TAKE k \in Nat
    <3>1. Loop!Power[k] \in Nat /\ Loop!Power[k + 1] = 2 * Loop!Power[k]
      BY PowerSteps
    <3>2. \A a, p \in Nat : a * (2 * p) = 2 * a * p
      OBVIOUS
    <3> QED
      BY <3>1, <3>2
  <2>2. \A k \in Nat : i * Loop!Power[k] >= n => k # 0 /\ k - 1 \in Nat /\ i * Loop!Power[k] = 2 * i * Loop!Power[k - 1]
    <3> TAKE k \in Nat
    <3> HAVE i * Loop!Power[k] >= n
    <3>1. k # 0
      BY <1>2, PowerSteps
    <3>2. k - 1 \in Nat /\ (k - 1) + 1 = k
      BY <3>1
    <3> QED
      BY <2>1, <3>1, <3>2
  <2>3. \A m \in W(i) : m \in W(2 * i)
    BY <2>2
  <2>4. \A m \in W(2 * i) : m \in W(i)
    <3> SUFFICES ASSUME NEW k \in Nat PROVE \E l \in Nat : 2 * i * Loop!Power[k] = i * Loop!Power[l]
      OBVIOUS
    <3>1. k + 1 \in Nat
      OBVIOUS
    <3> QED
      BY <2>1, <3>1
  <2> HIDE DEF W
  <2> QED
    BY <2>3, <2>4
<1>3. h = D(h)
  <2>1. \A i \in Nat : h[i] = IF i >= n THEN i ELSE h[2 * i]
    <3> TAKE i \in Nat
    <3>1. h[i] = Least(W(i)) /\ h[2 * i] = Least(W(2 * i))
      <4> HIDE DEF Least, W
      <4> QED
        OBVIOUS
    <3> HIDE DEF Least, W, h
    <3> QED
      BY <1>1, <1>2, <3>1
  <2>2. h = [i \in Nat |-> h[i]]
    <3> HIDE DEF Least, W
    <3> QED
      OBVIOUS
  <2> HIDE DEF h
  <2> QED
    BY <2>1, <2>2
<1>4. grow = D(grow)
  <2> HIDE DEF h, D
  <2> QED
    BY <1>3
<1> HIDE DEF grow
<1>5. \A i \in Nat : grow[i] = IF i >= n THEN i ELSE grow[2 * i]
  <2> DEFINE g == D(grow)
  <2>1. grow = g
    BY <1>4
  <2>2. \A i \in Nat : g[i] = IF i >= n THEN i ELSE grow[2 * i]
    OBVIOUS
  <2> HIDE DEF g
  <2> QED
    BY <2>1, <2>2
<1>6. \A i \in Nat \ {0} : grow[i] \in Nat \ {0} /\ grow[i] >= n
  <2> DEFINE Bad(i) == i < n /\ ~(grow[i] \in Nat \ {0} /\ grow[i] >= n)
             T == {k \in Nat : \E i \in Nat \ {0} : k = n - i /\ Bad(i)}
  <2>1. \A i \in Nat \ {0} : ~(grow[i] \in Nat \ {0} /\ grow[i] >= n) => Bad(i)
    BY <1>5
  <2>2. T = {}
    <3> SUFFICES ASSUME T # {} PROVE FALSE
      OBVIOUS
    <3>1. PICK k \in T : \A l \in T : k <= l
      <4>1. T \in SUBSET Nat
        OBVIOUS
      <4> HIDE DEF T
      <4> QED
        BY <4>1, Smallest
    <3>2. PICK i \in Nat \ {0} : k = n - i /\ Bad(i)
      BY <3>1
    <3>3. grow[2 * i] = grow[i] /\ 2 * i \in Nat \ {0}
      BY <1>5, <3>2
    <3>4. Bad(2 * i)
      BY <2>1, <3>2, <3>3
    <3>5. n - 2 * i \in Nat /\ n - 2 * i < k
      BY <3>2, <3>3, <3>4
    <3>6. n - 2 * i \in T
      BY <3>3, <3>4, <3>5
    <3> QED
      BY <3>1, <3>5, <3>6
  <2>3. \A i \in Nat \ {0} : ~Bad(i)
    <3> SUFFICES ASSUME NEW i \in Nat \ {0}, Bad(i) PROVE FALSE
      OBVIOUS
    <3>1. n - i \in Nat
      OBVIOUS
    <3>2. n - i \in T
      BY <3>1
    <3> HIDE DEF T
    <3> QED
      BY <2>2, <3>2
  <2> HIDE DEF Bad
  <2> QED
    BY <2>1, <2>3
<1>7. InitialSize \in Nat \ {0}
  BY DEF Dict!DictAssumption
<1>8. Dict!NextPower(n) = grow[InitialSize]
  BY DEF Dict!NextPower, grow
<1> QED
  BY <1>6, <1>7, <1>8

\* A new table has no entry.
LEMMA EmptyTables ==
  WellTable(Dict!NoTable) /\ \A n \in Nat : WellTable(Dict!Table(n))
<1>1. ASSUME NEW t, NEW n \in Nat,
             t = [size |-> n, used |-> 0, table |-> [s \in 0 .. n - 1 |-> <<>>]]
      PROVE  WellTable(t)
  <2>1. /\ t = [size |-> t.size, used |-> t.used, table |-> t.table]
        /\ t.size = n /\ t.used = 0 /\ t.table = [s \in 0 .. n - 1 |-> <<>>]
    BY <1>1
  <2>2. <<>> \in Seq(Dict!Entry) /\ Len(<<>>) = 0
    BY EmptySeq
  <2>3. t.table \in [0 .. n - 1 -> Seq(Dict!Entry)] /\ \A r \in 0 .. n - 1 : t.table[r] = <<>>
    BY <2>1, <2>2
  <2>4. \A r, j : <<r, j>> \notin Dict!Linked(t)
    <3>1. \A r, j : <<r, j>> \in Dict!Linked(t) <=> r \in 0 .. n - 1 /\ j \in 1 .. Len(t.table[r])
      BY <2>3, Places
    <3>2. \A r \in 0 .. n - 1 : 1 .. Len(t.table[r]) = {}
      BY <2>2, <2>3
    <3> QED
      BY <3>1, <3>2
  <2>5. Dict!Linked(t) = {}
    <3>1. \A p \in Dict!Linked(t) : p = <<p[1], p[2]>>
      BY <2>3, Places
    <3> QED
      BY <2>4, <3>1
  <2>6. IsFiniteSet(Dict!Linked(t)) /\ t.used = Cardinality(Dict!Linked(t))
    BY <2>1, <2>5, FS_EmptySet
  <2>7. \A s \in 0 .. t.size - 1 : \A j \in 1 .. Len(t.table[s]) : Dict!Slot(t, t.table[s][j].key) = s
    BY <2>1, <2>2, <2>3
  <2> QED
    BY <2>1, <2>3, <2>6, <2>7 DEF WellTable
<1>2. Dict!NoTable = [size |-> 0, used |-> 0, table |-> [s \in 0 .. 0 - 1 |-> <<>>]]
  BY DEF Dict!NoTable
<1> QED
  BY <1>1, <1>2 DEF Dict!Table

\* A dict of which a chain and a counter of one table change.
LEMMA TableIs ==
  ASSUME NEW x, Well(x), NEW i \in {0, 1}, NEW s, NEW c, NEW n
  PROVE  LET t == WithChain(x.ht[i], s, c, n)
             y == Changed(x, i, s, c, n)
         IN  /\ y = [ht |-> y.ht, rehashidx |-> y.rehashidx] /\ y.rehashidx = x.rehashidx
             /\ y.ht = [k \in {0, 1} |-> y.ht[k]]
             /\ \A k \in {0, 1} : y.ht[k] = IF k = i THEN t ELSE x.ht[k]
<1> DEFINE t == [size |-> x.ht[i].size, used |-> n, table |-> [x.ht[i].table EXCEPT ![s] = c]]
           y == [x EXCEPT !.ht[i].table[s] = c, !.ht[i].used = n]
<1>1. /\ x = [ht |-> x.ht, rehashidx |-> x.rehashidx]
      /\ x.ht = [k \in {0, 1} |-> x.ht[k]]
      /\ x.ht[i] = [size |-> x.ht[i].size, used |-> x.ht[i].used, table |-> x.ht[i].table]
  BY DEF Well, WellTable
<1>2. y = [ht |-> [x.ht EXCEPT ![i] = t], rehashidx |-> x.rehashidx]
  <2> DEFINE h == [x.ht EXCEPT ![i] = [x.ht[i] EXCEPT !.table[s] = c]]
             z == [ht |-> h, rehashidx |-> x.rehashidx]
  <2>1. z = [x EXCEPT !.ht[i].table[s] = c]
    BY <1>1
  <2>2. y = [z EXCEPT !.ht[i].used = n]
    BY <2>1
  <2>3. z.ht = h /\ z.rehashidx = x.rehashidx /\ z = [ht |-> z.ht, rehashidx |-> z.rehashidx]
    OBVIOUS
  <2> HIDE DEF z, y
  <2>4. y = [ht |-> [h EXCEPT ![i].used = n], rehashidx |-> x.rehashidx]
    <3> HIDE DEF h
    <3> QED
      BY <2>2, <2>3
  <2>5. h[i] = [size |-> x.ht[i].size, used |-> x.ht[i].used, table |-> [x.ht[i].table EXCEPT ![s] = c]]
        /\ h = [k \in {0, 1} |-> IF k = i THEN h[i] ELSE x.ht[k]]
    BY <1>1
  <2>6. [h EXCEPT ![i].used = n] = [k \in {0, 1} |-> IF k = i THEN [h[i] EXCEPT !.used = n] ELSE x.ht[k]]
    <3> HIDE DEF h
    <3> QED
      BY <2>5
  <2>7. [h[i] EXCEPT !.used = n] = t
    <3> HIDE DEF h
    <3> QED
      BY <2>5
  <2>8. [x.ht EXCEPT ![i] = t] = [k \in {0, 1} |-> IF k = i THEN t ELSE x.ht[k]]
    <3> HIDE DEF t
    <3> QED
      BY <1>1
  <2> HIDE DEF h, t
  <2> QED
    BY <2>4, <2>6, <2>7, <2>8
<1> HIDE DEF y
<1>3. y.rehashidx = x.rehashidx /\ y.ht = [x.ht EXCEPT ![i] = t] /\ y = [ht |-> y.ht, rehashidx |-> y.rehashidx]
  BY <1>2
<1> HIDE DEF t
<1>4. y.ht = [k \in {0, 1} |-> y.ht[k]] /\ \A k \in {0, 1} : y.ht[k] = IF k = i THEN t ELSE x.ht[k]
  BY <1>1, <1>3
<1>5. /\ y = [ht |-> y.ht, rehashidx |-> y.rehashidx] /\ y.rehashidx = x.rehashidx
      /\ y.ht = [k \in {0, 1} |-> y.ht[k]] /\ \A k \in {0, 1} : y.ht[k] = IF k = i THEN t ELSE x.ht[k]
  BY ONLY <1>3, <1>4
<1> QED
  BY ONLY <1>5 DEF y, t, WithChain, Changed

\* It is well if the table is, which keeps its size.
LEMMA TableReplaced ==
  ASSUME NEW x, Well(x), NEW i \in {0, 1}, NEW s \in 0 .. x.ht[i].size - 1, NEW c, NEW n,
         WellTable(WithChain(x.ht[i], s, c, n))
  PROVE  Well(Changed(x, i, s, c, n))
<1> DEFINE t == WithChain(x.ht[i], s, c, n)
           y == Changed(x, i, s, c, n)
<1>3. /\ y = [ht |-> y.ht, rehashidx |-> y.rehashidx] /\ y.rehashidx = x.rehashidx
      /\ y.ht = [k \in {0, 1} |-> y.ht[k]] /\ \A k \in {0, 1} : y.ht[k] = IF k = i THEN t ELSE x.ht[k]
  BY TableIs
<1> HIDE DEF y
<1>4. t.size = x.ht[i].size /\ WellTable(t)
  BY DEF WithChain
<1> HIDE DEF t
<1>5. y.ht = [k \in {0, 1} |-> y.ht[k]] /\ \A k \in {0, 1} : y.ht[k] = IF k = i THEN t ELSE x.ht[k]
  BY <1>3
<1>6. \A k \in {0, 1} : WellTable(y.ht[k]) /\ y.ht[k].size = x.ht[k].size
  BY <1>4, <1>5 DEF Well
<1>7. Dict!IsRehashing(y) <=> Dict!IsRehashing(x)
  BY <1>3 DEF Dict!IsRehashing
<1>8. Well(y)
  BY <1>3, <1>5, <1>6, <1>7 DEF Well
<1> QED
  BY <1>8 DEF y

\* With n = 1 dictRehash moves nothing, and finishes when the first table is empty.
LEMMA StepIs ==
  ASSUME NEW x
  PROVE  /\ Dict!Rehash(x, 1) = IF Dict!IsRehashing(x) THEN Dict!Finish(x) ELSE x
         /\ Dict!RehashStep(x) = Dict!Rehash(x, 1)
<1>1. CASE ~Dict!IsRehashing(x)
  BY <1>1 DEF Dict!Rehash, Dict!RehashStep
<1>2. CASE Dict!IsRehashing(x)
  <2> DEFINE start == [dict |-> x, visits |-> 1 * 10, returned |-> FALSE]
             D(f) == [k \in 0 .. 1 - 1 |->
                        IF k = 0 THEN start
                        ELSE LET s == f[k - 1] IN
                             IF s.returned \/ s.dict.ht[0].used = 0 THEN s ELSE Dict!MoveBucket(s)]
             after == CHOOSE f : f = D(f)
             one == [k \in 0 .. 0 |-> start]
  <2>1. one = D(one)
    BY DEF start
  <2>2. after = D(after)
    <3> HIDE DEF one, D
    <3> QED
      BY <2>1
  <2>3. after[1 - 1] = start
    <3> DEFINE g == D(after)
    <3>1. g[0] = start
      BY DEF start
    <3> HIDE DEF g, after
    <3> QED
      BY <2>2, <3>1
  <2>4. Dict!Rehash(x, 1) = Dict!Left(after[1 - 1])
    BY <1>2 DEF Dict!Rehash, Dict!MoveBucket, after, start
  <2>5. Dict!Left(start) = Dict!Finish(x)
    BY DEF Dict!Left
  <2> HIDE DEF start, after
  <2> QED
    BY <1>2, <2>3, <2>4, <2>5 DEF Dict!RehashStep
<1> QED
  BY <1>1, <1>2

\* A rehash step keeps the dict well, and leaves a first table for what it holds.
LEMMA StepWell ==
  ASSUME NEW x, Well(x)
  PROVE  /\ Well(Dict!RehashStep(x))
         /\ Dict!DictSize(x) # 0 => Dict!RehashStep(x).ht[0].size # 0
<1> DEFINE r == Dict!RehashStep(x)
<1>1. CASE ~(Dict!IsRehashing(x) /\ x.ht[0].used = 0)
  <2>1. r = x
    BY <1>1, StepIs DEF Dict!Finish
  <2>2. Dict!DictSize(x) # 0 => x.ht[0].size # 0
    <3> SUFFICES ASSUME x.ht[0].size = 0 PROVE Dict!DictSize(x) = 0
      OBVIOUS
    <3>1. x.ht[1].size = 0 /\ WellTable(x.ht[0]) /\ WellTable(x.ht[1])
      BY DEF Well
    <3>2. x.ht[0].used = 0 /\ x.ht[1].used = 0
      BY <3>1, LinkedAreCounted
    <3> QED
      BY <3>2 DEF Dict!DictSize
  <2> HIDE DEF r
  <2>3. Well(r) /\ (Dict!DictSize(x) # 0 => r.ht[0].size # 0)
    BY <2>1, <2>2
  <2> QED
    BY <2>3 DEF r
<1>2. CASE Dict!IsRehashing(x) /\ x.ht[0].used = 0
  <2> DEFINE y == [ht |-> [i \in {0, 1} |-> IF i = 0 THEN x.ht[1] ELSE Dict!NoTable], rehashidx |-> -1]
  <2>1. y = [ht |-> y.ht, rehashidx |-> y.rehashidx] /\ y.rehashidx = -1
        /\ y.ht = [i \in {0, 1} |-> y.ht[i]] /\ y.ht[0] = x.ht[1] /\ y.ht[1] = Dict!NoTable
    OBVIOUS
  <2>2. WellTable(x.ht[1]) /\ WellTable(Dict!NoTable) /\ Dict!NoTable.size = 0 /\ x.ht[1].size \in Nat \ {0}
    BY <1>2, EmptyTables DEF Well, WellTable, Dict!NoTable
  <2>3. r = y
    BY <1>2, StepIs DEF Dict!Finish
  <2> HIDE DEF y, r
  <2>4. Well(y) /\ y.ht[0].size # 0
    BY <2>1, <2>2 DEF Well, Dict!IsRehashing
  <2>5. Well(r) /\ r.ht[0].size # 0
    BY <2>3, <2>4
  <2> QED
    BY <2>5 DEF r
<1> QED
  BY <1>1, <1>2

\* The table that additions go to.
LastTable(x) == IF Dict!IsRehashing(x) THEN 1 ELSE 0

\* dictExpand, with a new first table or a second one.
LEMMA ExpandWell ==
  ASSUME Dict!DictAssumption, NEW x, Well(x), NEW n \in Nat
  PROVE  /\ Well(Dict!Expand(x, n).dict)
         /\ ~Dict!IsRehashing(x) /\ Dict!Expand(x, n).ok = TRUE
              => LET y == Dict!Expand(x, n).dict IN y.ht[LastTable(y)].size # 0
         /\ x.ht[0].size = 0 => Dict!Expand(x, n).ok = TRUE
<1> DEFINE real == Dict!NextPower(n)
           e == Dict!Expand(x, n)
           new == Dict!Table(real)
<1>1. real \in Nat \ {0} /\ WellTable(new) /\ new.size = real
  BY PowerFound, EmptyTables DEF Dict!Table
<1>2. /\ x = [ht |-> x.ht, rehashidx |-> x.rehashidx] /\ x.ht = [k \in {0, 1} |-> x.ht[k]]
      /\ WellTable(x.ht[0]) /\ WellTable(x.ht[1]) /\ x.ht[0].size \in Nat
  BY DEF Well, WellTable
<1>3. CASE Dict!IsRehashing(x) \/ (~Dict!IsRehashing(x) /\ real = x.ht[0].size)
  <2>1. e.dict = x /\ (e.ok = TRUE => Dict!IsRehashing(x)) /\ x.ht[0].size # 0
    BY <1>1, <1>3 DEF Dict!Expand, Well
  <2> HIDE DEF e
  <2>2. /\ Well(e.dict) /\ (~Dict!IsRehashing(x) /\ e.ok = TRUE => FALSE) /\ x.ht[0].size # 0
    BY <2>1
  <2> QED
    BY <2>2 DEF e
<1>4. CASE ~Dict!IsRehashing(x) /\ real # x.ht[0].size /\ x.ht[0].size = 0
  <2> DEFINE y == [x EXCEPT !.ht[0] = new]
  <2>1. e = [dict |-> y, ok |-> TRUE]
    BY <1>4 DEF Dict!Expand
  <2> HIDE DEF new
  <2>2. y = [ht |-> [k \in {0, 1} |-> IF k = 0 THEN new ELSE x.ht[k]], rehashidx |-> x.rehashidx]
    BY <1>2
  <2> HIDE DEF y
  <2>3. /\ y = [ht |-> y.ht, rehashidx |-> y.rehashidx] /\ y.rehashidx = x.rehashidx
        /\ y.ht = [k \in {0, 1} |-> y.ht[k]] /\ y.ht[0] = new /\ y.ht[1] = x.ht[1]
    BY <2>2
  <2>4. Well(y) /\ ~Dict!IsRehashing(y) /\ y.ht[0].size # 0
    BY <1>1, <1>2, <1>4, <2>3 DEF Well, Dict!IsRehashing
  <2> HIDE DEF e
  <2>5. Well(e.dict) /\ e.ok = TRUE /\ e.dict.ht[LastTable(e.dict)].size # 0
    BY <2>1, <2>4 DEF LastTable
  <2> QED
    BY <2>5 DEF e
<1>5. CASE ~Dict!IsRehashing(x) /\ real # x.ht[0].size /\ x.ht[0].size # 0
  <2> DEFINE y == [x EXCEPT !.ht[1] = new, !.rehashidx = 0]
  <2>1. e = [dict |-> y, ok |-> TRUE]
    BY <1>5 DEF Dict!Expand
  <2> HIDE DEF new
  <2>2. y = [ht |-> [k \in {0, 1} |-> IF k = 1 THEN new ELSE x.ht[k]], rehashidx |-> 0]
    <3> DEFINE h == [k \in {0, 1} |-> IF k = 1 THEN new ELSE x.ht[k]]
               z == [x EXCEPT !.ht[1] = new]
    <3>1. h = [x.ht EXCEPT ![1] = new]
      BY <1>2
    <3>2. z = [ht |-> h, rehashidx |-> x.rehashidx]
      BY <1>2, <3>1
    <3>3. y = [z EXCEPT !.rehashidx = 0]
      OBVIOUS
    <3> HIDE DEF h, z, y
    <3>4. y = [ht |-> h, rehashidx |-> 0]
      BY <3>2, <3>3
    <3> QED
      BY <3>4 DEF h
  <2> HIDE DEF y
  <2>3. /\ y = [ht |-> y.ht, rehashidx |-> y.rehashidx] /\ y.rehashidx = 0
        /\ y.ht = [k \in {0, 1} |-> y.ht[k]] /\ y.ht[1] = new /\ y.ht[0] = x.ht[0]
    BY <2>2
  <2>4. Well(y) /\ Dict!IsRehashing(y) /\ y.ht[1].size # 0
    BY <1>1, <1>2, <1>5, <2>3 DEF Well, Dict!IsRehashing
  <2> HIDE DEF e
  <2>5. Well(e.dict) /\ e.ok = TRUE /\ e.dict.ht[LastTable(e.dict)].size # 0
    BY <2>1, <2>4 DEF LastTable
  <2> QED
    BY <1>5, <2>5 DEF e
<1> QED
  BY <1>3, <1>4, <1>5

\* _dictKeyIndex expands when it must; the slot it returns is one of the last table.
LEMMA KeyIndexWell ==
  ASSUME Dict!DictAssumption, NEW x, Well(x), NEW k \in Key
  PROVE  LET r == Dict!KeyIndex(x, k) IN
           /\ Well(r.dict)
           /\ r.idx # -1 => /\ r.idx = Dict!Slot(r.dict.ht[LastTable(r.dict)], k)
                            /\ r.dict.ht[LastTable(r.dict)].size # 0
<1> DEFINE e == Dict!ExpandIfNeeded(x)
           r == Dict!KeyIndex(x, k)
<1>1. Well(e.dict) /\ (e.ok = TRUE => e.dict.ht[LastTable(e.dict)].size # 0) /\ e.ok \in BOOLEAN
  <2>1. x.ht[0].used \in Nat /\ x.ht[0].size \in Nat
    BY LinkedAreCounted DEF Well, WellTable
  <2>2. InitialSize \in Nat /\ x.ht[0].used * 2 \in Nat
    BY <2>1 DEF Dict!DictAssumption
  <2>3. \A n : Dict!Expand(x, n).ok \in BOOLEAN
    BY DEF Dict!Expand
  <2>4. CASE ~Dict!IsRehashing(x) /\ x.ht[0].size = 0
    <3>1. e = Dict!Expand(x, InitialSize)
      BY <2>4 DEF Dict!ExpandIfNeeded
    <3> HIDE DEF e
    <3> QED
      BY <2>2, <2>3, <2>4, <3>1, ExpandWell
  <2>5. CASE ~Dict!IsRehashing(x) /\ x.ht[0].size # 0 /\ x.ht[0].used >= x.ht[0].size
    <3>1. e = Dict!Expand(x, x.ht[0].used * 2)
      BY <2>5 DEF Dict!ExpandIfNeeded
    <3> HIDE DEF e
    <3> QED
      BY <2>2, <2>3, <2>5, <3>1, ExpandWell
  <2>6. CASE Dict!IsRehashing(x) \/ (x.ht[0].size # 0 /\ ~(x.ht[0].used >= x.ht[0].size))
    <3>1. e = [dict |-> x, ok |-> TRUE]
      BY <2>6 DEF Dict!ExpandIfNeeded
    <3>2. x.ht[LastTable(x)].size # 0
      BY <2>6 DEF LastTable, Well
    <3> HIDE DEF e
    <3> QED
      BY <3>1, <3>2
  <2> QED
    BY <2>4, <2>5, <2>6
<1>2. r.dict = e.dict /\ (r.idx # -1 => e.ok = TRUE /\ r.idx = Dict!Slot(e.dict.ht[LastTable(e.dict)], k))
  <2> HIDE DEF e
  <2>1. r = Dict!IndexAfter(e, k)
    BY DEF Dict!KeyIndex, e
  <2> QED
    BY <1>1, <2>1 DEF Dict!IndexAfter, LastTable
<1> HIDE DEF r, e
<1>3. /\ Well(r.dict)
      /\ r.idx # -1 => r.idx = Dict!Slot(r.dict.ht[LastTable(r.dict)], k) /\ r.dict.ht[LastTable(r.dict)].size # 0
  BY <1>1, <1>2
<1> QED
  BY <1>3 DEF r


\* dictAdd puts the entry at the head of its chain.
LEMMA AddWell ==
  ASSUME Dict!DictAssumption, NEW x, Well(x), NEW k \in Key, NEW v \in Val,
         x.ht[LastTable(x)].size # 0
  PROVE  Well([x EXCEPT !.ht[LastTable(x)].table[Dict!Slot(x.ht[LastTable(x)], k)] = <<[key |-> k, val |-> v]>> \o @,
                        !.ht[LastTable(x)].used = @ + 1])
<1> DEFINE i == LastTable(x)
           t == x.ht[i]
           s == Dict!Slot(t, k)
           e == [key |-> k, val |-> v]
           c == <<e>> \o t.table[s]
<1>1. i \in {0, 1}
  BY DEF LastTable
<1> HIDE DEF i
<1>2. WellTable(t) /\ t.size # 0
  BY <1>1 DEF Well, i
<1>3. s \in 0 .. t.size - 1
  BY <1>2, HashSlot
<1>4. t.table[s] \in Seq(Dict!Entry) /\ e \in Dict!Entry
  BY <1>2, <1>3 DEF WellTable, Dict!Entry
<1>5. c \in Seq(Dict!Entry) /\ Len(c) = Len(t.table[s]) + 1
      /\ \A j \in 1 .. Len(c) : c[j] = IF j = 1 THEN e ELSE t.table[s][j - 1]
  <2> HIDE DEF e, s, t
  <2>1. <<e>> \in Seq(Dict!Entry) /\ Len(<<e>>) = 1 /\ <<e>>[1] = e
    BY <1>4
  <2> QED
    BY <1>4, <2>1, ConcatProperties
<1> HIDE DEF c
<1>6. \A j \in 1 .. Len(c) : Dict!Slot(t, c[j].key) = s
  <2> TAKE j \in 1 .. Len(c)
  <2>1. CASE j = 1
    BY <1>5, <2>1
  <2>2. CASE j # 1
    <3>1. j - 1 \in 1 .. Len(t.table[s]) /\ c[j] = t.table[s][j - 1]
      BY <1>4, <1>5, <2>2
    <3> QED
      BY <1>2, <1>3, <3>1 DEF WellTable
  <2> QED
    BY <2>1, <2>2
<1> HIDE DEF s
<1>7. WellTable(WithChain(t, s, c, t.used + 1))
  BY <1>2, <1>3, <1>5, <1>6, OneMore
<1>8. Well(Changed(x, i, s, c, t.used + 1))
  BY <1>1, <1>3, <1>7, TableReplaced
<1> QED
  BY <1>8 DEF Changed, c, s, i

\* An entry taken out of a chain.
LEMMA Removed ==
  ASSUME NEW E, NEW c \in Seq(E), NEW p \in 1 .. Len(c)
  PROVE  /\ Dict!RemoveAt(c, p) \in Seq(E)
         /\ Len(Dict!RemoveAt(c, p)) = Len(c) - 1
         /\ \A j \in 1 .. Len(c) - 1 : Dict!RemoveAt(c, p)[j] = c[IF j < p THEN j ELSE j + 1]
<1> DEFINE a == SubSeq(c, 1, p - 1)
           b == SubSeq(c, p + 1, Len(c))
<1>1. Len(c) \in Nat /\ p \in Nat /\ \A j \in 1 .. Len(c) : c[j] \in E
  OBVIOUS
<1>2. /\ a \in Seq(E) /\ Len(a) = p - 1 /\ \A j \in 1 .. p - 1 : a[j] = c[j]
      /\ b \in Seq(E) /\ Len(b) = Len(c) - p /\ \A j \in 1 .. Len(c) - p : b[j] = c[j + p]
  BY <1>1, SubSeqProperties
<1>3. Dict!RemoveAt(c, p) = a \o b
  BY DEF Dict!RemoveAt
<1> HIDE DEF a, b
<1>4. a \o b \in Seq(E) /\ Len(a \o b) = Len(c) - 1
  BY <1>1, <1>2, ConcatProperties
<1>5. ASSUME NEW j \in 1 .. Len(c) - 1 PROVE (a \o b)[j] = c[IF j < p THEN j ELSE j + 1]
  <2>1. CASE j <= p - 1
    <3>1. (a \o b)[j] = c[j] /\ j \in 1 .. Len(c)
      BY <1>1, <1>2, <2>1, ConcatProperties
    <3> QED
      BY <1>1, <2>1, <3>1
  <2>2. CASE j > p - 1
    <3>1. j - (p - 1) \in 1 .. Len(c) - p /\ j + 1 \in 1 .. Len(c)
      BY <1>1, <2>2
    <3>2. (a \o b)[j] = b[j - (p - 1)]
      BY <1>1, <1>2, <2>2, <3>1, ConcatProperties
    <3>3. (a \o b)[j] = c[j + 1]
      BY <1>1, <1>2, <3>1, <3>2
    <3> QED
      BY <1>1, <2>2, <3>1, <3>3
  <2>3. j <= p - 1 \/ j > p - 1
    BY <1>1
  <2> QED
    BY <2>1, <2>2, <2>3
<1> QED
  BY <1>3, <1>4, <1>5

\* A position that dictDel finds is one of the chain's.
LEMMA PositionIs ==
  ASSUME NEW x, NEW i, NEW k, Dict!Chain(x.ht[i], k) \in Seq(Dict!Entry), Dict!Position(x, i, k) # 0
  PROVE  Dict!Position(x, i, k) \in 1 .. Len(Dict!Chain(x.ht[i], k))
<1> DEFINE c == Dict!Chain(x.ht[i], k)
           T == {j \in 1 .. Len(c) : c[j].key = k}
<1>1. Dict!Position(x, i, k) = IF T # {} THEN Dict!Min(T) ELSE 0
  BY DEF Dict!Position, Dict!SelectInSeq
<1>2. T \in SUBSET Nat /\ T \subseteq 1 .. Len(c) /\ T # {}
  BY <1>1
<1> HIDE DEF T
<1>3. Dict!Min(T) \in T
  BY <1>2, Smallest DEF Dict!Min
<1> QED
  BY <1>1, <1>2, <1>3

\* dictDel takes an entry out of the chain it found it in.
LEMMA DelWell ==
  ASSUME Dict!DictAssumption, NEW x, Well(x), NEW k \in Key, NEW i \in {0, 1},
         x.ht[i].size # 0, Dict!Position(x, i, k) # 0
  PROVE  Well(Dict!Unlink(x, i, k))
<1> DEFINE t == x.ht[i]
           s == Dict!Slot(t, k)
           p == Dict!Position(x, i, k)
           c == Dict!RemoveAt(t.table[s], p)
<1>1. WellTable(t)
  BY DEF Well
<1>2. s \in 0 .. t.size - 1
  BY <1>1, HashSlot
<1>3. t.table[s] \in Seq(Dict!Entry) /\ t.table[s] = Dict!Chain(t, k)
  BY <1>1, <1>2 DEF WellTable, Dict!Chain
<1>4. p \in 1 .. Len(t.table[s])
  BY <1>3, PositionIs
<1> HIDE DEF p
<1>5. /\ c \in Seq(Dict!Entry) /\ Len(c) = Len(t.table[s]) - 1
      /\ \A j \in 1 .. Len(t.table[s]) - 1 : \E l \in 1 .. Len(t.table[s]) : c[j] = t.table[s][l]
  <2> HIDE DEF s, t
  <2>1. /\ c \in Seq(Dict!Entry) /\ Len(c) = Len(t.table[s]) - 1
        /\ \A j \in 1 .. Len(t.table[s]) - 1 : c[j] = t.table[s][IF j < p THEN j ELSE j + 1]
    BY <1>3, <1>4, Removed
  <2>2. Len(t.table[s]) \in Nat /\ p \in Nat
    BY <1>3, <1>4
  <2> HIDE DEF c
  <2>3. \A j \in 1 .. Len(t.table[s]) - 1 :
           (IF j < p THEN j ELSE j + 1) \in 1 .. Len(t.table[s])
    BY ONLY <2>2
  <2> QED
    BY ONLY <2>1, <2>3
<1> HIDE DEF c
<1>6. \A j \in 1 .. Len(c) : Dict!Slot(t, c[j].key) = s
  <2> TAKE j \in 1 .. Len(c)
  <2>1. PICK l \in 1 .. Len(t.table[s]) : c[j] = t.table[s][l]
    BY <1>5
  <2> QED
    BY <1>1, <1>2, <2>1 DEF WellTable
<1> HIDE DEF s
<1>7. WellTable(WithChain(t, s, c, t.used - 1))
  BY <1>1, <1>2, <1>5, <1>6, OneLess
<1>8. Well(Changed(x, i, s, c, t.used - 1))
  BY <1>2, <1>7, TableReplaced
<1> QED
  BY <1>8 DEF Changed, Dict!Unlink, c, s, p

\* What stale pointers leave has the shape of a dict, and is not used any more.
LEMMA StaleTypes ==
  ASSUME Dict!DictAssumption, NEW x, Well(x), NEW k \in Key, Dict!Stale(x, k),
         dict' = Dict!UnlinkStale(x, k), reply'.op = "del", broken' = TRUE
  PROVE  Dict!TypeOK'
<1> DEFINE t == x.ht[0]
           u == x.ht[1]
           s == Dict!Slot(t, k)
           c == t.table[s] \o Tail(Dict!Chain(u, k))
<1>1. /\ WellTable(t) /\ WellTable(u) /\ t.size # 0 /\ u.size # 0 /\ Dict!IsRehashing(x)
      /\ Dict!Position(x, 1, k) = 1
  BY DEF Well, Dict!Stale
<1>2. s \in 0 .. t.size - 1 /\ Dict!Slot(u, k) \in 0 .. u.size - 1
  BY <1>1, HashSlot
<1>3. /\ t.table[s] \in Seq(Dict!Entry)
      /\ Dict!Chain(u, k) \in Seq(Dict!Entry) /\ Dict!Chain(u, k) = u.table[Dict!Slot(u, k)]
  BY <1>1, <1>2 DEF WellTable, Dict!Chain
<1>4. Dict!Chain(u, k) # <<>>
  <2>1. 1 \in 1 .. Len(Dict!Chain(u, k))
    <3>1. Dict!Position(x, 1, k) # 0
      BY <1>1
    <3> QED
      BY <1>1, <1>3, <3>1, PositionIs
  <2> HIDE DEF u
  <2> QED
    BY <2>1, EmptySeq
<1>5. u.used \in Nat /\ u.used > 0 /\ t.used \in Nat
  <2>1. \A r \in 0 .. u.size - 1 : u.table[r] # <<>> => u.used > 0
    BY <1>1, LinkedAreCounted
  <2>2. u.used \in Nat /\ t.used \in Nat
    BY <1>1, LinkedAreCounted
  <2> QED
    BY <1>2, <1>3, <1>4, <2>1, <2>2
<1>6. c \in Seq(Dict!Entry)
  <2>1. Tail(Dict!Chain(u, k)) \in Seq(Dict!Entry)
    BY <1>3, <1>4, HeadTailProperties
  <2> QED
    BY <1>3, <2>1, ConcatProperties
<1>7. /\ x = [ht |-> x.ht, rehashidx |-> x.rehashidx] /\ x.ht = [i \in {0, 1} |-> x.ht[i]]
      /\ t = [size |-> t.size, used |-> t.used, table |-> t.table]
      /\ u = [size |-> u.size, used |-> u.used, table |-> u.table]
      /\ t.size \in Nat /\ u.size \in Nat
      /\ t.table \in [0 .. t.size - 1 -> Seq(Dict!Entry)] /\ u.table \in [0 .. u.size - 1 -> Seq(Dict!Entry)]
      /\ x.rehashidx \in -1 .. t.size
  BY DEF Well, WellTable
<1> HIDE DEF c, s
<1>16. /\ [x EXCEPT !.ht[0].table[s] = c]
            = [ht |-> [x.ht EXCEPT ![0] = [x.ht[0] EXCEPT !.table[s] = c]], rehashidx |-> x.rehashidx]
       /\ [x.ht[0] EXCEPT !.table[s] = c]
            = [size |-> x.ht[0].size, used |-> x.ht[0].used, table |-> [x.ht[0].table EXCEPT ![s] = c]]
  <2>1. /\ x = [ht |-> x.ht, rehashidx |-> x.rehashidx] /\ x.ht = [j \in {0, 1} |-> x.ht[j]]
        /\ x.ht[0] = [size |-> x.ht[0].size, used |-> x.ht[0].used, table |-> x.ht[0].table]
    BY <1>7
  <2> HIDE DEF t, u
  <2>2. [x EXCEPT !.ht[0].table[s] = c]
          = [ht |-> [x.ht EXCEPT ![0] = [x.ht[0] EXCEPT !.table[s] = c]], rehashidx |-> x.rehashidx]
    BY ONLY <2>1
  <2>3. [x.ht[0] EXCEPT !.table[s] = c]
          = [size |-> x.ht[0].size, used |-> x.ht[0].used, table |-> [x.ht[0].table EXCEPT ![s] = c]]
    BY ONLY <2>1
  <2> QED
    BY ONLY <2>2, <2>3
<1> DEFINE table == [t.table EXCEPT ![s] = c]
           h == [i \in {0, 1} |-> IF i = 0 THEN [t EXCEPT !.table[s] = c] ELSE u]
           z == [x EXCEPT !.ht[0].table[s] = c]
           y == [x EXCEPT !.ht[0].table[s] = c, !.ht[1].used = u.used - 1]
<1>8. dict' = y
  BY DEF Dict!UnlinkStale, Dict!Chain, c, s
<1>9. z = [ht |-> h, rehashidx |-> x.rehashidx] /\ y = [z EXCEPT !.ht[1].used = u.used - 1]
  <2> DEFINE g == [x.ht EXCEPT ![0] = [t EXCEPT !.table[s] = c]]
  <2>1. z = [ht |-> g, rehashidx |-> x.rehashidx]
    BY <1>16
  <2>2. g = h
    BY <1>7
  <2>3. y = [z EXCEPT !.ht[1].used = u.used - 1]
    BY <1>7
  <2> HIDE DEF g, h, z, y
  <2> QED
    BY <2>1, <2>2, <2>3
<1>10. /\ h[0] = [size |-> t.size, used |-> t.used, table |-> table] /\ h[1] = u
       /\ h = [i \in {0, 1} |-> h[i]]
  <2>1. [t EXCEPT !.table[s] = c] = [size |-> t.size, used |-> t.used, table |-> table]
    BY <1>16
  <2>2. h[0] = [t EXCEPT !.table[s] = c] /\ h[1] = u /\ h = [i \in {0, 1} |-> h[i]]
    OBVIOUS
  <2> QED
    BY <2>1, <2>2
<1> HIDE DEF h, z, y
<1>11. /\ y.rehashidx = x.rehashidx /\ y.ht[0] = h[0] /\ y.ht[1] = [u EXCEPT !.used = @ - 1]
  BY <1>9, <1>10
<1>12. /\ y.ht[0].size = t.size /\ y.ht[0].used = t.used /\ y.ht[0].table = table
       /\ y.ht[1].size = u.size /\ y.ht[1].used = u.used - 1 /\ y.ht[1].table = u.table
  BY <1>7, <1>10, <1>11
<1>13. table \in [0 .. t.size - 1 -> Seq(Dict!Entry)]
  BY <1>2, <1>6, <1>7
<1> HIDE DEF table, t, u
<1>14. /\ y.ht[0].used \in Nat /\ DOMAIN y.ht[0].table = 0 .. y.ht[0].size - 1
       /\ \A r \in DOMAIN y.ht[0].table : y.ht[0].table[r] \in Seq(Dict!Entry)
       /\ y.ht[1].used \in Nat /\ DOMAIN y.ht[1].table = 0 .. y.ht[1].size - 1
       /\ \A r \in DOMAIN y.ht[1].table : y.ht[1].table[r] \in Seq(Dict!Entry)
  <2>1. DOMAIN table = 0 .. t.size - 1 /\ \A r \in 0 .. t.size - 1 : table[r] \in Seq(Dict!Entry)
    BY <1>13
  <2>2. DOMAIN u.table = 0 .. u.size - 1 /\ \A r \in 0 .. u.size - 1 : u.table[r] \in Seq(Dict!Entry)
    BY <1>7
  <2>3. u.used - 1 \in Nat
    BY <1>5
  <2> QED
    BY <1>5, <1>12, <2>1, <2>2, <2>3, Zenon
<1>15. /\ y.rehashidx \in -1 .. y.ht[0].size
       /\ Dict!IsRehashing(y) <=> y.ht[1].size # 0
  BY <1>1, <1>7, <1>11, <1>12 DEF Dict!IsRehashing
<1> QED
  BY <1>8, <1>14, <1>15 DEF Dict!TypeOK, Dict!IsRehashing

\* A dict that is well has its shape.
LEMMA WellShape ==
  ASSUME NEW x, Well(x)
  PROVE  /\ \A i \in {0, 1} :
              /\ x.ht[i].used \in Nat /\ DOMAIN x.ht[i].table = 0 .. x.ht[i].size - 1
              /\ \A s \in DOMAIN x.ht[i].table : x.ht[i].table[s] \in Seq(Dict!Entry)
         /\ x.rehashidx \in -1 .. x.ht[0].size
         /\ Dict!IsRehashing(x) <=> x.ht[1].size # 0
<1>1. ASSUME NEW i \in {0, 1}
      PROVE  /\ x.ht[i].used \in Nat /\ DOMAIN x.ht[i].table = 0 .. x.ht[i].size - 1
             /\ \A s \in DOMAIN x.ht[i].table : x.ht[i].table[s] \in Seq(Dict!Entry)
  <2>1. WellTable(x.ht[i])
    BY DEF Well
  <2> QED
    BY <2>1, LinkedAreCounted DEF WellTable
<1> QED
  BY <1>1 DEF Well

\* dictCreate.
LEMMA DictStarts == ASSUME Dict!Init PROVE DictInv
<1>1. /\ dict = [ht |-> [i \in {0, 1} |-> Dict!NoTable], rehashidx |-> -1]
      /\ reply.op = "none" /\ broken = FALSE
  BY DEF Dict!Init
<1>2. dict.ht = [i \in {0, 1} |-> Dict!NoTable] /\ dict.rehashidx = -1
  BY <1>1
<1>3. Dict!NoTable.size = 0 /\ WellTable(Dict!NoTable)
  BY EmptyTables DEF Dict!NoTable
<1>4. Well(dict)
  BY <1>1, <1>2, <1>3 DEF Well, Dict!IsRehashing
<1> QED
  BY <1>1, <1>4, WellShape DEF DictInv, Dict!TypeOK

\* A call that leaves the dict well keeps the invariant.
LEMMA DictKept ==
  ASSUME Well(dict'), reply'.op \in {"none", "add", "get", "del"}, broken' \in BOOLEAN
  PROVE  DictInv'
<1>1. Dict!TypeOK'
  BY WellShape DEF Dict!TypeOK
<1> QED
  BY <1>1 DEF DictInv

\* Each call keeps the dict well, or is the last.
LEMMA CallKeeps ==
  ASSUME Dict!DictAssumption, OneAtATime, DictInv, Dict!Next
  PROVE  DictInv'
<1>1. broken = FALSE /\ Well(dict) /\ reply.op \in {"none", "add", "get", "del"}
  BY DEF Dict!Next, DictInv, Dict!TypeOK
<1> DEFINE x == Dict!RehashStep(dict)
<1>2. Well(x) /\ (Dict!DictSize(dict) # 0 => x.ht[0].size # 0)
  BY <1>1, StepWell
<1> HIDE DEF x
<1>3. ASSUME NEW k \in Key, Dict!DictGet(k) PROVE DictInv'
  <2>1. dict' \in {dict, x} /\ reply'.op = "get" /\ broken' = FALSE
    BY <1>1, <1>3 DEF Dict!DictGet, Dict!Answer, x
  <2>2. Well(dict')
    BY <1>1, <1>2, <2>1
  <2> QED
    BY <2>1, <2>2, DictKept
<1>4. ASSUME NEW k \in Key, NEW v \in Val, Dict!DictAdd(k, v) PROVE DictInv'
  <2> DEFINE r == Dict!KeyIndex(x, k)
  <2>1. /\ Well(r.dict)
        /\ r.idx # -1 => /\ r.idx = Dict!Slot(r.dict.ht[LastTable(r.dict)], k)
                         /\ r.dict.ht[LastTable(r.dict)].size # 0
    BY <1>2, KeyIndexWell
  <2>2. Dict!AddAfter(r, k, v)
    BY <1>4 DEF Dict!DictAdd, x
  <2> HIDE DEF r
  <2>3. CASE r.idx = -1 /\ dict' = r.dict /\ Dict!Answer("add", Text[k], "err")
    <3>1. Well(dict') /\ reply'.op = "add" /\ broken' = FALSE
      BY <1>1, <2>1, <2>2, <2>3 DEF Dict!AddAfter, Dict!Answer
    <3> QED
      BY <3>1, DictKept
  <2>4. CASE ~(r.idx = -1 /\ dict' = r.dict /\ Dict!Answer("add", Text[k], "err"))
    <3>1. /\ r.idx # -1 /\ reply'.op = "add" /\ broken' = FALSE
          /\ dict' = [r.dict EXCEPT !.ht[LastTable(r.dict)].table[r.idx] = <<[key |-> k, val |-> v]>> \o @,
                                    !.ht[LastTable(r.dict)].used = @ + 1]
      BY <1>1, <2>2, <2>4 DEF Dict!AddAfter, Dict!Answer, LastTable
    <3>2. Well(dict')
      BY <2>1, <3>1, AddWell
    <3> QED
      BY <3>1, <3>2, DictKept
  <2> QED
    BY <2>3, <2>4
<1>5. ASSUME NEW k \in Key, Dict!DictDel(k) PROVE DictInv'
  <2> DEFINE hits == {i \in Dict!Visited(x) : Dict!Position(x, i, k) # 0}
  <2>1. Dict!DelIn(x, k)
    BY <1>5 DEF Dict!DictDel, x
  <2>2. reply'.op = "del"
    BY <2>1 DEF Dict!DelIn, Dict!Answer
  <2>3. CASE dict' = dict /\ broken' = broken
    BY <1>1, <2>2, <2>3, DictKept
  <2>4. CASE dict' = x /\ broken' = broken
    BY <1>1, <1>2, <2>2, <2>4, DictKept
  <2>5. CASE Dict!Stale(x, k) /\ dict' = Dict!UnlinkStale(x, k) /\ broken' = TRUE
    <3>1. Dict!TypeOK'
      BY <1>2, <2>2, <2>5, StaleTypes
    <3> QED
      BY <2>5, <3>1 DEF DictInv
  <2>6. CASE /\ Dict!DictSize(dict) # 0 /\ hits # {}
             /\ dict' = Dict!Unlink(x, Dict!Min(hits), k) /\ broken' = broken
    <3> DEFINE i == Dict!Min(hits)
    <3>1. i \in hits
      <4>1. hits \in SUBSET Nat
        BY DEF Dict!Visited
      <4> HIDE DEF hits
      <4> QED
        BY <2>6, <4>1, Smallest DEF Dict!Min
    <3> HIDE DEF i
    <3>2. i \in {0, 1} /\ x.ht[i].size # 0 /\ Dict!Position(x, i, k) # 0
      BY <1>2, <2>6, <3>1 DEF Dict!Visited, Well
    <3>3. Well(Dict!Unlink(x, i, k))
      BY <1>2, <3>2, DelWell
    <3>4. Well(dict')
      BY <2>6, <3>3 DEF i
    <3> QED
      BY <1>1, <2>2, <2>6, <3>4, DictKept
  <2> HIDE DEF hits
  <2> QED
    BY <2>1, <2>3, <2>4, <2>5, <2>6 DEF Dict!DelIn, hits
<1>6. ASSUME NEW n \in ExpandTo, Dict!DictExpand(n) PROVE DictInv'
  <2>1. n \in Nat
    BY DEF Dict!DictAssumption
  <2>2. Well(dict') /\ reply' = reply /\ broken' = broken
    BY <1>1, <1>6, <2>1, ExpandWell DEF Dict!DictExpand
  <2> QED
    BY <1>1, <2>2, DictKept
<1>7. ASSUME NEW n \in RehashBy, Dict!DictRehash(n) PROVE DictInv'
  <2>1. n = 1
    BY DEF OneAtATime
  <2>2. dict' = x /\ reply' = reply /\ broken' = broken
    BY <1>7, <2>1, StepIs DEF Dict!DictRehash, x
  <2> QED
    BY <1>1, <1>2, <2>2, DictKept
<1> QED
  BY <1>3, <1>4, <1>5, <1>6, <1>7 DEF Dict!Next

\* What the invariant says of the tables.
LEMMA DictSafe == ASSUME DictInv PROVE TablesConsistent
<1>1. ASSUME broken = FALSE, NEW i \in {0, 1}
      PROVE  /\ \A s \in DOMAIN dict.ht[i].table :
                  \A e \in Dict!ToSet(dict.ht[i].table[s]) : Dict!Slot(dict.ht[i], e.key) = s
             /\ dict.ht[i].used = Dict!Cardinality(Dict!Linked(dict.ht[i]))
  <2>1. WellTable(dict.ht[i])
    BY <1>1 DEF DictInv, Well
  <2>2. DOMAIN dict.ht[i].table = 0 .. dict.ht[i].size - 1
    BY <2>1 DEF WellTable
  <2>3. ASSUME NEW s \in 0 .. dict.ht[i].size - 1, NEW e \in Dict!ToSet(dict.ht[i].table[s])
        PROVE  Dict!Slot(dict.ht[i], e.key) = s
    <3>1. dict.ht[i].table[s] \in Seq(Dict!Entry)
      BY <2>1 DEF WellTable
    <3>2. PICK j \in 1 .. Len(dict.ht[i].table[s]) : e = dict.ht[i].table[s][j]
      BY <3>1 DEF Dict!ToSet
    <3> QED
      BY <2>1, <3>2 DEF WellTable
  <2> QED
    BY <2>1, <2>2, <2>3, SameDictCardinality DEF WellTable
<1>2. broken \in BOOLEAN /\ Dict!TypeOK
  BY DEF DictInv, Dict!TypeOK
<1> QED
  BY <1>1, <1>2 DEF TablesConsistent, Dict!TablesConsistent

\* Through all expansions, half finished rehashes, additions and deletions whose
\* behaviour is defined, every entry is in the chain of the slot its string hashes
\* to, and each table counts its entries: for any keys, strings and hashes, any
\* initial size and any sizes that dictExpand is called with.
THEOREM DictCounts ==
  ASSUME Dict!DictAssumption, OneAtATime PROVE Dict!Spec => []TablesConsistent
<1>1. Dict!Init => DictInv
  BY DictStarts
<1>2. DictInv /\ [Dict!Next]_(Dict!vars) => DictInv'
  <2>1. CASE UNCHANGED Dict!vars
    BY <2>1 DEF DictInv, Dict!vars, Dict!TypeOK
  <2> QED
    BY <2>1, CallKeeps
<1>3. DictInv => TablesConsistent
  BY DictSafe
<1> QED
  BY <1>1, <1>2, <1>3, PTL DEF Dict!Spec

-----------------------------------------------------------------------------
(* The hash table as a map *)

\* Every caller has the same pointer for a string: dictDel compares pointers.
OnePointer == \A j, k \in Key : Text[j] = Text[k] => j = k

\* The entry e is linked from table t; from one of the tables of x.
Links(t, e) == \E s \in 0 .. t.size - 1 : \E j \in 1 .. Len(t.table[s]) : t.table[s][j] = e
Stores(x, e) == \E i \in {0, 1} : Links(x.ht[i], e)

\* A key is linked from one place only.
Distinct(t) ==
    \A s \in 0 .. t.size - 1 : \A j, l \in 1 .. Len(t.table[s]) :
        t.table[s][j].key = t.table[s][l].key => j = l

Unique(x) ==
    /\ \A i \in {0, 1} : Distinct(x.ht[i])
    /\ \A e, f : Links(x.ht[0], e) /\ Links(x.ht[1], f) => e.key # f.key

MapInv == DictInv /\ (broken = FALSE => Unique(dict))

\* The map m has for each key what x stores for it.
Maps(x, m) ==
    /\ m \in [Dict!Texts -> Val \cup {Absent}]
    /\ \A k \in Key : /\ \A e : Stores(x, e) /\ e.key = k => m[Text[k]] = e.val
                      /\ (\A e : Stores(x, e) => e.key # k) => m[Text[k]] = Absent

\* There is one such map.
LEMMA MapsOnce ==
  ASSUME NEW x, NEW m, NEW n, Maps(x, m), Maps(x, n)
  PROVE  m = n
<1>1. ASSUME NEW k \in Key PROVE m[Text[k]] = n[Text[k]]
  <2>1. CASE \E e : Stores(x, e) /\ e.key = k
    BY <2>1 DEF Maps
  <2>2. CASE \A e : Stores(x, e) => e.key # k
    BY <2>2 DEF Maps
  <2> QED
    BY <2>1, <2>2
<1>2. \A t \in Dict!Texts : m[t] = n[t]
  BY <1>1 DEF Dict!Texts
<1>3. m \in [Dict!Texts -> Val \cup {Absent}] /\ n \in [Dict!Texts -> Val \cup {Absent}]
  BY DEF Maps
<1> QED
  BY ONLY <1>2, <1>3

\* An entry is linked from the chain of its key.
LEMMA LinkedInChain ==
  ASSUME Dict!DictAssumption, NEW t, WellTable(t), NEW e, Links(t, e)
  PROVE  /\ e \in Dict!Entry /\ t.size # 0 /\ Dict!Chain(t, e.key) \in Seq(Dict!Entry)
         /\ \E j \in 1 .. Len(Dict!Chain(t, e.key)) : Dict!Chain(t, e.key)[j] = e
<1>1. PICK s \in 0 .. t.size - 1 : \E j \in 1 .. Len(t.table[s]) : t.table[s][j] = e
  BY DEF Links
<1>2. t.table[s] \in Seq(Dict!Entry) /\ t.size \in Nat
  BY DEF WellTable
<1>3. PICK j \in 1 .. Len(t.table[s]) : t.table[s][j] = e
  BY <1>1
<1>4. Dict!Slot(t, e.key) = s
  BY <1>3 DEF WellTable
<1>5. Dict!Chain(t, e.key) = t.table[s]
  BY <1>4 DEF Dict!Chain
<1>6. e \in Dict!Entry /\ t.size # 0
  BY <1>2, <1>3
<1> QED
  BY <1>2, <1>3, <1>5, <1>6

\* What is in the chain of a key is linked.
LEMMA ChainIsLinked ==
  ASSUME Dict!DictAssumption, NEW t, WellTable(t), t.size # 0, NEW k \in Key
  PROVE  /\ Dict!Chain(t, k) \in Seq(Dict!Entry)
         /\ \A j \in 1 .. Len(Dict!Chain(t, k)) :
              Links(t, Dict!Chain(t, k)[j]) /\ Dict!Chain(t, k)[j] \in Dict!Entry
<1>1. Dict!Slot(t, k) \in 0 .. t.size - 1
  BY HashSlot
<1>2. Dict!Chain(t, k) = t.table[Dict!Slot(t, k)]
  BY DEF Dict!Chain
<1>3. Dict!Chain(t, k) \in Seq(Dict!Entry)
  BY <1>1, <1>2 DEF WellTable
<1>4. \A j \in 1 .. Len(Dict!Chain(t, k)) : Links(t, Dict!Chain(t, k)[j])
  BY <1>1, <1>2 DEF Links
<1> QED
  BY <1>3, <1>4

\* The place of the first entry with a key in its chain, or 0 if there is none.
Where(c, k) == {j \in 1 .. Len(c) : c[j].key = k}
First(T) == IF T # {} THEN Dict!Min(T) ELSE 0

LEMMA Searched ==
  ASSUME Dict!DictAssumption, NEW t, WellTable(t), t.size # 0, NEW k \in Key,
         NEW p, p = First(Where(Dict!Chain(t, k), k))
  PROVE  /\ p # 0 => /\ p \in 1 .. Len(Dict!Chain(t, k)) /\ Dict!Chain(t, k)[p].key = k
                     /\ Links(t, Dict!Chain(t, k)[p])
         /\ p = 0 => \A e : Links(t, e) => e.key # k
<1> DEFINE c == Dict!Chain(t, k)
           T == Where(c, k)
<1>1. c \in Seq(Dict!Entry) /\ \A j \in 1 .. Len(c) : Links(t, c[j])
  BY ChainIsLinked
<1>2. T = {j \in 1 .. Len(c) : c[j].key = k}
  BY DEF Where
<1>3. T \in SUBSET Nat /\ \A j \in T : j # 0
  BY <1>2
<1>4. T # {} => Dict!Min(T) \in T
  BY <1>3, Smallest DEF Dict!Min
<1>5. (p # 0 => p \in T) /\ (p = 0 => T = {})
  BY <1>3, <1>4 DEF First
<1>6. ASSUME T = {}, NEW e, Links(t, e) PROVE e.key # k
  <2>1. \E j \in 1 .. Len(Dict!Chain(t, e.key)) : Dict!Chain(t, e.key)[j] = e
    BY <1>6, LinkedInChain
  <2> HIDE DEF T
  <2> SUFFICES ASSUME e.key = k PROVE FALSE
    OBVIOUS
  <2>2. \E j \in 1 .. Len(c) : c[j] = e
    BY <2>1
  <2> QED
    BY <1>2, <1>6, <2>2
<1> HIDE DEF T
<1>7. p # 0 => p \in 1 .. Len(c) /\ c[p].key = k
  BY <1>2, <1>5
<1> QED
  BY <1>1, <1>5, <1>6, <1>7

\* dictGet compares strings and dictDel pointers.
LEMMA HitIs ==
  ASSUME Dict!DictAssumption, OnePointer, NEW x, NEW i, WellTable(x.ht[i]), x.ht[i].size # 0, NEW k \in Key
  PROVE  Dict!Hit(x, i, k) = First(Where(Dict!Chain(x.ht[i], k), k))
<1> DEFINE c == Dict!Chain(x.ht[i], k)
           T == {j \in 1 .. Len(c) : c[j].key = k}
           U == {j \in 1 .. Len(c) : Text[c[j].key] = Text[k]}
<1>1. Dict!Hit(x, i, k) = IF U # {} THEN Dict!Min(U) ELSE 0
  BY DEF Dict!Hit, Dict!SelectInSeq
<1>2. \A j \in 1 .. Len(c) : c[j].key \in Key
  BY ChainIsLinked DEF Dict!Entry
<1>3. U = T
  BY <1>2 DEF OnePointer
<1> QED
  BY <1>1, <1>3 DEF First, Where

LEMMA PositionFinds ==
  ASSUME NEW x, NEW i, NEW k
  PROVE  Dict!Position(x, i, k) = First(Where(Dict!Chain(x.ht[i], k), k))
BY DEF Dict!Position, Dict!SelectInSeq, First, Where

\* An empty table links nothing.
LEMMA NothingLinked ==
  ASSUME NEW t, WellTable(t), t.used = 0 \/ t.size = 0, NEW e
  PROVE  ~Links(t, e)
<1> SUFFICES ASSUME Links(t, e) PROVE FALSE
  OBVIOUS
<1>1. PICK s \in 0 .. t.size - 1 : \E j \in 1 .. Len(t.table[s]) : t.table[s][j] = e
  BY DEF Links
<1>2. t.size \in Nat /\ t.size # 0 /\ t.table[s] \in Seq(Dict!Entry)
  BY DEF WellTable
<1>3. t.table[s] # <<>>
  BY <1>1, EmptySeq
<1>4. t.used \in Nat /\ t.used > 0
  BY <1>3, LinkedAreCounted
<1> QED
  BY <1>2, <1>4

\* In a table without repetitions there is one entry with a key.
LEMMA OneEntry ==
  ASSUME NEW t, WellTable(t), Distinct(t), NEW e, Links(t, e), NEW f, Links(t, f), e.key = f.key
  PROVE  e = f
<1>1. PICK s \in 0 .. t.size - 1 : \E j \in 1 .. Len(t.table[s]) : t.table[s][j] = e
  BY DEF Links
<1>2. PICK j \in 1 .. Len(t.table[s]) : t.table[s][j] = e
  BY <1>1
<1>3. PICK r \in 0 .. t.size - 1 : \E l \in 1 .. Len(t.table[r]) : t.table[r][l] = f
  BY DEF Links
<1>4. PICK l \in 1 .. Len(t.table[r]) : t.table[r][l] = f
  BY <1>3
<1>5. Dict!Slot(t, e.key) = s /\ Dict!Slot(t, f.key) = r
  BY <1>2, <1>4 DEF WellTable
<1>6. r = s
  BY <1>5
<1>7. j = l
  BY <1>2, <1>4, <1>6 DEF Distinct
<1> QED
  BY <1>2, <1>4, <1>6, <1>7

\* A dict of size 0 stores nothing; any other has a first table.
LEMMA SizeIs ==
  ASSUME NEW x, Well(x)
  PROVE  /\ Dict!DictSize(x) = 0 => \A e : ~Stores(x, e)
         /\ Dict!DictSize(x) # 0 => x.ht[0].size # 0
         /\ ~Dict!IsRehashing(x) => \A e : ~Links(x.ht[1], e)
<1>1. /\ WellTable(x.ht[0]) /\ WellTable(x.ht[1]) /\ x.ht[0].used \in Nat /\ x.ht[1].used \in Nat
      /\ x.ht[0].size = 0 => x.ht[0].used = 0
      /\ x.ht[1].size = 0 => x.ht[1].used = 0
  BY LinkedAreCounted DEF Well
<1>2. Dict!DictSize(x) = 0 <=> x.ht[0].used = 0 /\ x.ht[1].used = 0
  BY <1>1 DEF Dict!DictSize
<1>3. x.ht[0].size = 0 => x.ht[1].size = 0
  BY DEF Well
<1>4. Dict!DictSize(x) = 0 => \A e : ~Stores(x, e)
  BY <1>1, <1>2, NothingLinked DEF Stores
<1>5. ~Dict!IsRehashing(x) => \A e : ~Links(x.ht[1], e)
  BY <1>1, NothingLinked DEF Well
<1> QED
  BY <1>1, <1>2, <1>3, <1>4, <1>5

\* dictGet finds what is stored for a key.
LEMMA LookupIs ==
  ASSUME Dict!DictAssumption, OnePointer, NEW x, Well(x), Unique(x), x.ht[0].size # 0, NEW k \in Key
  PROVE  /\ \A e : Stores(x, e) /\ e.key = k => Dict!Lookup(x, k) = e.val
         /\ (\A e : Stores(x, e) => e.key # k) => Dict!Lookup(x, k) = Absent
<1> DEFINE c(i) == Dict!Chain(x.ht[i], k)
           h(i) == Dict!Hit(x, i, k)
<1>1. WellTable(x.ht[0]) /\ WellTable(x.ht[1]) /\ (Dict!IsRehashing(x) => x.ht[1].size # 0)
  BY DEF Well
<1>2. /\ h(0) # 0 => h(0) \in 1 .. Len(c(0)) /\ c(0)[h(0)].key = k /\ Links(x.ht[0], c(0)[h(0)])
      /\ h(0) = 0 => \A e : Links(x.ht[0], e) => e.key # k
  BY <1>1, HitIs, Searched
<1>3. Dict!IsRehashing(x) =>
        /\ h(1) # 0 => h(1) \in 1 .. Len(c(1)) /\ c(1)[h(1)].key = k /\ Links(x.ht[1], c(1)[h(1)])
        /\ h(1) = 0 => \A e : Links(x.ht[1], e) => e.key # k
  BY <1>1, HitIs, Searched
<1>4. ~Dict!IsRehashing(x) => \A e : ~Links(x.ht[1], e)
  BY SizeIs
<1>5. Dict!Lookup(x, k) = IF h(0) # 0 THEN c(0)[h(0)].val
                          ELSE IF Dict!IsRehashing(x) /\ h(1) # 0 THEN c(1)[h(1)].val ELSE Absent
  BY DEF Dict!Lookup
<1> HIDE DEF c, h
<1>6. CASE h(0) # 0
  <2> DEFINE f == c(0)[h(0)]
  <2>1. Links(x.ht[0], f) /\ f.key = k /\ Dict!Lookup(x, k) = f.val
    BY <1>2, <1>5, <1>6
  <2> HIDE DEF f
  <2>2. \A e : Links(x.ht[1], e) => e.key # k
    BY <2>1 DEF Unique
  <2>3. \A e : Links(x.ht[0], e) /\ e.key = k => e = f
    BY <1>1, <2>1, OneEntry DEF Unique
  <2>4. Stores(x, f)
    BY <2>1 DEF Stores
  <2> QED
    BY <2>1, <2>2, <2>3, <2>4 DEF Stores
<1>7. CASE h(0) = 0 /\ Dict!IsRehashing(x) /\ h(1) # 0
  <2> DEFINE f == c(1)[h(1)]
  <2>1. Links(x.ht[1], f) /\ f.key = k /\ Dict!Lookup(x, k) = f.val
    BY <1>3, <1>5, <1>7
  <2> HIDE DEF f
  <2>2. \A e : Links(x.ht[0], e) => e.key # k
    BY <1>2, <1>7
  <2>3. \A e : Links(x.ht[1], e) /\ e.key = k => e = f
    BY <1>1, <2>1, OneEntry DEF Unique
  <2>4. Stores(x, f)
    BY <2>1 DEF Stores
  <2> QED
    BY <2>1, <2>2, <2>3, <2>4 DEF Stores
<1>8. CASE h(0) = 0 /\ ~(Dict!IsRehashing(x) /\ h(1) # 0)
  <2>1. \A e : Stores(x, e) => e.key # k
    BY <1>2, <1>3, <1>4, <1>8 DEF Stores
  <2>2. Dict!Lookup(x, k) = Absent
    BY <1>5, <1>8
  <2> QED
    BY <2>1, <2>2
<1> QED
  BY <1>6, <1>7, <1>8

\* What callers see of a dict, as a function of it.
ContentsOf(x) ==
    [t \in Dict!Texts |->
        IF Dict!DictSize(x) = 0 THEN Absent ELSE Dict!Lookup(x, CHOOSE k \in Key : Text[k] = t)]

LEMMA ContentsAre == Dict!Contents = ContentsOf(dict) /\ Dict!Contents' = ContentsOf(dict')
<1>1. Dict!Contents = ContentsOf(dict)
  BY DEF Dict!Contents, ContentsOf
<1>2. Dict!Contents' = ContentsOf(dict')
  BY DEF Dict!Contents, ContentsOf, Dict!Lookup, Dict!DictSize, Dict!IsRehashing, Dict!Hit,
         Dict!Chain, Dict!Slot, Dict!SelectInSeq
<1> QED
  BY <1>1, <1>2

\* It is the map of what is stored.
LEMMA ContentsMap ==
  ASSUME Dict!DictAssumption, OnePointer, NEW x, Well(x), Unique(x)
  PROVE  Maps(x, ContentsOf(x))
<1> DEFINE m == ContentsOf(x)
<1>1. ASSUME NEW k \in Key
      PROVE  m[Text[k]] = IF Dict!DictSize(x) = 0 THEN Absent ELSE Dict!Lookup(x, k)
  <2>1. (CHOOSE j \in Key : Text[j] = Text[k]) = k
    BY DEF OnePointer
  <2>2. Text[k] \in Dict!Texts
    BY DEF Dict!Texts
  <2> QED
    BY <2>1, <2>2 DEF ContentsOf
<1>2. ASSUME NEW k \in Key
      PROVE  /\ \A e : Stores(x, e) /\ e.key = k => m[Text[k]] = e.val
             /\ (\A e : Stores(x, e) => e.key # k) => m[Text[k]] = Absent
  <2> HIDE DEF m
  <2>1. CASE Dict!DictSize(x) = 0
    BY <1>1, <2>1, SizeIs
  <2>2. CASE Dict!DictSize(x) # 0
    <3>1. x.ht[0].size # 0
      BY <2>2, SizeIs
    <3> QED
      BY <1>1, <2>2, <3>1, LookupIs
  <2> QED
    BY <2>1, <2>2
<1>3. \A e : Stores(x, e) => e.val \in Val
  BY LinkedInChain DEF Stores, Well, Dict!Entry
<1>4. \A t \in Dict!Texts : m[t] \in Val \cup {Absent}
  <2> HIDE DEF m
  <2> SUFFICES ASSUME NEW k \in Key PROVE m[Text[k]] \in Val \cup {Absent}
    BY DEF Dict!Texts
  <2> QED
    BY <1>2, <1>3
<1>5. m = [t \in Dict!Texts |-> m[t]]
  BY DEF ContentsOf
<1>6. m \in [Dict!Texts -> Val \cup {Absent}]
  <2> HIDE DEF m
  <2> QED
    BY <1>4, <1>5
<1> QED
  BY <1>2, <1>6 DEF Maps

\* What stores the same has the same contents.
LEMMA SameContents ==
  ASSUME Dict!DictAssumption, OnePointer, NEW x, Well(x), Unique(x), NEW y, Well(y), Unique(y),
         \A e : Stores(y, e) <=> Stores(x, e)
  PROVE  ContentsOf(y) = ContentsOf(x)
<1>1. Maps(x, ContentsOf(x)) /\ Maps(y, ContentsOf(y))
  BY ContentsMap
<1>2. Maps(x, ContentsOf(y))
  BY <1>1 DEF Maps
<1> QED
  BY <1>1, <1>2, MapsOnce

\* y stores what x does, each key once.
SameStore(x, y) == Unique(y) /\ \A e : Stores(y, e) <=> Stores(x, e)

\* A dict whose tables are those of x, in either order, or empty where those are.
Alike(t, u) ==
    \/ t = u
    \/ (\A e : ~Links(t, e) /\ ~Links(u, e)) /\ Distinct(t)

LEMMA SameTables ==
  ASSUME NEW x, Unique(x), NEW y,
         \/ Alike(y.ht[0], x.ht[0]) /\ Alike(y.ht[1], x.ht[1])
         \/ Alike(y.ht[0], x.ht[1]) /\ Alike(y.ht[1], x.ht[0])
  PROVE  SameStore(x, y)
<1>1. ASSUME NEW s, NEW t, (s = x.ht[0] /\ t = x.ht[1]) \/ (s = x.ht[1] /\ t = x.ht[0]),
             Alike(y.ht[0], s), Alike(y.ht[1], t)
      PROVE  SameStore(x, y)
  <2>1. \A e : (Links(y.ht[0], e) <=> Links(s, e)) /\ (Links(y.ht[1], e) <=> Links(t, e))
    BY <1>1 DEF Alike
  <2>2. \A e : Stores(y, e) <=> Stores(x, e)
    BY <1>1, <2>1 DEF Stores
  <2>3. Distinct(s) /\ Distinct(t)
    BY <1>1 DEF Unique
  <2>4. Distinct(y.ht[0]) /\ Distinct(y.ht[1])
    BY <1>1, <2>3 DEF Alike
  <2>5. \A e, f : Links(y.ht[0], e) /\ Links(y.ht[1], f) => e.key # f.key
    BY <1>1, <2>1 DEF Unique
  <2> QED
    BY <2>2, <2>4, <2>5 DEF SameStore, Unique
<1> QED
  BY <1>1

\* A new table links nothing.
LEMMA NewTables ==
  ASSUME NEW t, t = Dict!NoTable \/ \E n \in Nat : t = Dict!Table(n)
  PROVE  WellTable(t) /\ (\A e : ~Links(t, e)) /\ Distinct(t)
<1>1. WellTable(t) /\ t.used = 0
  BY EmptyTables DEF Dict!NoTable, Dict!Table
<1>2. \A e : ~Links(t, e)
  BY <1>1, NothingLinked
<1>3. Distinct(t)
  BY <1>2 DEF Distinct, Links
<1> QED
  BY <1>1, <1>2, <1>3

\* A rehash step stores nothing and loses nothing.
LEMMA StepStores ==
  ASSUME NEW x, Well(x), Unique(x)
  PROVE  SameStore(x, Dict!RehashStep(x))
<1> DEFINE r == Dict!RehashStep(x)
<1>1. CASE ~(Dict!IsRehashing(x) /\ x.ht[0].used = 0)
  <2>1. r = x
    BY <1>1, StepIs DEF Dict!Finish
  <2>2. SameStore(x, x)
    BY DEF SameStore
  <2> QED
    BY <2>1, <2>2
<1>2. CASE Dict!IsRehashing(x) /\ x.ht[0].used = 0
  <2> DEFINE y == [ht |-> [i \in {0, 1} |-> IF i = 0 THEN x.ht[1] ELSE Dict!NoTable], rehashidx |-> -1]
  <2>1. r = y
    BY <1>2, StepIs DEF Dict!Finish
  <2>2. y.ht[0] = x.ht[1] /\ y.ht[1] = Dict!NoTable
    OBVIOUS
  <2> HIDE DEF y, r
  <2>3. WellTable(x.ht[0])
    BY DEF Well
  <2>4. \A e : ~Links(x.ht[0], e)
    BY <1>2, <2>3, NothingLinked
  <2>5. (\A e : ~Links(y.ht[1], e)) /\ Distinct(y.ht[1])
    BY <2>2, NewTables
  <2>6. Alike(y.ht[0], x.ht[1]) /\ Alike(y.ht[1], x.ht[0])
    BY <2>2, <2>4, <2>5 DEF Alike
  <2>7. SameStore(x, y)
    BY <2>6, SameTables
  <2> QED
    BY <2>1, <2>7 DEF r
<1> QED
  BY <1>1, <1>2

\* dictExpand neither; a table that is full it enlarges.
LEMMA ExpandStores ==
  ASSUME Dict!DictAssumption, NEW x, Well(x), Unique(x), NEW n \in Nat
  PROVE  /\ SameStore(x, Dict!Expand(x, n).dict)
         /\ n > x.ht[0].size => Dict!Expand(x, n).ok = TRUE
<1> DEFINE real == Dict!NextPower(n)
           e == Dict!Expand(x, n)
           new == Dict!Table(real)
<1>1. real \in Nat /\ real >= n /\ (\A f : ~Links(new, f)) /\ Distinct(new)
  BY PowerFound, NewTables
<1>2. /\ x = [ht |-> x.ht, rehashidx |-> x.rehashidx] /\ x.ht = [k \in {0, 1} |-> x.ht[k]]
      /\ WellTable(x.ht[0]) /\ WellTable(x.ht[1]) /\ x.ht[0].size \in Nat
      /\ (~Dict!IsRehashing(x) => x.ht[1].size = 0)
  BY DEF Well, WellTable
<1>3. n > x.ht[0].size => real # x.ht[0].size
  BY <1>1, <1>2
<1> HIDE DEF real, new
<1>4. n > x.ht[0].size => e.ok = TRUE
  BY <1>3 DEF Dict!Expand, real
<1>5. e.dict = x \/ e.dict = [x EXCEPT !.ht[0] = new] \/ e.dict = [x EXCEPT !.ht[1] = new, !.rehashidx = 0]
  BY DEF Dict!Expand, real, new
<1>6. CASE e.dict = x
  BY <1>4, <1>6 DEF SameStore
<1>7. CASE /\ ~Dict!IsRehashing(x) /\ x.ht[0].size = 0
           /\ e.dict = [x EXCEPT !.ht[0] = new]
  <2> HIDE DEF e
  <2>1. e.dict.ht[0] = new /\ e.dict.ht[1] = x.ht[1]
    BY <1>2, <1>7
  <2>2. \A f : ~Links(x.ht[0], f)
    BY <1>2, <1>7, NothingLinked
  <2>3. Alike(e.dict.ht[0], x.ht[0]) /\ Alike(e.dict.ht[1], x.ht[1])
    BY <1>1, <2>1, <2>2 DEF Alike
  <2>4. SameStore(x, e.dict)
    BY <2>3, SameTables
  <2> QED
    BY <1>4, <2>4 DEF e
<1>8. CASE /\ ~Dict!IsRehashing(x) /\ x.ht[0].size # 0
           /\ e.dict = [x EXCEPT !.ht[1] = new, !.rehashidx = 0]
  <2> HIDE DEF e
  <2>1. e.dict.ht[0] = x.ht[0] /\ e.dict.ht[1] = new
    BY <1>2, <1>8
  <2>2. \A f : ~Links(x.ht[1], f)
    BY <1>2, <1>8, NothingLinked
  <2>3. Alike(e.dict.ht[0], x.ht[0]) /\ Alike(e.dict.ht[1], x.ht[1])
    BY <1>1, <2>1, <2>2 DEF Alike
  <2>4. SameStore(x, e.dict)
    BY <2>3, SameTables
  <2> QED
    BY <1>4, <2>4 DEF e
<1> QED
  BY <1>6, <1>7, <1>8 DEF Dict!Expand, real, new

\* _dictKeyIndex finds what is stored.
LEMMA FoundIs ==
  ASSUME Dict!DictAssumption, OnePointer, NEW x, Well(x), x.ht[LastTable(x)].size # 0, NEW k \in Key
  PROVE  Dict!Found(x, k) <=> \E e : Stores(x, e) /\ e.key = k
<1>1. \A i \in {0, 1} : WellTable(x.ht[i])
  BY DEF Well
<1>2. \A i \in Dict!Visited(x) : i \in {0, 1} /\ x.ht[i].size # 0
  BY DEF Dict!Visited, LastTable, Well
<1>3. \A i \in {0, 1} : i \notin Dict!Visited(x) => \A e : ~Links(x.ht[i], e)
  BY SizeIs DEF Dict!Visited
<1>4. ASSUME Dict!Found(x, k) PROVE \E e : Stores(x, e) /\ e.key = k
  <2>1. PICK i \in Dict!Visited(x) : \E e \in Dict!ToSet(Dict!Chain(x.ht[i], k)) : Text[e.key] = Text[k]
    BY <1>4 DEF Dict!Found
  <2>2. PICK e \in Dict!ToSet(Dict!Chain(x.ht[i], k)) : Text[e.key] = Text[k]
    BY <2>1
  <2>3. PICK j \in DOMAIN Dict!Chain(x.ht[i], k) : e = Dict!Chain(x.ht[i], k)[j]
    BY <2>2 DEF Dict!ToSet
  <2>4. WellTable(x.ht[i]) /\ x.ht[i].size # 0
    BY <1>1, <1>2
  <2>5. /\ Dict!Chain(x.ht[i], k) \in Seq(Dict!Entry)
        /\ \A l \in 1 .. Len(Dict!Chain(x.ht[i], k)) :
             Links(x.ht[i], Dict!Chain(x.ht[i], k)[l]) /\ Dict!Chain(x.ht[i], k)[l] \in Dict!Entry
    BY <2>4, ChainIsLinked
  <2>6. Links(x.ht[i], e) /\ e \in Dict!Entry
    BY <2>3, <2>5
  <2>7. e.key = k
    BY <2>2, <2>6 DEF OnePointer, Dict!Entry
  <2> QED
    BY <1>2, <2>6, <2>7 DEF Stores
<1>5. ASSUME NEW e, Stores(x, e), e.key = k PROVE Dict!Found(x, k)
  <2>1. PICK i \in {0, 1} : Links(x.ht[i], e)
    BY <1>5 DEF Stores
  <2>2. i \in Dict!Visited(x) /\ WellTable(x.ht[i])
    BY <1>1, <1>3, <2>1
  <2>3. /\ Dict!Chain(x.ht[i], e.key) \in Seq(Dict!Entry)
        /\ \E j \in 1 .. Len(Dict!Chain(x.ht[i], e.key)) : Dict!Chain(x.ht[i], e.key)[j] = e
    BY <2>1, <2>2, LinkedInChain
  <2>4. e \in Dict!ToSet(Dict!Chain(x.ht[i], k))
    BY <1>5, <2>3 DEF Dict!ToSet
  <2> QED
    BY <1>5, <2>2, <2>4 DEF Dict!Found
<1> QED
  BY <1>4, <1>5

\* _dictKeyIndex stores nothing, and says whether the key is stored.
LEMMA IndexStores ==
  ASSUME Dict!DictAssumption, OnePointer, NEW x, Well(x), Unique(x), NEW k \in Key
  PROVE  LET r == Dict!KeyIndex(x, k) IN
           /\ SameStore(x, r.dict)
           /\ r.idx = -1 <=> \E e : Stores(x, e) /\ e.key = k
<1> DEFINE e == Dict!ExpandIfNeeded(x)
           r == Dict!KeyIndex(x, k)
<1>1. SameStore(x, e.dict) /\ Well(e.dict) /\ e.ok = TRUE /\ e.dict.ht[LastTable(e.dict)].size # 0
  <2>1. x.ht[0].used \in Nat /\ x.ht[0].size \in Nat
    BY LinkedAreCounted DEF Well, WellTable
  <2>2. InitialSize \in Nat /\ x.ht[0].used * 2 \in Nat
    BY <2>1 DEF Dict!DictAssumption
  <2>4. CASE ~Dict!IsRehashing(x) /\ x.ht[0].size = 0
    <3>1. e = Dict!Expand(x, InitialSize)
      BY <2>4 DEF Dict!ExpandIfNeeded
    <3> HIDE DEF e
    <3>2. e.ok = TRUE /\ Well(e.dict) /\ e.dict.ht[LastTable(e.dict)].size # 0
      BY <2>2, <2>4, <3>1, ExpandWell
    <3>3. SameStore(x, e.dict)
      BY <2>2, <3>1, ExpandStores
    <3> QED
      BY <3>2, <3>3
  <2>5. CASE ~Dict!IsRehashing(x) /\ x.ht[0].size # 0 /\ x.ht[0].used >= x.ht[0].size
    <3>1. e = Dict!Expand(x, x.ht[0].used * 2)
      BY <2>5 DEF Dict!ExpandIfNeeded
    <3> HIDE DEF e
    <3>2. x.ht[0].used * 2 > x.ht[0].size
      BY <2>1, <2>5
    <3>3. SameStore(x, e.dict) /\ e.ok = TRUE
      BY <2>2, <3>1, <3>2, ExpandStores
    <3>4. Well(e.dict) /\ e.dict.ht[LastTable(e.dict)].size # 0
      BY <2>2, <2>5, <3>1, <3>3, ExpandWell
    <3> QED
      BY <3>3, <3>4
  <2>6. CASE Dict!IsRehashing(x) \/ (x.ht[0].size # 0 /\ ~(x.ht[0].used >= x.ht[0].size))
    <3>1. e = [dict |-> x, ok |-> TRUE]
      BY <2>6 DEF Dict!ExpandIfNeeded
    <3>2. x.ht[LastTable(x)].size # 0
      BY <2>6 DEF LastTable, Well
    <3>3. e.dict = x /\ e.ok = TRUE
      BY <3>1
    <3> HIDE DEF e
    <3> QED
      BY <3>2, <3>3 DEF SameStore
  <2> HIDE DEF e
  <2> QED
    BY <2>4, <2>5, <2>6
<1> DEFINE y == e.dict
           idx == Dict!Slot(y.ht[LastTable(y)], k)
<1>2. r.dict = y /\ r.idx = IF Dict!Found(y, k) THEN -1 ELSE idx
  <2> HIDE DEF e
  <2>1. r = Dict!IndexAfter(e, k)
    BY DEF Dict!KeyIndex, e
  <2> QED
    BY <1>1, <2>1 DEF Dict!IndexAfter, LastTable
<1> HIDE DEF r, e
<1>3. idx # -1
  <2>1. WellTable(y.ht[LastTable(y)])
    BY <1>1 DEF Well, LastTable
  <2>2. y.ht[LastTable(y)].size \in Nat
    BY <2>1 DEF WellTable
  <2>3. idx \in 0 .. y.ht[LastTable(y)].size - 1
    BY <1>1, <2>1, HashSlot
  <2> QED
    BY <2>2, <2>3
<1>4. Dict!Found(y, k) <=> \E f : Stores(y, f) /\ f.key = k
  BY <1>1, FoundIs
<1> HIDE DEF idx
<1>5. r.idx = -1 <=> \E f : Stores(x, f) /\ f.key = k
  BY <1>1, <1>2, <1>3, <1>4 DEF SameStore
<1> QED
  BY <1>1, <1>2, <1>5 DEF r

\* The entry f is in chain c; it is linked from another slot of t than s.
InChain(c, f) == \E j \in 1 .. Len(c) : c[j] = f
Elsewhere(t, s, f) == \E r \in 0 .. t.size - 1 : r # s /\ InChain(t.table[r], f)

\* What a table links after one of its chains is replaced.
LEMMA ChainLinks ==
  ASSUME NEW t, WellTable(t), NEW s \in 0 .. t.size - 1, NEW c, NEW n
  PROVE  /\ \A f : Links(WithChain(t, s, c, n), f) <=> InChain(c, f) \/ Elsewhere(t, s, f)
         /\ \A f : Links(t, f) <=> InChain(t.table[s], f) \/ Elsewhere(t, s, f)
         /\ Distinct(t) /\ (\A j, l \in 1 .. Len(c) : c[j].key = c[l].key => j = l)
              => Distinct(WithChain(t, s, c, n))
<1> DEFINE u == WithChain(t, s, c, n)
<1>1. t.table \in [0 .. t.size - 1 -> Seq(Dict!Entry)]
  BY DEF WellTable
<1>2. /\ u.size = t.size /\ u.table[s] = c
      /\ \A r \in 0 .. t.size - 1 : r # s => u.table[r] = t.table[r]
  BY <1>1 DEF WithChain
<1> HIDE DEF u
<1>3. \A f : Links(u, f) <=> \E r \in 0 .. t.size - 1 : InChain(u.table[r], f)
  BY <1>2 DEF Links, InChain
<1>4. \A f : Links(t, f) <=> \E r \in 0 .. t.size - 1 : InChain(t.table[r], f)
  BY DEF Links, InChain
<1>5. \A f : Links(u, f) <=> InChain(c, f) \/ Elsewhere(t, s, f)
  BY <1>2, <1>3 DEF Elsewhere
<1>6. \A f : Links(t, f) <=> InChain(t.table[s], f) \/ Elsewhere(t, s, f)
  BY <1>4 DEF Elsewhere
<1>7. ASSUME Distinct(t), \A j, l \in 1 .. Len(c) : c[j].key = c[l].key => j = l PROVE Distinct(u)
  BY <1>2, <1>7 DEF Distinct
<1> QED
  BY <1>5, <1>6, <1>7 DEF u

\* What a dict stores then.
LEMMA ChainStores ==
  ASSUME NEW x, Well(x), Unique(x), NEW i \in {0, 1}, NEW s \in 0 .. x.ht[i].size - 1, NEW c, NEW n,
         \A j, l \in 1 .. Len(c) : c[j].key = c[l].key => j = l,
         \A f, g : InChain(c, f) /\ Links(x.ht[1 - i], g) => f.key # g.key
  PROVE  /\ Unique(Changed(x, i, s, c, n))
         /\ \A f : Stores(Changed(x, i, s, c, n), f)
                     <=> InChain(c, f) \/ Elsewhere(x.ht[i], s, f) \/ Links(x.ht[1 - i], f)
<1> DEFINE t == WithChain(x.ht[i], s, c, n)
           y == Changed(x, i, s, c, n)
           o == 1 - i
<1>1. /\ y = [ht |-> y.ht, rehashidx |-> y.rehashidx] /\ y.rehashidx = x.rehashidx
      /\ y.ht = [k \in {0, 1} |-> y.ht[k]]
      /\ \A k \in {0, 1} : y.ht[k] = IF k = i THEN t ELSE x.ht[k]
  BY TableIs
<1>2. o \in {0, 1} /\ o # i /\ \A k \in {0, 1} : k = i \/ k = o
  OBVIOUS
<1> HIDE DEF o
<1>3. y.ht[i] = t /\ y.ht[o] = x.ht[o]
  BY <1>1, <1>2
<1>4. WellTable(x.ht[i]) /\ Distinct(x.ht[i]) /\ Distinct(x.ht[o])
  BY <1>2 DEF Well, Unique
<1>5. /\ \A f : Links(t, f) <=> InChain(c, f) \/ Elsewhere(x.ht[i], s, f)
      /\ \A f : Links(x.ht[i], f) <=> InChain(x.ht[i].table[s], f) \/ Elsewhere(x.ht[i], s, f)
      /\ Distinct(t)
  BY <1>4, ChainLinks
<1> HIDE DEF t, y
<1>6. \A k \in {0, 1} : Distinct(y.ht[k])
  BY <1>2, <1>3, <1>4, <1>5
<1>7. \A f, g : Links(x.ht[i], f) /\ Links(x.ht[o], g) => f.key # g.key
  BY <1>2 DEF Unique
<1>8. \A f, g : Links(y.ht[i], f) /\ Links(y.ht[o], g) => f.key # g.key
  BY <1>3, <1>5, <1>7 DEF o
<1>9. \A f, g : Links(y.ht[0], f) /\ Links(y.ht[1], g) => f.key # g.key
  BY <1>2, <1>8
<1>10. \A f : Stores(y, f) <=> Links(y.ht[i], f) \/ Links(y.ht[o], f)
  BY <1>2 DEF Stores
<1>11. \A f : Stores(y, f) <=> InChain(c, f) \/ Elsewhere(x.ht[i], s, f) \/ Links(x.ht[o], f)
  BY <1>3, <1>5, <1>10
<1>12. Unique(y)
  BY <1>6, <1>9 DEF Unique
<1> QED
  BY <1>11, <1>12 DEF y, o

\* What x stores, by the chain of one slot.
LEMMA StoresByChain ==
  ASSUME NEW x, Well(x), NEW i \in {0, 1}, NEW s \in 0 .. x.ht[i].size - 1
  PROVE  \A f : Stores(x, f) <=> InChain(x.ht[i].table[s], f) \/ Elsewhere(x.ht[i], s, f) \/ Links(x.ht[1 - i], f)
<1>1. WellTable(x.ht[i])
  BY DEF Well
<1>2. \A f : Links(x.ht[i], f) <=> InChain(x.ht[i].table[s], f) \/ Elsewhere(x.ht[i], s, f)
  BY <1>1, ChainLinks
<1>3. \A f : Stores(x, f) <=> Links(x.ht[i], f) \/ Links(x.ht[1 - i], f)
  <2>1. (i = 0 /\ 1 - i = 1) \/ (i = 1 /\ 1 - i = 0)
    OBVIOUS
  <2>2. \A f : Stores(x, f) <=> Links(x.ht[0], f) \/ Links(x.ht[1], f)
    BY DEF Stores
  <2> QED
    BY <2>1, <2>2
<1> QED
  BY <1>2, <1>3

\* dictAdd stores one entry more.
LEMMA AddStores ==
  ASSUME Dict!DictAssumption, NEW x, Well(x), Unique(x), NEW k \in Key, NEW v \in Val,
         x.ht[LastTable(x)].size # 0, \A e : Stores(x, e) => e.key # k
  PROVE  LET y == [x EXCEPT !.ht[LastTable(x)].table[Dict!Slot(x.ht[LastTable(x)], k)] = <<[key |-> k, val |-> v]>> \o @,
                            !.ht[LastTable(x)].used = @ + 1]
         IN  Unique(y) /\ \A f : Stores(y, f) <=> Stores(x, f) \/ f = [key |-> k, val |-> v]
<1> DEFINE i == LastTable(x)
           t == x.ht[i]
           s == Dict!Slot(t, k)
           e == [key |-> k, val |-> v]
           c == <<e>> \o t.table[s]
<1>1. i \in {0, 1}
  BY DEF LastTable
<1> HIDE DEF i
<1>2. WellTable(t) /\ t.size # 0 /\ Distinct(t)
  BY <1>1 DEF Well, Unique, i
<1>3. s \in 0 .. t.size - 1
  BY <1>2, HashSlot
<1>4. t.table[s] \in Seq(Dict!Entry) /\ e \in Dict!Entry /\ e.key = k
  BY <1>2, <1>3 DEF WellTable, Dict!Entry
<1> HIDE DEF e
<1>5. Len(c) = Len(t.table[s]) + 1 /\ Len(t.table[s]) \in Nat
      /\ \A j \in 1 .. Len(c) : c[j] = IF j = 1 THEN e ELSE t.table[s][j - 1]
  <2> HIDE DEF s, t
  <2>1. <<e>> \in Seq(Dict!Entry) /\ Len(<<e>>) = 1 /\ <<e>>[1] = e
    BY <1>4
  <2> QED
    BY <1>4, <2>1, ConcatProperties
<1> HIDE DEF c
<1>6. \A f : Stores(x, f) <=> InChain(t.table[s], f) \/ Elsewhere(t, s, f) \/ Links(x.ht[1 - i], f)
  BY <1>1, <1>3, StoresByChain
<1>7. \A f : InChain(c, f) <=> f = e \/ InChain(t.table[s], f)
  <2> DEFINE d == t.table[s]
  <2>1. \A j \in 1 .. Len(d) : j + 1 \in 1 .. Len(c) /\ c[j + 1] = d[j]
    BY <1>5
  <2>2. \A j \in 1 .. Len(c) : j = 1 \/ (j - 1 \in 1 .. Len(d) /\ c[j] = d[j - 1])
    BY <1>5
  <2>3. 1 \in 1 .. Len(c) /\ c[1] = e
    BY <1>5
  <2> HIDE DEF d
  <2>4. \A f : InChain(c, f) <=> f = e \/ InChain(d, f)
    BY ONLY <2>1, <2>2, <2>3 DEF InChain
  <2> QED
    BY <2>4 DEF d
<1>8. \A f, g : InChain(c, f) /\ Links(x.ht[1 - i], g) => f.key # g.key
  <2> TAKE f, g
  <2> HAVE InChain(c, f) /\ Links(x.ht[1 - i], g)
  <2>1. Stores(x, g)
    BY <1>6
  <2>2. CASE f = e
    BY <1>4, <2>1, <2>2
  <2>3. CASE InChain(t.table[s], f)
    <3>1. Links(t, f)
      BY <1>3, <2>3 DEF Links, InChain
    <3> QED
      BY <1>1, <3>1 DEF Unique
  <2> QED
    BY <1>7, <2>2, <2>3
<1>9. \A j, l \in 1 .. Len(c) : c[j].key = c[l].key => j = l
  <2> DEFINE d == t.table[s]
  <2>1. \A j, l \in 1 .. Len(d) : d[j].key = d[l].key => j = l
    BY <1>2, <1>3 DEF Distinct
  <2>2. \A j \in 1 .. Len(d) : d[j].key # k
    <3>1. \A j \in 1 .. Len(d) : InChain(d, d[j])
      BY DEF InChain
    <3> HIDE DEF d
    <3> QED
      BY <1>6, <3>1 DEF d
  <2>3. Len(c) = Len(d) + 1 /\ Len(d) \in Nat /\ \A j \in 1 .. Len(c) : c[j] = IF j = 1 THEN e ELSE d[j - 1]
    BY <1>5
  <2> HIDE DEF d
  <2>4. \A j \in 1 .. Len(c) : j # 1 => j - 1 \in 1 .. Len(d)
    BY <2>3
  <2> TAKE j, l \in 1 .. Len(c)
  <2> HAVE c[j].key = c[l].key
  <2>5. CASE j = 1 \/ l = 1
    BY <1>4, <2>2, <2>3, <2>4, <2>5
  <2>6. CASE j # 1 /\ l # 1
    <3>1. j - 1 = l - 1
      BY <2>1, <2>3, <2>4, <2>6
    <3> QED
      BY <3>1
  <2> QED
    BY <2>5, <2>6
<1> HIDE DEF s
<1>10. /\ Unique(Changed(x, i, s, c, t.used + 1))
       /\ \A f : Stores(Changed(x, i, s, c, t.used + 1), f)
                   <=> InChain(c, f) \/ Elsewhere(t, s, f) \/ Links(x.ht[1 - i], f)
  BY <1>1, <1>3, <1>8, <1>9, ChainStores
<1>11. \A f : Stores(Changed(x, i, s, c, t.used + 1), f) <=> Stores(x, f) \/ f = e
  BY <1>6, <1>7, <1>10
<1> QED
  BY <1>10, <1>11 DEF Changed, c, s, i, e

\* dictDel takes away what is stored for its key.
LEMMA UnlinkStores ==
  ASSUME Dict!DictAssumption, NEW x, Well(x), Unique(x), NEW k \in Key, NEW i \in {0, 1},
         x.ht[i].size # 0, Dict!Position(x, i, k) # 0
  PROVE  /\ Unique(Dict!Unlink(x, i, k))
         /\ \A f : Stores(Dict!Unlink(x, i, k), f) <=> Stores(x, f) /\ f.key # k
         /\ \E f : Stores(x, f) /\ f.key = k
<1> DEFINE t == x.ht[i]
           s == Dict!Slot(t, k)
           p == Dict!Position(x, i, k)
           c == t.table[s]
           d == Dict!RemoveAt(c, p)
<1>1. WellTable(t) /\ Distinct(t) /\ t.size # 0
  BY DEF Well, Unique
<1>2. s \in 0 .. t.size - 1
  BY <1>1, HashSlot
<1>3. c \in Seq(Dict!Entry) /\ c = Dict!Chain(t, k)
  BY <1>1, <1>2 DEF WellTable, Dict!Chain
<1>4. p \in 1 .. Len(c) /\ c[p].key = k /\ Links(t, c[p])
  <2>1. p = First(Where(Dict!Chain(t, k), k)) /\ p # 0
    BY PositionFinds
  <2>2. /\ p \in 1 .. Len(Dict!Chain(t, k)) /\ Dict!Chain(t, k)[p].key = k
        /\ Links(t, Dict!Chain(t, k)[p])
    <3> HIDE DEF p
    <3> QED
      BY <1>1, <2>1, Searched
  <2> QED
    BY <1>3, <2>2
<1> HIDE DEF p
<1>5. \A f : Stores(x, f) <=> InChain(c, f) \/ Elsewhere(t, s, f) \/ Links(x.ht[1 - i], f)
  BY <1>2, StoresByChain
<1>6. \A j, l \in 1 .. Len(c) : c[j].key = c[l].key => j = l
  BY <1>1, <1>2 DEF Distinct
<1>7. \A f : Elsewhere(t, s, f) => f.key # k
  <2> TAKE f
  <2> HAVE Elsewhere(t, s, f)
  <2>1. PICK r \in 0 .. t.size - 1 : r # s /\ InChain(t.table[r], f)
    BY DEF Elsewhere
  <2>2. Dict!Slot(t, f.key) = r
    BY <1>1, <2>1 DEF InChain, WellTable
  <2> QED
    BY <2>1, <2>2
<1>8. \A f : Links(x.ht[1 - i], f) => f.key # k
  <2>1. i = 0 \/ i = 1
    OBVIOUS
  <2>2. \A e, f : Links(x.ht[0], e) /\ Links(x.ht[1], f) => e.key # f.key
    BY DEF Unique
  <2>3. CASE i = 0
    <3>1. 1 - i = 1
      BY <2>3
    <3> QED
      BY <1>4, <2>2, <2>3, <3>1
  <2>4. CASE i = 1
    <3>1. 1 - i = 0
      BY <2>4
    <3> QED
      BY <1>4, <2>2, <2>4, <3>1
  <2> QED
    BY <2>1, <2>3, <2>4
<1> HIDE DEF c, s, t
<1>9. /\ d \in Seq(Dict!Entry) /\ Len(d) = Len(c) - 1 /\ Len(c) \in Nat
      /\ \A j \in 1 .. Len(c) - 1 : d[j] = c[IF j < p THEN j ELSE j + 1]
  <2>1. /\ d \in Seq(Dict!Entry) /\ Len(d) = Len(c) - 1
        /\ \A j \in 1 .. Len(c) - 1 : d[j] = c[IF j < p THEN j ELSE j + 1]
    BY <1>3, <1>4, Removed
  <2>2. Len(c) \in Nat
    BY <1>3
  <2> HIDE DEF d
  <2> QED
    BY <2>1, <2>2
<1> HIDE DEF d
<1>10. \A j \in 1 .. Len(d) : \E l \in 1 .. Len(c) : l # p /\ d[j] = c[l] /\ l = IF j < p THEN j ELSE j + 1
  <2> TAKE j \in 1 .. Len(d)
  <2>1. (IF j < p THEN j ELSE j + 1) \in 1 .. Len(c) /\ (IF j < p THEN j ELSE j + 1) # p
    BY ONLY <1>4, <1>9, j \in 1 .. Len(d)
  <2>2. d[j] = c[IF j < p THEN j ELSE j + 1]
    BY <1>9
  <2> QED
    BY ONLY <2>1, <2>2
<1>11. \A l \in 1 .. Len(c) : l # p => \E j \in 1 .. Len(d) : d[j] = c[l]
  <2> TAKE l \in 1 .. Len(c)
  <2> HAVE l # p
  <2> DEFINE j == IF l < p THEN l ELSE l - 1
  <2>1. j \in 1 .. Len(c) - 1 /\ l = (IF j < p THEN j ELSE j + 1)
    BY ONLY <1>4, <1>9, l \in 1 .. Len(c), l # p
  <2> HIDE DEF j
  <2>2. d[j] = c[l] /\ j \in 1 .. Len(d)
    BY ONLY <1>9, <2>1
  <2> QED
    BY <2>2
<1>12. \A f : InChain(d, f) <=> InChain(c, f) /\ f.key # k
  <2>1. ASSUME NEW f, InChain(d, f) PROVE InChain(c, f) /\ f.key # k
    <3>1. PICK j \in 1 .. Len(d) : d[j] = f
      BY <2>1 DEF InChain
    <3>2. PICK l \in 1 .. Len(c) : l # p /\ d[j] = c[l]
      BY <1>10
    <3>3. c[l].key # c[p].key
      BY <1>4, <1>6, <3>2
    <3> QED
      BY <1>4, <3>1, <3>2, <3>3 DEF InChain
  <2>2. ASSUME NEW f, InChain(c, f), f.key # k PROVE InChain(d, f)
    <3>1. PICK l \in 1 .. Len(c) : c[l] = f
      BY <2>2 DEF InChain
    <3>2. l # p
      BY <1>4, <2>2, <3>1
    <3> QED
      BY <1>11, <3>1, <3>2 DEF InChain
  <2> QED
    BY <2>1, <2>2
<1>13. \A j, l \in 1 .. Len(d) : d[j].key = d[l].key => j = l
  <2> TAKE j, l \in 1 .. Len(d)
  <2> HAVE d[j].key = d[l].key
  <2>1. PICK a \in 1 .. Len(c) : d[j] = c[a] /\ a = IF j < p THEN j ELSE j + 1
    BY <1>10
  <2>2. PICK b \in 1 .. Len(c) : d[l] = c[b] /\ b = IF l < p THEN l ELSE l + 1
    BY <1>10
  <2>3. a = b
    BY <1>6, <2>1, <2>2
  <2> QED
    BY ONLY <1>4, <1>9, <2>1, <2>2, <2>3, j \in 1 .. Len(d), l \in 1 .. Len(d)
<1>14. \A f, g : InChain(d, f) /\ Links(x.ht[1 - i], g) => f.key # g.key
  <2>1. \A f : InChain(d, f) => Links(t, f)
    BY <1>2, <1>12 DEF Links, InChain, c
  <2>2. \A f, g : Links(x.ht[i], f) /\ Links(x.ht[1 - i], g) => f.key # g.key
    <3>1. (i = 0 /\ 1 - i = 1) \/ (i = 1 /\ 1 - i = 0)
      OBVIOUS
    <3>2. \A f, g : Links(x.ht[0], f) /\ Links(x.ht[1], g) => f.key # g.key
      BY DEF Unique
    <3> QED
      BY <3>1, <3>2
  <2> QED
    BY <2>1, <2>2 DEF t
<1> DEFINE y == Changed(x, i, s, d, t.used - 1)
<1>15. /\ Unique(y)
       /\ \A f : Stores(y, f) <=> InChain(d, f) \/ Elsewhere(x.ht[i], s, f) \/ Links(x.ht[1 - i], f)
  <2>1. s \in 0 .. x.ht[i].size - 1
    BY <1>2 DEF t
  <2> QED
    BY <1>13, <1>14, <2>1, ChainStores
<1>16. Dict!Unlink(x, i, k) = y
  <2>1. Dict!Unlink(x, i, k) = Changed(x, i, s, Dict!RemoveAt(x.ht[i].table[s], p), x.ht[i].used - 1)
    BY DEF Changed, Dict!Unlink, s, p, t
  <2> QED
    BY <2>1 DEF d, c, t
<1> HIDE DEF y
<1>17. \A f : Stores(y, f) <=> Stores(x, f) /\ f.key # k
  BY <1>5, <1>7, <1>8, <1>12, <1>15 DEF t
<1>18. InChain(c, c[p])
  BY <1>4 DEF InChain
<1>19. \E f : Stores(x, f) /\ f.key = k
  BY <1>4, <1>5, <1>18
<1> QED
  BY <1>15, <1>16, <1>17, <1>19

\* The answer to a lookup is in the map.
LEMMA LookupMaps ==
  ASSUME Dict!DictAssumption, OnePointer, NEW x, Well(x), Unique(x), x.ht[0].size # 0, NEW k \in Key,
         NEW m, Maps(x, m)
  PROVE  Dict!Lookup(x, k) = m[Text[k]]
<1>1. /\ \A e : Stores(x, e) /\ e.key = k => Dict!Lookup(x, k) = e.val /\ m[Text[k]] = e.val
      /\ (\A e : Stores(x, e) => e.key # k) => Dict!Lookup(x, k) = Absent /\ m[Text[k]] = Absent
  BY LookupIs DEF Maps
<1> QED
  BY <1>1

\* A key is in the map when something is stored for it.
LEMMA InMap ==
  ASSUME Dict!DictAssumption, NEW x, Well(x), NEW m, Maps(x, m), NEW k \in Key
  PROVE  m[Text[k]] # Absent <=> \E e : Stores(x, e) /\ e.key = k
<1>1. ASSUME NEW e, Stores(x, e), e.key = k PROVE m[Text[k]] # Absent
  <2>1. e.val \in Val
    BY <1>1, LinkedInChain DEF Stores, Well, Dict!Entry
  <2>2. m[Text[k]] = e.val
    BY <1>1 DEF Maps
  <2> QED
    BY <2>1, <2>2 DEF Dict!DictAssumption
<1> QED
  BY <1>1 DEF Maps

\* The map with one more entry, and with one less.
LEMMA MapsAdd ==
  ASSUME OnePointer, NEW x, NEW m, Maps(x, m), NEW k \in Key, NEW v \in Val, NEW y,
         \A e : Stores(x, e) => e.key # k,
         \A f : Stores(y, f) <=> Stores(x, f) \/ f = [key |-> k, val |-> v]
  PROVE  Maps(y, [m EXCEPT ![Text[k]] = v])
<1> DEFINE n == [m EXCEPT ![Text[k]] = v]
<1>1. Text[k] \in Dict!Texts /\ m \in [Dict!Texts -> Val \cup {Absent}]
  BY DEF Dict!Texts, Maps
<1>2. n \in [Dict!Texts -> Val \cup {Absent}] /\ n[Text[k]] = v
      /\ \A t \in Dict!Texts : t # Text[k] => n[t] = m[t]
  BY <1>1
<1> HIDE DEF n
<1>3. ASSUME NEW j \in Key, j # k PROVE n[Text[j]] = m[Text[j]]
  <2>1. Text[j] \in Dict!Texts /\ Text[j] # Text[k]
    BY <1>3 DEF Dict!Texts, OnePointer
  <2> QED
    BY <1>2, <2>1
<1> DEFINE new == [key |-> k, val |-> v]
<1>4. new.key = k /\ new.val = v
  OBVIOUS
<1> HIDE DEF new
<1>5. \A f : Stores(y, f) <=> Stores(x, f) \/ f = new
  BY DEF new
<1>6. ASSUME NEW j \in Key
      PROVE  /\ \A e : Stores(y, e) /\ e.key = j => n[Text[j]] = e.val
             /\ (\A e : Stores(y, e) => e.key # j) => n[Text[j]] = Absent
  <2>1. CASE j = k
    BY <1>2, <1>4, <1>5, <2>1
  <2>2. CASE j # k
    BY <1>3, <1>4, <1>5, <2>2 DEF Maps
  <2> QED
    BY <2>1, <2>2
<1> QED
  BY <1>2, <1>6 DEF Maps, n

LEMMA MapsDel ==
  ASSUME OnePointer, NEW x, NEW m, Maps(x, m), NEW k \in Key, NEW y,
         \A f : Stores(y, f) <=> Stores(x, f) /\ f.key # k
  PROVE  Maps(y, [m EXCEPT ![Text[k]] = Absent])
<1> DEFINE n == [m EXCEPT ![Text[k]] = Absent]
<1>1. Text[k] \in Dict!Texts /\ m \in [Dict!Texts -> Val \cup {Absent}]
  BY DEF Dict!Texts, Maps
<1>2. n \in [Dict!Texts -> Val \cup {Absent}] /\ n[Text[k]] = Absent
      /\ \A t \in Dict!Texts : t # Text[k] => n[t] = m[t]
  BY <1>1
<1> HIDE DEF n
<1>3. ASSUME NEW j \in Key, j # k PROVE n[Text[j]] = m[Text[j]]
  <2>1. Text[j] \in Dict!Texts /\ Text[j] # Text[k]
    BY <1>3 DEF Dict!Texts, OnePointer
  <2> QED
    BY <1>2, <2>1
<1>4. ASSUME NEW j \in Key
      PROVE  /\ \A e : Stores(y, e) /\ e.key = j => n[Text[j]] = e.val
             /\ (\A e : Stores(y, e) => e.key # j) => n[Text[j]] = Absent
  <2>1. CASE j = k
    BY <1>2, <2>1
  <2>2. CASE j # k
    BY <1>3, <2>2 DEF Maps
  <2> QED
    BY <2>1, <2>2
<1> QED
  BY <1>2, <1>4 DEF Maps, n

\* dictGet answers as the map does.
LEMMA GetMaps ==
  ASSUME Dict!DictAssumption, OnePointer, Well(dict), Unique(dict), Well(dict'),
         NEW k \in Key, Dict!DictGet(k)
  PROVE  Unique(dict') /\ Dict!Map!Next
<1> DEFINE x == Dict!RehashStep(dict)
           m == Dict!Contents
<1>1. Well(x) /\ SameStore(dict, x) /\ (Dict!DictSize(dict) # 0 => x.ht[0].size # 0)
  BY StepWell, StepStores
<1>2. Maps(dict, m)
  BY ContentsMap, ContentsAre
<1>3. Unique(dict') /\ \A e : Stores(dict', e) <=> Stores(dict, e)
  <2>1. dict' = dict \/ dict' = x
    BY DEF Dict!DictGet
  <2> QED
    BY <1>1, <2>1 DEF SameStore
<1>4. Dict!Contents' = m
  <2>1. ContentsOf(dict') = ContentsOf(dict)
    BY <1>3, SameContents
  <2> QED
    BY <2>1, ContentsAre
<1> HIDE DEF x, m
<1>5. Dict!Answer("get", Text[k], m[Text[k]])
  <2>1. CASE Dict!DictSize(dict) = 0
    <3>1. \A e : Stores(dict, e) => e.key # k
      BY <2>1, SizeIs
    <3>2. m[Text[k]] = Absent
      BY <1>2, <3>1 DEF Maps
    <3> QED
      BY <2>1, <3>2 DEF Dict!DictGet
  <2>2. CASE Dict!DictSize(dict) # 0
    <3>1. Maps(x, m) /\ Unique(x)
      BY <1>1, <1>2 DEF Maps, SameStore
    <3>2. Dict!Lookup(x, k) = m[Text[k]]
      BY <1>1, <2>2, <3>1, LookupMaps
    <3> QED
      BY <2>2, <3>2 DEF Dict!DictGet, x
  <2> QED
    BY <2>1, <2>2
<1>6. Text[k] \in Dict!Texts
  BY DEF Dict!Texts
<1>7. Dict!Map!Get(Text[k])
  BY <1>4, <1>5 DEF Dict!Map!Get, Dict!Map!Answer, Dict!Answer, m
<1> QED
  BY <1>3, <1>6, <1>7 DEF Dict!Map!Next

\* dictAdd adds what is not there.
LEMMA AddMaps ==
  ASSUME Dict!DictAssumption, OnePointer, Well(dict), Unique(dict), Well(dict'),
         NEW k \in Key, NEW v \in Val, Dict!DictAdd(k, v)
  PROVE  Unique(dict') /\ Dict!Map!Next
<1> DEFINE x == Dict!RehashStep(dict)
           r == Dict!KeyIndex(x, k)
           m == Dict!Contents
           n == Dict!Contents'
<1>1. Well(x) /\ Unique(x) /\ \A e : Stores(x, e) <=> Stores(dict, e)
  BY StepWell, StepStores DEF SameStore
<1> HIDE DEF x
<1>2. /\ Well(r.dict)
      /\ r.idx # -1 => /\ r.idx = Dict!Slot(r.dict.ht[LastTable(r.dict)], k)
                       /\ r.dict.ht[LastTable(r.dict)].size # 0
  BY <1>1, KeyIndexWell
<1>3. /\ SameStore(x, r.dict)
      /\ r.idx = -1 <=> \E e : Stores(x, e) /\ e.key = k
  BY <1>1, IndexStores
<1>4. Dict!AddAfter(r, k, v)
  BY DEF Dict!DictAdd, x
<1> HIDE DEF r
<1>5. Unique(r.dict) /\ \A e : Stores(r.dict, e) <=> Stores(dict, e)
  BY <1>1, <1>3 DEF SameStore
<1>6. Maps(dict, m) /\ (m[Text[k]] # Absent <=> \E e : Stores(dict, e) /\ e.key = k)
  BY ContentsMap, ContentsAre, InMap
<1>7. Text[k] \in Dict!Texts
  BY DEF Dict!Texts
<1>8. Unique(dict') => Maps(dict', n)
  BY ContentsMap, ContentsAre
<1> HIDE DEF m, n
<1>9. CASE r.idx = -1 /\ dict' = r.dict /\ Dict!Answer("add", Text[k], "err")
  <2>1. Unique(dict') /\ \A e : Stores(dict', e) <=> Stores(dict, e)
    BY <1>5, <1>9
  <2>2. Maps(dict', m)
    BY <1>6, <2>1 DEF Maps
  <2>3. n = m
    BY <1>8, <2>1, <2>2, MapsOnce
  <2>4. m[Text[k]] # Absent
    BY <1>1, <1>3, <1>6, <1>9
  <2>5. Dict!Map!Add(Text[k], v)
    BY <1>9, <2>3, <2>4 DEF Dict!Map!Add, Dict!Map!Answer, Dict!Answer, m, n
  <2> QED
    BY <1>7, <2>1, <2>5 DEF Dict!Map!Next
<1>10. CASE ~(r.idx = -1 /\ dict' = r.dict /\ Dict!Answer("add", Text[k], "err"))
  <2>1. /\ r.idx # -1 /\ Dict!Answer("add", Text[k], "ok")
        /\ dict' = [r.dict EXCEPT !.ht[LastTable(r.dict)].table[r.idx] = <<[key |-> k, val |-> v]>> \o @,
                                  !.ht[LastTable(r.dict)].used = @ + 1]
    BY <1>4, <1>10 DEF Dict!AddAfter, LastTable
  <2>2. \A e : Stores(dict, e) => e.key # k
    BY <1>1, <1>3, <2>1
  <2>3. \A e : Stores(r.dict, e) => e.key # k
    BY <1>5, <2>2
  <2>4. Unique(dict') /\ \A f : Stores(dict', f) <=> Stores(r.dict, f) \/ f = [key |-> k, val |-> v]
    BY <1>2, <1>5, <2>1, <2>3, AddStores
  <2>5. \A f : Stores(dict', f) <=> Stores(dict, f) \/ f = [key |-> k, val |-> v]
    BY <1>5, <2>4
  <2>6. Maps(dict', [m EXCEPT ![Text[k]] = v])
    BY <1>6, <2>2, <2>5, MapsAdd
  <2>7. n = [m EXCEPT ![Text[k]] = v]
    BY <1>8, <2>4, <2>6, MapsOnce
  <2>8. m[Text[k]] = Absent
    BY <1>6, <2>2
  <2>9. Dict!Map!Add(Text[k], v)
    BY <2>1, <2>7, <2>8 DEF Dict!Map!Add, Dict!Map!Answer, Dict!Answer, m, n
  <2> QED
    BY <1>7, <2>4, <2>9 DEF Dict!Map!Next
<1> QED
  BY <1>9, <1>10

\* dictDel deletes what is there.
LEMMA DelMaps ==
  ASSUME Dict!DictAssumption, OnePointer, Well(dict), Unique(dict), Well(dict'),
         NEW k \in Key, Dict!DictDel(k), broken = FALSE, broken' = FALSE
  PROVE  Unique(dict') /\ Dict!Map!Next
<1> DEFINE x == Dict!RehashStep(dict)
           m == Dict!Contents
           n == Dict!Contents'
           hits == {i \in Dict!Visited(x) : Dict!Position(x, i, k) # 0}
<1>1. /\ Well(x) /\ Unique(x) /\ (Dict!DictSize(dict) # 0 => x.ht[0].size # 0)
      /\ \A e : Stores(x, e) <=> Stores(dict, e)
  BY StepWell, StepStores DEF SameStore
<1>2. Dict!DelIn(x, k)
  BY DEF Dict!DictDel
<1> HIDE DEF x
<1>3. Maps(dict, m) /\ (m[Text[k]] # Absent <=> \E e : Stores(dict, e) /\ e.key = k)
  BY ContentsMap, ContentsAre, InMap
<1>4. Text[k] \in Dict!Texts
  BY DEF Dict!Texts
<1>5. Unique(dict') => Maps(dict', n)
  BY ContentsMap, ContentsAre
<1> HIDE DEF m, n
<1>6. ASSUME Unique(dict'), \A f : Stores(dict', f) <=> Stores(dict, f) /\ f.key # k,
             Dict!Answer("del", Text[k], IF \E e : Stores(dict, e) /\ e.key = k THEN "entry" ELSE Absent)
      PROVE  Unique(dict') /\ Dict!Map!Next
  <2>1. Maps(dict', [m EXCEPT ![Text[k]] = Absent])
    BY <1>3, <1>6, MapsDel
  <2>2. n = [m EXCEPT ![Text[k]] = Absent]
    BY <1>5, <1>6, <2>1, MapsOnce
  <2>3. Dict!Map!Delete(Text[k])
    BY <1>3, <1>6, <2>2 DEF Dict!Map!Delete, Dict!Map!Answer, Dict!Answer, m, n
  <2> QED
    BY <1>4, <1>6, <2>3 DEF Dict!Map!Next
<1>7. ASSUME \A e : Stores(dict, e) => e.key # k, dict' = dict \/ dict' = x,
             Dict!Answer("del", Text[k], Absent)
      PROVE  Unique(dict') /\ Dict!Map!Next
  <2>1. Unique(dict') /\ \A f : Stores(dict', f) <=> Stores(dict, f) /\ f.key # k
    BY <1>1, <1>7
  <2>2. Dict!Answer("del", Text[k], IF \E e : Stores(dict, e) /\ e.key = k THEN "entry" ELSE Absent)
    BY <1>7
  <2> QED
    BY <1>6, <2>1, <2>2
<1>8. CASE Dict!DictSize(dict) = 0 /\ dict' = dict /\ Dict!Answer("del", Text[k], Absent)
  <2>1. \A e : Stores(dict, e) => e.key # k
    BY <1>8, SizeIs
  <2> QED
    BY <1>7, <1>8, <2>1
<1>9. CASE Dict!DictSize(dict) # 0 /\ hits = {} /\ dict' = x /\ Dict!Answer("del", Text[k], Absent)
  <2>1. ASSUME NEW i \in {0, 1}, NEW e, Links(x.ht[i], e) PROVE e.key # k
    <3>1. WellTable(x.ht[i])
      BY <1>1 DEF Well
    <3>2. i \in Dict!Visited(x) /\ x.ht[i].size # 0
      BY <1>1, <2>1, <3>1, SizeIs, LinkedInChain DEF Dict!Visited
    <3>3. Dict!Position(x, i, k) = 0
      BY <1>9, <3>2
    <3>4. First(Where(Dict!Chain(x.ht[i], k), k)) = 0
      BY <3>3, PositionFinds
    <3> QED
      BY <2>1, <3>1, <3>2, <3>4, Searched
  <2>2. \A e : Stores(dict, e) => e.key # k
    BY <1>1, <2>1 DEF Stores
  <2> QED
    BY <1>7, <1>9, <2>2
<1>10. CASE /\ Dict!DictSize(dict) # 0 /\ hits # {} /\ Dict!Answer("del", Text[k], "entry")
            /\ dict' = Dict!Unlink(x, Dict!Min(hits), k)
  <2> DEFINE i == Dict!Min(hits)
  <2>1. i \in hits
    <3>1. hits \in SUBSET Nat
      BY DEF Dict!Visited
    <3> HIDE DEF hits
    <3> QED
      BY <1>10, <3>1, Smallest DEF Dict!Min
  <2>2. dict' = Dict!Unlink(x, i, k)
    BY <1>10
  <2> HIDE DEF i
  <2>3. i \in {0, 1} /\ x.ht[i].size # 0 /\ Dict!Position(x, i, k) # 0
    BY <1>1, <1>10, <2>1 DEF Dict!Visited, Well
  <2>4. /\ Unique(Dict!Unlink(x, i, k))
        /\ \A f : Stores(Dict!Unlink(x, i, k), f) <=> Stores(x, f) /\ f.key # k
        /\ \E f : Stores(x, f) /\ f.key = k
    BY <1>1, <2>3, UnlinkStores
  <2>5. Unique(dict') /\ \A f : Stores(dict', f) <=> Stores(dict, f) /\ f.key # k
    BY <1>1, <2>2, <2>4
  <2>6. Dict!Answer("del", Text[k], IF \E e : Stores(dict, e) /\ e.key = k THEN "entry" ELSE Absent)
    BY <1>1, <1>10, <2>4
  <2> QED
    BY <1>6, <2>5, <2>6
<1> HIDE DEF hits
<1>11. broken' # TRUE
  OBVIOUS
<1> QED
  BY <1>2, <1>8, <1>9, <1>10, <1>11 DEF Dict!DelIn, hits

\* dictExpand and a rehash step change nothing that callers see.
LEMMA GrowthMaps ==
  ASSUME Dict!DictAssumption, OnePointer, Well(dict), Unique(dict), Well(dict'),
         SameStore(dict, dict')
  PROVE  Unique(dict') /\ Dict!Contents' = Dict!Contents
<1>1. Unique(dict') /\ \A e : Stores(dict', e) <=> Stores(dict, e)
  BY DEF SameStore
<1>2. ContentsOf(dict') = ContentsOf(dict)
  BY <1>1, SameContents
<1> QED
  BY <1>1, <1>2, ContentsAre

\* Each call is one of the map's, or none, or the last.
LEMMA CallMaps ==
  ASSUME Dict!DictAssumption, OneAtATime, OnePointer, MapInv, Dict!Next
  PROVE  MapInv' /\ (Dict!Map!Next \/ broken' \/ UNCHANGED <<Dict!Contents, reply>>)
<1>1. /\ DictInv' /\ broken = FALSE /\ Well(dict) /\ Unique(dict)
      /\ broken' \in BOOLEAN /\ (broken' = FALSE => Well(dict'))
  <2>1. DictInv'
    BY CallKeeps DEF MapInv
  <2>2. broken = FALSE
    BY DEF Dict!Next, MapInv, DictInv, Dict!TypeOK
  <2> QED
    BY <2>1, <2>2 DEF MapInv, DictInv, Dict!TypeOK
<1>2. CASE broken' = TRUE
  BY <1>1, <1>2 DEF MapInv
<1>3. CASE broken' = FALSE
  <2> DEFINE Goal == Unique(dict') /\ (Dict!Map!Next \/ UNCHANGED <<Dict!Contents, reply>>)
  <2>1. ASSUME NEW k \in Key, Dict!DictGet(k) PROVE Goal
    BY <1>1, <1>3, <2>1, GetMaps
  <2>2. ASSUME NEW k \in Key, NEW v \in Val, Dict!DictAdd(k, v) PROVE Goal
    BY <1>1, <1>3, <2>2, AddMaps
  <2>3. ASSUME NEW k \in Key, Dict!DictDel(k) PROVE Goal
    BY <1>1, <1>3, <2>3, DelMaps
  <2>4. ASSUME NEW n \in ExpandTo, Dict!DictExpand(n) PROVE Goal
    <3>1. n \in Nat
      BY DEF Dict!DictAssumption
    <3>2. SameStore(dict, dict') /\ reply' = reply
      BY <1>1, <2>4, <3>1, ExpandStores DEF Dict!DictExpand
    <3> QED
      BY <1>1, <1>3, <3>2, GrowthMaps
  <2>5. ASSUME NEW n \in RehashBy, Dict!DictRehash(n) PROVE Goal
    <3>1. n = 1
      BY DEF OneAtATime
    <3>2. dict' = Dict!RehashStep(dict) /\ reply' = reply
      BY <2>5, <3>1, StepIs DEF Dict!DictRehash
    <3>3. SameStore(dict, dict')
      BY <1>1, <3>2, StepStores
    <3> QED
      BY <1>1, <1>3, <3>2, <3>3, GrowthMaps
  <2>6. Goal
    <3> HIDE DEF Goal
    <3> QED
      BY <2>1, <2>2, <2>3, <2>4, <2>5 DEF Dict!Next
  <2> QED
    BY <1>1, <2>6 DEF MapInv
<1> QED
  BY <1>1, <1>2, <1>3

\* An empty dict is the empty map.
LEMMA MapStarts == ASSUME Dict!DictAssumption, Dict!Init PROVE MapInv /\ Dict!Map!Init
<1>1. DictInv
  BY DictStarts
<1>2. dict = [ht |-> [i \in {0, 1} |-> Dict!NoTable], rehashidx |-> -1]
      /\ reply = [op |-> "none", key |-> Absent, result |-> Absent]
  BY DEF Dict!Init
<1>3. dict.ht[0] = Dict!NoTable /\ dict.ht[1] = Dict!NoTable
  BY <1>2
<1>4. Unique(dict)
  BY <1>3, NewTables DEF Unique
<1>5. Dict!DictSize(dict) = 0
  BY <1>3 DEF Dict!DictSize, Dict!NoTable
<1>6. Dict!Contents = [t \in Dict!Texts |-> Absent]
  BY <1>5 DEF Dict!Contents
<1> QED
  BY <1>1, <1>2, <1>4, <1>6 DEF MapInv, Dict!Map!Init

\* Through all expansions and half finished rehashes dictAdd, dictGet and dictDel
\* answer as a map from strings to values does, until a deletion leaves defined
\* behaviour: Dict implements KeyValueMap, for any keys, strings, hashes and sizes,
\* when every caller has the same pointer for a string.
THEOREM DictImplementsMap ==
  ASSUME Dict!DictAssumption, OneAtATime, OnePointer PROVE Dict!Spec => ImplementsMap
<1>1. Dict!Init => MapInv /\ Dict!Map!Init
  BY MapStarts
<1>2. MapInv /\ [Dict!Next]_(Dict!vars)
        => MapInv' /\ [Dict!Map!Next \/ broken']_<<Dict!Contents, reply>>
  <2> SUFFICES ASSUME MapInv, [Dict!Next]_(Dict!vars)
               PROVE  MapInv' /\ (Dict!Map!Next \/ broken' \/ UNCHANGED <<Dict!Contents, reply>>)
    OBVIOUS
  <2>1. CASE UNCHANGED Dict!vars
    <3>1. dict' = dict /\ reply' = reply /\ broken' = broken
      BY <2>1 DEF Dict!vars
    <3>2. Dict!Contents' = Dict!Contents
      BY <3>1, ContentsAre
    <3>3. MapInv'
      BY <3>1 DEF MapInv, DictInv, Dict!TypeOK
    <3> QED
      BY <3>1, <3>2, <3>3
  <2>2. CASE Dict!Next
    BY <2>2, CallMaps
  <2> QED
    BY <2>1, <2>2
<1> QED
  BY <1>1, <1>2, PTL DEF Dict!Spec, ImplementsMap, Dict!ImplementsMap

-----------------------------------------------------------------------------
(* The composition *)

Steps == [Next]_vars /\ [Loop!Next]_Loop!vars /\ [Dict!Next]_Dict!vars

\* What one program does leaves the two others where they are.
LEMMA StepIsOneProgram == [MCNext]_MCvars => Steps
<1> SUFFICES ASSUME [MCNext]_MCvars PROVE Steps
  OBVIOUS
<1>1. /\ UNCHANGED loopVars => UNCHANGED Loop!vars
      /\ UNCHANGED dictVars => UNCHANGED Dict!vars
  BY DEF loopVars, Loop!vars, Loop!mapVars, Loop!turnVars, Loop!kernelVars, Loop!userVars,
         dictVars, Dict!vars
<1>2. ASSUME UNCHANGED loopVars, UNCHANGED dictVars, ~exited,
             \/ Wait \/ AcceptFails
             \/ \E c \in Conn :
                  \/ AcceptOne(c) \/ HangUp(c) \/ Eof(c) \/ ReadFails(c) \/ Echo(c) \/ EchoFails(c)
                  \/ Arrive(c) \/ Drain(c) \/ Speak(c)
      PROVE  Steps
  BY <1>1, <1>2, Zenon DEF Next, Server, Client, Steps
<1>3. ASSUME UNCHANGED vars, UNCHANGED dictVars,
             \/ Loop!Poll \/ Loop!Invalid \/ Loop!Activate \/ Loop!Return \/ Loop!EpollDispatch
             \/ Loop!Clear
             \/ \E f \in Loop!Fd : Loop!Delete(f) \/ \E e \in Loop!Event : Loop!Arrive(f, e)
             \/ \E f \in Loop!Fd, ev \in SUBSET Loop!Event : Loop!Add(f, ev) \/ Loop!Update(f, ev)
      PROVE  Steps
  BY <1>1, <1>3, Zenon DEF Loop!Next, Loop!Loop, Loop!User, Steps
<1>6. ASSUME UNCHANGED vars, UNCHANGED loopVars, ~broken,
             \/ \E k \in Key :
                  Dict!DictGet(k) \/ Dict!DictDel(k) \/ \E v \in Val : Dict!DictAdd(k, v)
             \/ \E n \in ExpandTo : Dict!DictExpand(n)
             \/ \E n \in RehashBy : Dict!DictRehash(n)
      PROVE  Steps
  BY <1>1, <1>6, Zenon DEF Dict!Next, Steps
<1>4. CASE UNCHANGED MCvars
  BY <1>1, <1>4 DEF MCvars, Steps
<1>5. CASE MCNext
  BY <1>2, <1>3, <1>5, <1>6, Zenon DEF MCNext, ServerStep, LoopStep, DictStep
<1> QED
  BY <1>4, <1>5

\* Of the three programs that a run chooses from each keeps what was proved of it
\* alone: a step of one leaves the others where they are.
THEOREM LoopsCorrect ==
  MCSpec => /\ []( /\ EventsStillHold /\ EchoedBeforeClose
                   /\ EachReportedOnce /\ NoStaleCall
                   /\ (OneAtATime => TablesConsistent))
            /\ ImplementsService
            /\ (OneAtATime /\ OnePointer => ImplementsMap)
<1>1. MCInit => Init /\ Loop!Init /\ Dict!Init
  BY DEF MCInit
<1>2. [MCNext]_MCvars => [Next]_vars /\ [Loop!Next]_Loop!vars /\ [Dict!Next]_Dict!vars
  BY StepIsOneProgram DEF Steps
<1>3. MCSpec => Spec /\ Loop!Spec /\ Dict!Spec
  BY <1>1, <1>2, PTL DEF MCSpec, Spec, Loop!Spec, Dict!Spec
<1>4. Loop!LoopAssumption /\ Dict!DictAssumption
  BY LoopsAssumption
<1>5. /\ Loop!Spec => []EachReportedOnce
      /\ Loop!Spec => []NoStaleCall
  BY <1>4, LoopHandlesEachOnce, LoopCallsFresh
<1>6. Dict!Spec => [](OneAtATime => TablesConsistent)
  <2>1. CASE OneAtATime
    <3>1. Dict!Spec => []TablesConsistent
      BY <1>4, <2>1, DictCounts
    <3> QED
      BY <3>1, PTL
  <2>2. CASE ~OneAtATime
    BY <2>2, PTL
  <2> QED
    BY <2>1, <2>2
<1>7. Dict!Spec => (OneAtATime /\ OnePointer => ImplementsMap)
  <2>1. CASE OneAtATime /\ OnePointer
    <3>1. Dict!Spec => ImplementsMap
      BY <1>4, <2>1, DictImplementsMap
    <3> QED
      BY <3>1
  <2>2. CASE ~(OneAtATime /\ OnePointer)
    BY <2>2
  <2> QED
    BY <2>1, <2>2
<1> QED
  BY <1>3, <1>5, <1>6, <1>7, BatchStaysTrue, NothingLost, EpollImplementsService, PTL
================================================================================
