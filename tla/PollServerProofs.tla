---------------------------- MODULE PollServerProofs ----------------------------
(***************************************************************************)
(* Theorems about PollServer, for any number of slots, connections and     *)
(* chunks: no result of poll is stale when its turn comes, only a full     *)
(* array loses a connection, and clients see an echo service.              *)
(***************************************************************************)
EXTENDS PollServer, WellFoundedInduction, TLAPS

\* The slot whose turn it is.
Turn == Lowest(ready)

\* Where the chunks are that the client of c sent: unread, echoed, or read and
\* about to be written.
Counts ==
    /\ phase = "write" => held > 0
    /\ \A c \in Conn :
         \/ phase = "write" /\ fds[Turn] = c /\ unread[c] + echoed[c] + held = sent[c]
         \/ (phase = "write" => fds[Turn] # c) /\ unread[c] + echoed[c] = sent[c]

\* A slot holds an open connection, no two slots the same one.
Placement ==
    /\ \A i \in Slots : fds[i] # NoConn => stage[fds[i]] = "open"
    /\ \A i, j \in Slots : fds[i] = fds[j] /\ fds[i] # NoConn => i = j

\* What poll reported holds until its turn comes; what the slot that is being
\* written has to read may have been read.
Results ==
    /\ phase = "write" => ready # {}
    /\ \A i \in ready :
         /\ fds[i] # NoConn
         /\ phase # "write" \/ i # Turn => Readable(fds[i])

\* TypeOK without exited.
Shapes ==
    /\ ClientTypeOK
    /\ fds \in [Slots -> Conn \cup {NoConn}]
    /\ ready \subseteq Slots
    /\ phase \in {"poll", "accept", "loop", "write"}
    /\ held \in 0 .. MaxSent /\ (phase # "write" => held = 0)

IInv == Shapes /\ exited \in BOOLEAN /\ Counts /\ Placement /\ Results

\* The lowest slot of some is one of them.
LEMMA LowestIsMember ==
  ASSUME NEW S \in SUBSET Slots, S # {}
  PROVE  Lowest(S) \in S
<1>1. IsWellFoundedOn(OpToRel(<, Nat), Nat)
  BY NatLessThanWellFounded
<1>2. S \subseteq Nat
  BY PollAssumption DEF Slots
<1>3. PICK x \in S : \A y \in S : <<y, x>> \notin OpToRel(<, Nat)
  BY <1>1, <1>2, WFMin
<1>4. \A y \in S : x <= y
  <2> TAKE y \in S
  <2>1. ~ (y < x)
    BY <1>2, <1>3, Zenon DEF OpToRel
  <2> QED
    BY <1>2, <2>1
<1> QED
  BY <1>4, Zenon DEF Lowest

LEMMA TurnIsReady ==
  ASSUME IInv, ready # {}
  PROVE  Turn \in ready /\ Turn \in Slots /\ fds[Turn] \in Conn
  BY LowestIsMember DEF IInv, Shapes, Results, Turn

LEMMA InitHolds == Init => IInv
<1> USE ClientAssumption, PollAssumption DEF Init, ClientInit
<1>1. Init => Shapes
  BY DEF Shapes, ClientTypeOK
<1>2. Init => exited \in BOOLEAN
  BY Zenon
<1>3. Init => Counts /\ Placement /\ Results
  BY DEF Counts, Placement, Results
<1> QED
  BY <1>1, <1>2, <1>3 DEF IInv

\* What clients do.
LEMMA ClientKeeps ==
  ASSUME IInv, NEW c \in Conn, ClientStep(c), UNCHANGED serverVars
  PROVE  IInv'
<1> USE ClientAssumption, PollAssumption DEF IInv, serverVars, Exists
<1>1. Turn' = Turn
  BY DEF Turn
<1>2. CASE Connect(c)
  <2>1. Shapes'
    BY <1>2 DEF Connect, Shapes, ClientTypeOK
  <2>2. Counts'
    BY <1>1, <1>2 DEF Connect, Counts
  <2>3. Placement'
    BY <1>2 DEF Connect, Placement, Shapes, ClientTypeOK
  <2>4. Results'
    BY <1>1, <1>2 DEF Connect, Results, Readable
  <2> QED
    BY <2>1, <2>2, <2>3, <2>4
<1>3. CASE Send(c)
  <2>1. Shapes'
    BY <1>3 DEF Send, Shapes, ClientTypeOK, Counts
  <2>2. Counts'
    <3>1. \A b \in Conn : /\ sent'[b] = IF b = c THEN sent[b] + 1 ELSE sent[b]
                          /\ unread'[b] = IF b = c THEN unread[b] + 1 ELSE unread[b]
      BY <1>3 DEF Send, Shapes, ClientTypeOK
    <3>2. \A b \in Conn : sent[b] \in Nat /\ unread[b] \in Nat /\ echoed[b] \in Nat /\ held \in Nat
      BY DEF Shapes, ClientTypeOK
    <3> QED
      BY <1>1, <1>3, <3>1, <3>2 DEF Send, Counts
  <2>3. Placement'
    BY <1>3 DEF Send, Placement
  <2>4. Results'
    BY <1>1, <1>3 DEF Send, Results, Readable, Shapes, ClientTypeOK
  <2> QED
    BY <2>1, <2>2, <2>3, <2>4
<1>4. CASE Fin(c) \/ Reset(c)
  <2>1. Shapes'
    BY <1>4 DEF Fin, Reset, Shapes, ClientTypeOK
  <2>2. Counts'
    BY <1>1, <1>4 DEF Fin, Reset, Counts
  <2>3. Placement'
    BY <1>4 DEF Fin, Reset, Placement
  <2>4. Results'
    BY <1>1, <1>4 DEF Fin, Reset, Results, Readable, Shapes, ClientTypeOK
  <2> QED
    BY <2>1, <2>2, <2>3, <2>4
<1> QED
  BY <1>2, <1>3, <1>4 DEF ClientStep

\* poll finds what can be read, and nothing is being written.
LEMMA PollKeeps ==
  ASSUME IInv, Poll
  PROVE  IInv'
<1> USE DEF IInv, Poll, clientVars
<1>1. Shapes'
  BY DEF Shapes, ClientTypeOK
<1>2. Counts'
  BY DEF Counts
<1>3. Placement'
  BY DEF Placement
<1>4. Results'
  BY DEF Results, Readable, Empty
<1> QED
  BY <1>1, <1>2, <1>3, <1>4

\* A new connection goes into an empty slot, which has no result.
LEMMA AcceptKeeps ==
  ASSUME IInv, NEW c \in Conn, Accept(c)
  PROVE  IInv'
<1> USE PollAssumption DEF IInv, Accept, Accepted, AfterAccept, Backlog
<1>1. Empty \subseteq Slots /\ (Empty # {} => Lowest(Empty) \in Empty)
  BY LowestIsMember DEF Empty
<1>2. \A i \in Slots : \/ fds'[i] = fds[i]
                       \/ fds[i] = NoConn /\ i = Lowest(Empty) /\ fds'[i] = c
  BY <1>1 DEF Shapes, Empty
<1>3. Shapes'
  BY <1>1 DEF Shapes, ClientTypeOK
<1>4. Counts'
  BY DEF Counts
<1>5. Placement'
  BY <1>2 DEF Placement, Shapes, ClientTypeOK
<1>6. Results'
  BY <1>2 DEF Results, Readable, Shapes
<1> QED
  BY <1>3, <1>4, <1>5, <1>6

\* The descriptor whose turn it is has something to read, which leaves what the
\* other slots have to read alone.
LEMMA ReadKeeps ==
  ASSUME IInv, NEW i \in Slots, Read(i)
  PROVE  IInv'
<1> USE ClientAssumption, PollAssumption DEF IInv, Read, At
<1>1. i = Turn /\ i \in ready /\ fds[i] \in Conn /\ Turn' = Turn
  BY TurnIsReady DEF Turn
<1>2. PICK n \in 1 .. MaxSent : Received(fds[i], n) /\ held' = n
  OBVIOUS
<1> USE DEF Received
<1>3. Shapes'
  BY <1>1, <1>2 DEF Shapes, ClientTypeOK
<1>4. Counts'
  BY <1>1, <1>2 DEF Counts, Shapes, ClientTypeOK
<1>5. Placement'
  BY <1>2 DEF Placement
<1>6. Results'
  BY <1>1, <1>2 DEF Results, Readable, Shapes, ClientTypeOK, Placement
<1> QED
  BY <1>2, <1>3, <1>4, <1>5, <1>6

LEMMA WriteKeeps ==
  ASSUME IInv, NEW i \in Slots, Write(i)
  PROVE  IInv'
<1> USE ClientAssumption, PollAssumption DEF IInv, Write, Handled, Replied
<1>1. i = Turn /\ i \in ready /\ fds[i] \in Conn
  BY TurnIsReady DEF Turn, Results
<1>2. Shapes'
  BY <1>1 DEF Shapes, ClientTypeOK, Counts
<1>3. Counts'
  BY <1>1 DEF Counts, Shapes, ClientTypeOK
<1>4. Placement'
  BY DEF Placement
<1>5. Results'
  BY <1>1 DEF Results, Readable
<1> QED
  BY <1>2, <1>3, <1>4, <1>5

\* Nobody else has the slot's connection, so that the others stay open.
LEMMA CloseKeeps ==
  ASSUME IInv, NEW i \in Slots, Close(i)
  PROVE  IInv'
<1> USE PollAssumption DEF IInv, Close, At, Handled, Closed
<1>1. i = Turn /\ i \in ready /\ fds[i] \in Conn
  BY TurnIsReady DEF Turn
<1>2. Shapes'
  BY <1>1 DEF Shapes, ClientTypeOK
<1>3. Counts'
  BY DEF Counts
<1>4. Placement'
  BY <1>1 DEF Placement, Shapes, ClientTypeOK
<1>5. Results'
  BY <1>1 DEF Results, Readable, Shapes
<1> QED
  BY <1>2, <1>3, <1>4, <1>5

\* The steps that change little.
LEMMA OthersKeep ==
  ASSUME IInv, AcceptFails \/ Again \/ (\E i \in Slots : WriteFails(i)) \/ UNCHANGED vars
  PROVE  IInv'
<1> USE DEF IInv, clientVars
<1>1. Turn' = Turn
  BY DEF AcceptFails, AfterAccept, Again, WriteFails, vars, serverVars, Turn
<1>2. CASE AcceptFails \/ Again
  BY <1>1, <1>2 DEF AcceptFails, AfterAccept, Again, Shapes, ClientTypeOK, Counts, Placement,
                    Results, Readable
<1>3. CASE (\E i \in Slots : WriteFails(i)) \/ UNCHANGED vars
  <2>1. exited' \in BOOLEAN
    BY <1>3, Zenon DEF WriteFails, vars, serverVars
  <2>2. Shapes' /\ Counts' /\ Placement' /\ Results'
    BY <1>1, <1>3 DEF WriteFails, vars, serverVars, Shapes, ClientTypeOK, Counts, Placement,
                      Results, Readable
  <2> QED
    BY <2>1, <2>2
<1> QED
  BY <1>2, <1>3

LEMMA Invariant == Spec => []IInv
<1>1. IInv /\ [Next]_vars => IInv'
  <2> SUFFICES ASSUME IInv, [Next]_vars PROVE IInv'
    OBVIOUS
  <2> QED
    BY ClientKeeps, PollKeeps, AcceptKeeps, ReadKeeps, WriteKeeps, CloseKeeps, OthersKeep
    DEF Next, Server
<1> QED
  BY InitHolds, <1>1, PTL DEF Spec

\* When the turn of a slot comes, its descriptor is open and has something to
\* read, whatever the turns before it did: read never blocks the server.
THEOREM ResultsStayTrue == Spec => []SlotsAreOpen
<1>1. IInv => SlotsAreOpen
  <2> SUFFICES ASSUME IInv PROVE SlotsAreOpen
    OBVIOUS
  <2>1. TypeOK
    BY Zenon DEF IInv, Shapes, TypeOK
  <2>2. Placed \subseteq Open
    BY DEF IInv, Shapes, Placement, Placed, Open
  <2> QED
    BY <2>1, <2>2 DEF IInv, Placement, Results, SlotsAreOpen
<1> QED
  BY Invariant, <1>1, PTL

\* Only an accept with every slot in use leaves a connection unwatched.
THEOREM LossNeedsFullArray == Spec => LostOnlyWhenFull
<1>1. IInv /\ [Next]_vars => [Lost' \subseteq Lost \/ Empty = {}]_vars
  <2> SUFFICES ASSUME IInv, Next, Empty # {} PROVE Lost' \subseteq Lost
    OBVIOUS
  <2> USE PollAssumption DEF Lost, Open, Placed, clientVars, serverVars
  <2>1. CASE \E c \in Conn : ClientStep(c) /\ UNCHANGED serverVars
    BY <2>1 DEF ClientStep, Connect, Send, Fin, Reset, IInv, Shapes, ClientTypeOK
  <2>2. CASE Poll \/ AcceptFails \/ Again
    BY <2>2 DEF Poll, AcceptFails, AfterAccept, Again
  <2>3. ASSUME NEW c \in Conn, Accept(c) PROVE Lost' \subseteq Lost
    <3>1. Lowest(Empty) \in Slots /\ fds[Lowest(Empty)] = NoConn
      BY LowestIsMember DEF Empty
    <3>2. \A i \in Slots : fds'[i] = IF i = Lowest(Empty) THEN c ELSE fds[i]
      BY <2>3 DEF Accept, IInv, Shapes
    <3>3. Open' = Open \cup {c}
      BY <2>3 DEF Accept, Accepted, IInv, Shapes, ClientTypeOK
    <3>4. Placed \cup {c} \subseteq Placed'
      BY <3>1, <3>2
    <3> QED
      BY <3>3, <3>4
  <2>4. ASSUME NEW i \in Slots, Read(i) \/ Write(i) \/ WriteFails(i) PROVE Lost' \subseteq Lost
    BY <2>4 DEF Read, Received, Write, Replied, WriteFails
  <2>5. ASSUME NEW i \in Slots, Close(i) PROVE Lost' \subseteq Lost
    <3>1. Open' \subseteq Open \ {fds[i]}
      <4>1. fds[i] \in Conn
        BY <2>5, TurnIsReady DEF Close, At, Turn
      <4> QED
        BY <4>1, <2>5 DEF Close, Closed, IInv, Shapes, ClientTypeOK
    <3>2. Placed \ {fds[i]} \subseteq Placed'
      BY <2>5 DEF Close, IInv, Shapes
    <3> QED
      BY <3>1, <3>2
  <2> QED
    BY <2>1, <2>2, <2>3, <2>4, <2>5 DEF Next, Server
<1> QED
  BY Invariant, <1>1, PTL DEF Spec, LostOnlyWhenFull

\* The steps of the server that clients see.
LEMMA EchoIsEcho ==
  ASSUME IInv, NEW i \in Slots, Write(i)
  PROVE  Service!Echo(fds[i]) /\ fds[i] \in Conn
<1> DEFINE c == fds[i]
<1>1. i = Turn /\ c \in Conn /\ phase = "write" /\ Replied(c, held)
  BY TurnIsReady DEF Write, Turn, IInv, Results
<1>2. stage[c] = "open" /\ unread[c] + echoed[c] + held = sent[c] /\ held > 0
  BY <1>1, PollAssumption DEF IInv, Counts, Placement, Shapes
<1> HIDE DEF c
<1>3. held \in 1 .. sent[c] - echoed[c]
  BY <1>1, <1>2, ClientAssumption DEF IInv, Shapes, ClientTypeOK
<1>4. Service!Echo(c)
  BY <1>1, <1>2, <1>3 DEF Replied, Service!Echo
<1> QED
  BY <1>1, <1>4 DEF c

LEMMA CloseIsClose ==
  ASSUME IInv, NEW i \in Slots, Close(i)
  PROVE  Service!Close(fds[i]) /\ fds[i] \in Conn
<1> DEFINE c == fds[i]
<1>1. c \in Conn /\ phase = "loop" /\ Closed(c) /\ unread[c] = 0 /\ peer[c] # "up"
  BY TurnIsReady DEF Close, At, Ended, Turn
<1>2. stage[c] = "open" /\ unread[c] + echoed[c] = sent[c]
  BY <1>1, PollAssumption DEF IInv, Counts, Placement, Shapes
<1> HIDE DEF c
<1>3. peer[c] \in {"fin", "reset"} /\ echoed[c] = sent[c]
  BY <1>1, <1>2, ClientAssumption DEF IInv, Shapes, ClientTypeOK
<1>4. Service!Close(c)
  BY <1>1, <1>2, <1>3 DEF Closed, Service!Close, Service!Moves
<1> QED
  BY <1>1, <1>4 DEF c

LEMMA ServiceStep ==
  ASSUME IInv, [Next]_vars
  PROVE  [Service!Next]_(Service!serviceVars)
<1>1. ASSUME UNCHANGED clientVars PROVE UNCHANGED Service!serviceVars
  BY <1>1 DEF clientVars, Service!serviceVars
<1>2. ASSUME NEW c \in Conn, ClientStep(c) PROVE Service!Next
  <2>1. Service!Connect(c) \/ Service!Send(c) \/ Service!End(c)
    BY <1>2 DEF ClientStep, Connect, Send, Fin, Reset, Exists,
       Service!Connect, Service!Moves, Service!Send, Service!End
  <2> QED
    BY <2>1 DEF Service!Next
<1>3. ASSUME NEW c \in Conn, Accept(c) PROVE Service!Next
  <2>1. Service!Accept(c)
    BY <1>3 DEF Accept, Accepted, Backlog, Service!Accept, Service!Moves
  <2> QED
    BY <2>1 DEF Service!Next
<1>4. CASE Poll \/ AcceptFails \/ Again \/ (\E i \in Slots : WriteFails(i)) \/ UNCHANGED vars
  BY <1>1, <1>4 DEF Poll, AcceptFails, Again, WriteFails, vars
<1>5. ASSUME NEW i \in Slots, Read(i) PROVE UNCHANGED Service!serviceVars
  BY <1>5 DEF Read, Received, Service!serviceVars
<1>6. ASSUME NEW i \in Slots, Write(i) \/ Close(i) PROVE Service!Next
  BY <1>6, EchoIsEcho, CloseIsClose DEF Service!Next
<1> QED
  BY <1>2, <1>3, <1>4, <1>5, <1>6 DEF Next, Server

\* Slots that are used again mix no two clients up: each gets back what it sent,
\* all of it before the close unless it resets the connection.
THEOREM PollImplementsService == Spec => ImplementsService
<1>1. Init => Service!Init
  BY DEF Init, ClientInit, Service!Init
<1>2. IInv /\ [Next]_vars => [Service!Next]_(Service!serviceVars)
  BY ServiceStep
<1> QED
  BY <1>1, <1>2, Invariant, PTL DEF Spec, ImplementsService, Service!Spec
================================================================================
