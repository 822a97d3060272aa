------------------------- MODULE ThreadPoolServerProofs -------------------------
(***************************************************************************)
(* Theorems about ThreadPoolServer, for any number of workers, slots,      *)
(* descriptors and connections.  The server uses its queue as              *)
(* BlockingQueue lets it be used, so that what is proved of the queue      *)
(* holds inside the server; what the queue contains, main and the workers  *)
(* have between them is then each open descriptor once.                    *)
(***************************************************************************)
EXTENDS ThreadPoolServer, TLAPS, FiniteSetTheorems, SequenceTheorems

QP == INSTANCE BlockingQueueProofs WITH Producers <- {Main}, Consumers <- Workers

-----------------------------------------------------------------------------
(* The queue inside the server *)

LEMMA QueueConstants == QP!QueueAssumption
<1>1. IsFiniteSet({Main}) /\ IsFiniteSet(Workers)
  BY FS_Singleton, PoolAssumption
<1>2. QP!IsFiniteSet({Main}) /\ QP!IsFiniteSet(Workers)
  BY <1>1 DEF IsFiniteSet, QP!IsFiniteSet
<1> QED
  BY <1>2, PoolAssumption DEF QP!QueueAssumption

\* The steps of the queue, by their names in QP.
LEMMA MainSteps ==
  /\ \A f \in Fd : Q!PushCall(Main, f) => QP!PushCall(Main, f)
  /\ Q!PushStep(Main) => QP!PushStep(Main)
<1>1. \A f \in Fd : Q!PushCall(Main, f) => QP!PushCall(Main, f)
  BY DEF Q!PushCall, QP!PushCall, Q!ring, QP!ring
<1>2. Q!PushStep(Main) => QP!PushStep(Main)
  BY DEF Q!PushStep, Q!PushWait, Q!PushStore, Q!PushSignal, Q!CondSignal, Q!CondWait,
     Q!Full, Q!Advance, Q!Waiting, Q!ring, QP!PushStep, QP!PushWait, QP!PushStore,
     QP!PushSignal, QP!CondSignal, QP!CondWait, QP!Full, QP!Advance, QP!Waiting, QP!ring
<1> QED
  BY <1>1, <1>2

LEMMA WorkerSteps ==
  ASSUME NEW w \in Workers
  PROVE  (Q!PopCall(w) => QP!PopCall(w)) /\ (Q!PopStep(w) => QP!PopStep(w))
<1>1. Q!PopCall(w) => QP!PopCall(w)
  BY DEF Q!PopCall, QP!PopCall, Q!ring, QP!ring
<1>2. Q!PopStep(w) => QP!PopStep(w)
  BY DEF Q!PopStep, Q!PopWait, Q!PopTake, Q!PopSignal, Q!CondSignal, Q!CondWait,
     Q!Empty, Q!Advance, Q!Waiting, Q!ring, QP!PopStep, QP!PopWait, QP!PopTake,
     QP!PopSignal, QP!CondSignal, QP!CondWait, QP!Empty, QP!Advance, QP!Waiting, QP!ring
<1> QED
  BY <1>1, <1>2

LEMMA ThreadSteps ==
  ASSUME NEW t \in Workers \cup {Main}
  PROVE  /\ Q!Lock(t) \/ Q!Unlock(t) => QP!Lock(t) \/ QP!Unlock(t)
         /\ Q!SpuriousWake(t) => QP!SpuriousWake(t)
  BY DEF Q!Lock, Q!Unlock, Q!SpuriousWake, Q!ring,
         QP!Lock, QP!Unlock, QP!SpuriousWake, QP!ring

LEMMA MainUsesQueue ==
  ASSUME MainStep PROVE [QP!Next]_(QP!vars)
<1>1. ASSUME NEW c \in Conn, NEW f \in Fd, Accept(c, f) PROVE QP!PushCall(Main, f)
  BY <1>1, MainSteps DEF Accept
<1> QED
  BY <1>1, MainSteps, ThreadSteps DEF MainStep, QP!Next, QP!Threads

LEMMA WorkerUsesQueue ==
  ASSUME NEW w \in Workers, WorkerStep(w) PROVE [QP!Next]_(QP!vars)
<1>1. ASSUME Read(w) \/ Write(w) \/ Die(w) PROVE UNCHANGED QP!vars
  BY <1>1 DEF Read, Write, Die, queueVars, QP!vars
<1> QED
  BY <1>1, WorkerSteps, ThreadSteps
  DEF WorkerStep, FirstPop, CloseAtEof, QP!Next, QP!Threads

\* Every step of the server is one of the queue, or leaves it alone.
LEMMA UsesQueue == [Next]_vars => [QP!Next]_(QP!vars)
<1>1. ASSUME NEW c \in Conn, Client(c) PROVE UNCHANGED QP!vars
  BY <1>1 DEF Client, Others, queueVars, QP!vars
<1>2. ASSUME Spurious PROVE QP!Next
  <2>1. PICK t \in Workers \cup {Main} : Q!SpuriousWake(t)
    BY <1>2 DEF Spurious
  <2>2. QP!SpuriousWake(t)
    BY <2>1, ThreadSteps
  <2> QED
    BY <2>2 DEF QP!Next, QP!Threads
<1>3. ASSUME UNCHANGED vars PROVE UNCHANGED QP!vars
  BY <1>3 DEF vars, queueVars, QP!vars
<1> QED
  BY <1>1, <1>2, <1>3, MainUsesQueue, WorkerUsesQueue DEF Next

LEMMA QueueInit == Init => QP!Init
  BY DEF Init, Q!Init, QP!Init, Q!Threads, QP!Threads

\* What is proved of the queue holds inside the server: nobody sleeps on it
\* while there is something to do, and descriptors leave it in their order.
THEOREM QueueHolds == Spec => []QP!NoLostWakeup /\ QP!ImplementsFifo
<1>1. Spec => QP!Spec
  BY QueueInit, UsesQueue, PTL DEF Spec, QP!Spec
<1>2. QP!Spec => []QP!NoLostWakeup
  BY QueueConstants, QP!NoWakeupLost
<1>3. QP!Spec => QP!ImplementsFifo
  BY QueueConstants, QP!QueueImplementsFifo
<1> QED
  BY <1>1, <1>2, <1>3, PTL

-----------------------------------------------------------------------------
(* Who has which descriptor *)

Queued == QP!Contents

\* Main, or a worker, is inside the queue, with nothing put in or taken yet.
Before(t) == pc[t] \in {"lock", "test", "wait"}

\* TypeOK without the queue and the flag.
Shapes ==
    /\ ClientTypeOK
    /\ sock \in [Fd -> Conn \cup {NoConn}]
    /\ held \in [Workers -> 0 .. MaxSent]

\* A descriptor is open as long as its connection is, and no two share one.
Sockets ==
    /\ \A f \in Fd : sock[f] # NoConn => stage[sock[f]] = "open"
    /\ \A f, g \in Fd : sock[f] = sock[g] /\ sock[f] # NoConn => f = g

\* A worker that has a descriptor is not inside the queue before it takes one.
OneEach == \A w \in Workers : Before(w) => result[w] = NoFd

\* What main pushes, the queue contains or a worker has, is open.
AllOpen ==
    /\ Before(Main) => sock[arg[Main]] # NoConn
    /\ \A k \in 1 .. Len(Queued) : sock[Queued[k]] # NoConn
    /\ \A w \in Workers : result[w] # NoFd => sock[result[w]] # NoConn

\* No descriptor is in two of these places.
Exclusive ==
    /\ Before(Main) => /\ \A k \in 1 .. Len(Queued) : Queued[k] # arg[Main]
                       /\ \A w \in Workers : result[w] # arg[Main]
    /\ \A k, l \in 1 .. Len(Queued) : Queued[k] = Queued[l] => k = l
    /\ \A w, v \in Workers : result[w] = result[v] /\ result[w] # NoFd => w = v
    /\ \A k \in 1 .. Len(Queued), w \in Workers : Queued[k] # result[w]

\* An open descriptor is in one of them.
Covered ==
    \A f \in Fd : sock[f] # NoConn =>
        \/ Before(Main) /\ arg[Main] = f
        \/ \E k \in 1 .. Len(Queued) : Queued[k] = f
        \/ \E w \in Workers : result[w] = f

Placed == OneEach /\ AllOpen /\ Exclusive /\ Covered

\* A chunk is unread, in the buffer of the worker that serves it, or echoed.
Counts ==
    /\ \A c \in Conn : unread[c] + echoed[c] <= sent[c]
    /\ \A w \in Workers : held[w] > 0 =>
         Serving(w) /\ unread[Served(w)] + echoed[Served(w)] + held[w] = sent[Served(w)]
    /\ \A c \in Conn : unread[c] + echoed[c] = sent[c]
                       \/ \E w \in Workers : held[w] > 0 /\ Served(w) = c

IInv ==
    /\ QP!CoreInv /\ Shapes /\ exited \in BOOLEAN
    /\ Sockets /\ Placed /\ Counts

\* The types that the steps need.
LEMMA QueueFacts ==
  ASSUME QP!CoreInv
  PROVE  /\ Queued \in Seq(Fd) /\ Len(Queued) \in Nat /\ Len(Queued) = used
         /\ pc \in [Workers \cup {Main} -> QP!Places]
         /\ arg \in [{Main} -> Fd \cup {NoFd}] /\ (pc[Main] # "idle" => arg[Main] \in Fd)
         /\ result \in [Workers -> Fd \cup {NoFd}]
<1>1. Queued \in Seq(Fd) /\ Len(Queued) = used /\ used \in Nat
  BY QueueConstants, QP!ContentsIsSeq DEF Queued
<1> QED
  BY <1>1 DEF QP!CoreInv, QP!TypeOK, QP!Threads, QP!ArgKnown

LEMMA InitHolds == Init => IInv
<1> SUFFICES ASSUME Init PROVE IInv
  OBVIOUS
<1> USE ClientAssumption, PoolAssumption
<1>1. QP!CoreInv
  BY QueueInit, QueueConstants, QP!CoreInit
<1>2. Shapes /\ Sockets
  BY DEF Init, ClientInit, Shapes, ClientTypeOK, Sockets
<1>3. exited \in BOOLEAN
  BY Zenon DEF Init
<1>4. Len(Queued) = 0
  BY <1>1, QueueFacts DEF Init, Q!Init
<1>5. \A w \in Workers : result[w] = NoFd /\ held[w] = 0
  BY DEF Init, Q!Init
<1>6. ~Before(Main)
  BY DEF Init, Q!Init, Q!Threads, Before
<1>7. Placed
  BY <1>4, <1>5, <1>6 DEF Init, Placed, OneEach, AllOpen, Exclusive, Covered
<1>8. Counts
  BY <1>5 DEF Init, ClientInit, Counts
<1> QED
  BY <1>1, <1>2, <1>3, <1>7, <1>8 DEF IInv

-----------------------------------------------------------------------------
(* Steps of the queue *)

\* Nothing is put in or taken.
LEMMA QuietKeepsPlaces ==
  ASSUME IInv, UNCHANGED QP!ring, UNCHANGED <<arg, result, sock>>,
         \A t \in Workers \cup {Main} : Before(t)' <=> Before(t)
  PROVE  Placed'
<1>1. Queued' = Queued
  BY QueueConstants, QP!ContentsUnchanged DEF Queued
<1> QED
  BY <1>1 DEF IInv, Placed, OneEach, AllOpen, Exclusive, Covered

\* Main stores its descriptor behind those that are queued.
LEMMA StoreKeepsPlaces ==
  ASSUME IInv, QP!CoreInv', QP!PushStore(Main), UNCHANGED sock
  PROVE  Placed'
<1> DEFINE n == Len(Queued)
<1>1. QP!CoreInv
  BY DEF IInv
<1>2. Queued' = Append(Queued, arg[Main])
  BY <1>1, QueueConstants, QP!StoreAppends DEF Queued
<1>3. Queued \in Seq(Fd) /\ n \in Nat /\ arg[Main] \in Fd
  BY <1>1, QueueFacts DEF QP!PushStore
<1>4. Len(Queued') = n + 1 /\ Queued'[n + 1] = arg[Main]
      /\ \A k \in 1 .. n : Queued'[k] = Queued[k]
  BY <1>2, <1>3
<1>5. Before(Main) /\ ~Before(Main)' /\ \A w \in Workers : Before(w)' <=> Before(w)
  BY <1>1, QueueFacts, PoolAssumption DEF QP!PushStore, Before
<1>6. result' = result /\ sock' = sock
  BY DEF QP!PushStore
<1> HIDE DEF n
<1>7. OneEach' /\ AllOpen'
  BY <1>3, <1>4, <1>5, <1>6 DEF IInv, Placed, OneEach, AllOpen, n
<1>8. Exclusive'
  BY <1>3, <1>4, <1>5, <1>6 DEF IInv, Placed, Exclusive, n
<1>9. Covered'
  BY <1>3, <1>4, <1>5, <1>6 DEF IInv, Placed, Covered, n
<1> QED
  BY <1>7, <1>8, <1>9 DEF Placed

\* A worker takes the oldest one.
LEMMA TakeKeepsPlaces ==
  ASSUME IInv, QP!CoreInv', NEW w \in Workers, QP!PopTake(w), UNCHANGED sock
  PROVE  Placed'
<1> DEFINE n == Len(Queued)
<1>1. QP!CoreInv
  BY DEF IInv
<1>2. Queued # <<>> /\ Queued' = Tail(Queued) /\ fd[front] = Head(Queued)
  BY <1>1, QueueConstants, QP!TakeRemovesHead DEF Queued
<1>3. Queued \in Seq(Fd) /\ n \in Nat \ {0}
  BY <1>1, <1>2, QueueFacts
<1>4. Len(Queued') = n - 1 /\ \A k \in 1 .. n - 1 : Queued'[k] = Queued[k + 1]
  BY <1>2, <1>3
<1>5. result' = [result EXCEPT ![w] = Queued[1]] /\ Queued[1] \in Fd
  BY <1>2, <1>3 DEF QP!PopTake
<1>6. Before(w) /\ ~Before(w)'
      /\ \A t \in (Workers \cup {Main}) \ {w} : Before(t)' <=> Before(t)
  BY <1>1, QueueFacts, PoolAssumption DEF QP!PopTake, Before
<1>7. arg' = arg /\ sock' = sock /\ Main # w
  BY PoolAssumption DEF QP!PopTake
<1>8. result[w] = NoFd /\ result'[w] = Queued[1]
      /\ \A v \in Workers \ {w} : result'[v] = result[v]
  BY <1>1, <1>5, <1>6, QueueFacts DEF IInv, Placed, OneEach
<1> HIDE DEF n
<1> USE <1>3, <1>4, <1>5, <1>6, <1>7, <1>8 DEF IInv, Placed, n
<1>9. OneEach' /\ AllOpen'
  BY DEF OneEach, AllOpen
<1>10. Exclusive'
  BY PoolAssumption DEF Exclusive
<1>11. Covered'
  <2> SUFFICES ASSUME NEW f \in Fd, sock[f] # NoConn,
                      ~(Before(Main) /\ arg[Main] = f), \A v \in Workers : result'[v] # f
               PROVE  \E k \in 1 .. n - 1 : Queued'[k] = f
    BY DEF Covered
  <2>1. \A v \in Workers : result[v] # f
    BY PoolAssumption
  <2>2. PICK k \in 1 .. n : Queued[k] = f
    BY <2>1 DEF Covered
  <2>3. k - 1 \in 1 .. n - 1 /\ Queued'[k - 1] = f
    BY <2>2
  <2> QED
    BY <2>3
<1> QED
  BY <1>9, <1>10, <1>11 DEF Placed

\* A thread inside the queue moves; the workers outside keep what they have.
InsideQueue ==
    \/ QP!PushStep(Main)
    \/ \E w \in Workers : QP!PopStep(w)
    \/ \E t \in Workers \cup {Main} : QP!Lock(t) \/ QP!Unlock(t) \/ QP!SpuriousWake(t)

LEMMA InsideKeepsPlaces ==
  ASSUME IInv, QP!CoreInv', InsideQueue, UNCHANGED connVars
  PROVE  /\ Placed'
         /\ \A w \in Workers : pc[w] = "idle" => pc'[w] = "idle" /\ result'[w] = result[w]
<1>0. sock' = sock
  BY DEF connVars
<1>1. QP!CoreInv
  BY DEF IInv
<1>2. pc \in [Workers \cup {Main} -> QP!Places] /\ result \in [Workers -> Fd \cup {NoFd}]
  BY <1>1, QueueFacts
<1>3. ASSUME NEW t \in Workers \cup {Main}, pc[t] = "test", QP!CondWait(t)
      PROVE  /\ UNCHANGED QP!ring /\ UNCHANGED <<arg, result>>
             /\ \A u \in Workers \cup {Main} : Before(u)' <=> Before(u)
             /\ \A u \in Workers \cup {Main} : pc[u] = "idle" => pc'[u] = "idle"
  BY <1>2, <1>3 DEF QP!CondWait, Before
<1>4. ASSUME NEW t \in Workers \cup {Main}, NEW S \in SUBSET (Workers \cup {Main}),
             QP!CondSignal(t, S)
      PROVE  /\ UNCHANGED QP!ring /\ UNCHANGED <<arg, result>>
             /\ \A u \in Workers \cup {Main} : Before(u)' <=> Before(u)
             /\ \A u \in Workers \cup {Main} : pc[u] = "idle" => pc'[u] = "idle"
  BY <1>2, <1>4 DEF QP!CondSignal, QP!Waiting, Before
<1>5. CASE QP!PushStore(Main)
  <2>1. \A w \in Workers : pc'[w] = pc[w] /\ result'[w] = result[w]
    BY <1>2, <1>5, PoolAssumption DEF QP!PushStore
  <2> QED
    BY <1>0, <1>5, <2>1, StoreKeepsPlaces
<1>6. ASSUME NEW w \in Workers, QP!PopTake(w)
      PROVE  /\ Placed'
             /\ \A v \in Workers : pc[v] = "idle" => pc'[v] = "idle" /\ result'[v] = result[v]
  <2>1. \A v \in Workers : pc[v] = "idle" => pc'[v] = pc[v] /\ result'[v] = result[v]
    BY <1>2, <1>6 DEF QP!PopTake
  <2> QED
    BY <1>0, <1>6, <2>1, TakeKeepsPlaces
<1>7. CASE QP!PushStep(Main)
  BY <1>0, <1>3, <1>4, <1>5, <1>7, QuietKeepsPlaces DEF QP!PushStep, QP!PushWait, QP!PushSignal
<1>8. ASSUME NEW w \in Workers, QP!PopStep(w)
      PROVE  /\ Placed'
             /\ \A v \in Workers : pc[v] = "idle" => pc'[v] = "idle" /\ result'[v] = result[v]
  BY <1>0, <1>3, <1>4, <1>6, <1>8, QuietKeepsPlaces DEF QP!PopStep, QP!PopWait, QP!PopSignal
<1>9. ASSUME NEW t \in Workers \cup {Main}, QP!Lock(t) \/ QP!Unlock(t) \/ QP!SpuriousWake(t)
      PROVE  /\ Placed'
             /\ \A v \in Workers : pc[v] = "idle" => pc'[v] = "idle" /\ result'[v] = result[v]
  <2>1. /\ UNCHANGED QP!ring /\ UNCHANGED <<arg, result>>
        /\ \A u \in Workers \cup {Main} : Before(u)' <=> Before(u)
        /\ \A u \in Workers \cup {Main} : pc[u] = "idle" => pc'[u] = "idle"
    BY <1>2, <1>9 DEF QP!Lock, QP!Unlock, QP!SpuriousWake, Before
  <2>2. UNCHANGED <<arg, result, sock>>
    BY <1>0, <2>1
  <2>3. Placed'
    BY <2>1, <2>2, QuietKeepsPlaces, Zenon
  <2> QED
    BY <2>1, <2>3
<1>10. CASE \E w \in Workers : QP!PopStep(w)
  BY <1>8, <1>10
<1>11. CASE \E t \in Workers \cup {Main} : QP!Lock(t) \/ QP!Unlock(t) \/ QP!SpuriousWake(t)
  BY <1>9, <1>11
<1> QED
  BY <1>7, <1>10, <1>11, Zenon DEF InsideQueue

LEMMA InsideKeeps ==
  ASSUME IInv, QP!CoreInv', InsideQueue, UNCHANGED connVars
  PROVE  IInv'
<1> USE DEF connVars, clientVars
<1>1. exited' \in BOOLEAN
  BY Zenon DEF IInv
<1>2. Shapes' /\ Sockets'
  BY DEF IInv, Shapes, ClientTypeOK, Sockets
<1>3. \A w \in Workers : held[w] > 0 => Serving(w) /\ Serving(w)' /\ Served(w)' = Served(w)
  BY InsideKeepsPlaces DEF IInv, Counts, Serving, Served
<1>4. Counts'
  BY <1>3 DEF IInv, Counts
<1> QED
  BY <1>1, <1>2, <1>4, InsideKeepsPlaces DEF IInv

-----------------------------------------------------------------------------
(* Steps on the connections *)

\* The connection that a worker serves.
LEMMA ServedIsOpen ==
  ASSUME IInv, NEW w \in Workers, Serving(w)
  PROVE  /\ result[w] \in Fd /\ Served(w) = sock[result[w]]
         /\ Served(w) \in Conn /\ stage[Served(w)] = "open"
         /\ \A v \in Workers : Serving(v) /\ Served(v) = Served(w) => v = w
<1>1. result \in [Workers -> Fd \cup {NoFd}]
  BY QueueFacts DEF IInv
<1>2. \A v \in Workers : Serving(v) => result[v] \in Fd /\ sock[result[v]] # NoConn
  BY <1>1 DEF IInv, Placed, AllOpen, Serving
<1>3. \A v \in Workers : Serving(v) /\ result[v] = result[w] => v = w
  BY DEF IInv, Placed, Exclusive, Serving
<1> QED
  BY <1>2, <1>3 DEF IInv, Shapes, Sockets, Served

\* What clients do.
LEMMA ClientKeeps ==
  ASSUME IInv, QP!CoreInv', NEW c \in Conn, Client(c)
  PROVE  IInv'
<1> USE ClientAssumption
<1>1. ClientStep(c) /\ UNCHANGED queueVars /\ UNCHANGED <<sock, held, exited>>
  BY Zenon DEF Client, Others
<1>2. exited' \in BOOLEAN
  BY <1>1, Zenon DEF IInv
<1>3. Placed'
  <2>1. UNCHANGED QP!ring /\ UNCHANGED <<arg, result, sock>> /\ UNCHANGED pc
    BY <1>1 DEF queueVars, QP!ring
  <2> QED
    BY <2>1, QuietKeepsPlaces DEF Before
<1>4. \A w \in Workers : (Serving(w)' <=> Serving(w)) /\ Served(w)' = Served(w)
  BY <1>1 DEF queueVars, Serving, Served
<1>5. Sockets'
  BY <1>1, PoolAssumption
  DEF ClientStep, Connect, Send, Fin, Reset, IInv, Shapes, ClientTypeOK, Sockets
<1>6. \A w \in Workers : held[w] > 0 => Served(w) \in Conn /\ stage[Served(w)] = "open"
  BY ServedIsOpen DEF IInv, Counts
<1>7. Shapes' /\ Counts'
  <2> USE <1>1, <1>4, <1>6 DEF IInv, Shapes, ClientTypeOK, Counts
  <2>1. CASE Connect(c)
    BY <2>1 DEF Connect
  <2>2. CASE Send(c)
    <3>1. Shapes'
      BY <2>2 DEF Send, Exists
    <3>2. /\ unread'[c] = unread[c] + 1 /\ sent'[c] = sent[c] + 1
          /\ \A d \in Conn \ {c} : unread'[d] = unread[d] /\ sent'[d] = sent[d]
          /\ \A d \in Conn : unread[d] \in Nat /\ sent[d] \in Nat /\ echoed[d] \in Nat
          /\ echoed' = echoed /\ held' = held
          /\ \A w \in Workers : held[w] \in Nat
      BY <2>2 DEF Send
    <3>3. \A w \in Workers : held[w] > 0 =>
            Serving(w)' /\ unread'[Served(w)] + echoed[Served(w)] + held[w] = sent'[Served(w)]
      BY <3>2
    <3>4. \A d \in Conn : unread'[d] + echoed[d] <= sent'[d]
      BY <3>2
    <3>5. \A d \in Conn : unread'[d] + echoed[d] = sent'[d]
                          \/ \E w \in Workers : held[w] > 0 /\ Served(w) = d
      BY <3>2
    <3>6. Counts'
      BY <3>2, <3>3, <3>4, <3>5
    <3> QED
      BY <3>1, <3>6
  <2>3. CASE Fin(c) \/ Reset(c)
    BY <2>3 DEF Fin, Reset
  <2> QED
    BY <1>1, <2>1, <2>2, <2>3, Zenon DEF ClientStep
<1> QED
  BY <1>2, <1>3, <1>5, <1>7 DEF IInv

\* The push of a descriptor that nobody had.
LEMMA AcceptKeeps ==
  ASSUME IInv, QP!CoreInv', NEW c \in Conn, NEW f \in Fd, Accept(c, f)
  PROVE  IInv'
<1> USE PoolAssumption
<1>1. QP!CoreInv /\ QP!PushCall(Main, f)
  BY MainSteps DEF Accept, IInv
<1>2. Queued' = Queued
  <2>1. UNCHANGED QP!ring
    BY <1>1 DEF QP!PushCall
  <2> QED
    BY <2>1, QueueConstants, QP!ContentsUnchanged DEF Queued
<1>3. /\ result' = result /\ arg'[Main] = f /\ Before(Main)' /\ ~Before(Main)
      /\ \A w \in Workers : pc'[w] = pc[w]
  BY <1>1, QueueFacts DEF QP!PushCall, Before
<1>4. sock[f] = NoConn /\ sock' = [sock EXCEPT ![f] = c] /\ held' = held
      /\ stage[c] = "backlog" /\ stage' = [stage EXCEPT ![c] = "open"]
      /\ UNCHANGED <<peer, sent, unread, echoed>>
  BY DEF Accept, Accepted, Backlog
<1>5. exited' \in BOOLEAN
  BY Zenon DEF Accept, IInv
<1>6. Shapes'
  BY <1>4 DEF IInv, Shapes, ClientTypeOK
<1>7. Sockets'
  BY <1>4 DEF IInv, Shapes, ClientTypeOK, Sockets
<1>8. sock'[f] = c /\ \A g \in Fd \ {f} : sock'[g] = sock[g]
  BY <1>4 DEF IInv, Shapes
<1>9. /\ \A k \in 1 .. Len(Queued) : Queued[k] \in Fd \ {f}
      /\ \A w \in Workers : result[w] # f /\ (result[w] # NoFd => result[w] \in Fd \ {f})
  BY <1>1, <1>4, QueueFacts DEF IInv, Placed, AllOpen
<1>10. Placed'
  <2> USE <1>2, <1>3, <1>8, <1>9 DEF IInv, Placed
  <2>1. OneEach'
    BY DEF OneEach, Before
  <2>2. AllOpen'
    BY DEF AllOpen
  <2>3. Exclusive'
    BY DEF Exclusive
  <2>4. Covered'
    BY DEF Covered
  <2> QED
    BY <2>1, <2>2, <2>3, <2>4
<1>11. \A w \in Workers : held[w] > 0 => Serving(w) /\ Serving(w)' /\ Served(w)' = Served(w)
                                         /\ Served(w) \in Conn
  BY <1>3, <1>8, <1>9, ServedIsOpen DEF IInv, Counts, Serving, Served
<1>12. Counts'
  BY <1>4, <1>11 DEF IInv, Shapes, ClientTypeOK, Counts
<1> QED
  BY <1>5, <1>6, <1>7, <1>10, <1>12 DEF IInv

\* connection_loop: read and write.
LEMMA EchoKeeps ==
  ASSUME IInv, QP!CoreInv', NEW w \in Workers, Read(w) \/ Write(w)
  PROVE  IInv'
<1> USE ClientAssumption
<1>1. Serving(w) /\ UNCHANGED queueVars /\ sock' = sock /\ stage' = stage /\ sent' = sent
  BY DEF Read, Write, Received, Replied
<1>2. exited' \in BOOLEAN
  BY Zenon DEF Read, Write, IInv
<1>3. Placed'
  <2>1. UNCHANGED QP!ring /\ UNCHANGED <<arg, result, sock>> /\ UNCHANGED pc
    BY <1>1 DEF queueVars, QP!ring
  <2> QED
    BY <2>1, QuietKeepsPlaces DEF Before
<1>4. \A v \in Workers : (Serving(v)' <=> Serving(v)) /\ Served(v)' = Served(v)
  BY <1>1 DEF queueVars, Serving, Served
<1>5. Sockets'
  BY <1>1 DEF IInv, Sockets
<1>6. /\ Served(w) \in Conn /\ stage[Served(w)] = "open"
      /\ \A v \in Workers : held[v] > 0 => Serving(v) /\ Served(v) \in Conn
      /\ \A v \in Workers : held[v] > 0 /\ Served(v) = Served(w) => v = w
  BY <1>1, ServedIsOpen DEF IInv, Counts
<1>7. Shapes' /\ Counts'
  <2> USE <1>1, <1>4, <1>6 DEF IInv, Shapes, ClientTypeOK, Counts
  <2>1. CASE Read(w)
    <3>1. unread[Served(w)] + echoed[Served(w)] = sent[Served(w)]
      BY <2>1 DEF Read
    <3> QED
      BY <2>1, <3>1 DEF Read, Received
  <2>2. CASE Write(w)
    BY <2>2 DEF Write, Replied
  <2> QED
    BY <2>1, <2>2
<1> QED
  BY <1>2, <1>3, <1>5, <1>7 DEF IInv

\* close, and back into pop.
LEMMA CloseKeeps ==
  ASSUME IInv, QP!CoreInv', NEW w \in Workers, CloseAtEof(w)
  PROVE  IInv'
<1> DEFINE f == result[w]
           c == Served(w)
<1> USE PoolAssumption
<1>1. /\ Serving(w) /\ held[w] = 0 /\ unread[c] = 0
      /\ f \in Fd /\ sock[f] = c /\ c \in Conn /\ stage[c] = "open"
      /\ \A v \in Workers : Serving(v) /\ Served(v) = c => v = w
  BY ServedIsOpen DEF CloseAtEof, AtEof
<1>2. stage' = [stage EXCEPT ![c] = "closed"] /\ sock' = [sock EXCEPT ![f] = NoConn]
      /\ UNCHANGED <<peer, sent, unread, echoed, held>>
  BY DEF CloseAtEof, Closed
<1>3. QP!CoreInv /\ QP!PopCall(w)
  BY WorkerSteps DEF CloseAtEof, IInv
<1>4. Queued' = Queued
  <2>1. UNCHANGED QP!ring
    BY <1>3 DEF QP!PopCall
  <2> QED
    BY <2>1, QueueConstants, QP!ContentsUnchanged DEF Queued
<1>5. /\ arg' = arg /\ result'[w] = NoFd
      /\ \A v \in Workers \ {w} : result'[v] = result[v]
      /\ \A t \in (Workers \cup {Main}) \ {w} : pc'[t] = pc[t]
      /\ Main # w
  BY <1>3, QueueFacts DEF QP!PopCall
<1>6. exited' \in BOOLEAN
  BY Zenon DEF CloseAtEof, IInv
<1>7. sock'[f] = NoConn /\ \A g \in Fd \ {f} : sock'[g] = sock[g]
  BY <1>1, <1>2 DEF IInv, Shapes
<1>8. /\ \A k \in 1 .. Len(Queued) : Queued[k] \in Fd \ {f}
      /\ \A v \in Workers \ {w} : result[v] # f /\ (result[v] # NoFd => result[v] \in Fd \ {f})
      /\ Before(Main) => arg[Main] \in Fd \ {f}
  <2>1. \A k \in 1 .. Len(Queued) : Queued[k] \in Fd
    BY <1>3, QueueFacts
  <2>2. \A v \in Workers : result[v] # NoFd => result[v] \in Fd
    BY <1>3, QueueFacts
  <2>3. Before(Main) => arg[Main] \in Fd
    BY <1>3, QueueFacts DEF Before
  <2> QED
    BY <1>1, <2>1, <2>2, <2>3 DEF IInv, Placed, Exclusive
<1> HIDE DEF f, c
<1>9. Shapes'
  BY <1>1, <1>2 DEF IInv, Shapes, ClientTypeOK
<1>10. Sockets'
  <2>1. \A g \in Fd \ {f} : sock[g] # c
    BY <1>1 DEF IInv, Sockets
  <2> QED
    BY <1>1, <1>2, <1>7, <2>1 DEF IInv, Shapes, ClientTypeOK, Sockets
<1>11. Placed'
  <2> USE <1>4, <1>5, <1>7, <1>8 DEF IInv, Placed
  <2>1. OneEach'
    BY DEF OneEach, Before
  <2>2. AllOpen'
    BY DEF AllOpen, Before
  <2>3. Exclusive'
    BY DEF Exclusive, Before
  <2>4. Covered'
    BY DEF Covered, Before, f
  <2> QED
    BY <2>1, <2>2, <2>3, <2>4
<1>12. \A v \in Workers : held[v] > 0 => Serving(v) /\ Serving(v)' /\ Served(v)' = Served(v)
                                         /\ Served(v) \in Conn /\ Served(v) # c
  <2> SUFFICES ASSUME NEW v \in Workers, held[v] > 0
               PROVE  Serving(v) /\ Serving(v)' /\ Served(v)' = Served(v)
                      /\ Served(v) \in Conn /\ Served(v) # c
    OBVIOUS
  <2>1. v # w /\ Serving(v)
    BY <1>1 DEF IInv, Counts
  <2>2. Served(v) \in Conn /\ Served(v) # c
    BY <1>1, <2>1, ServedIsOpen
  <2> QED
    BY <1>5, <1>7, <1>8, <2>1, <2>2 DEF Serving, Served
<1>13. Counts'
  BY <1>1, <1>2, <1>12 DEF IInv, Shapes, ClientTypeOK, Counts
<1> QED
  BY <1>6, <1>9, <1>10, <1>11, <1>13 DEF IInv

\* The first pop of a worker, which had nothing.
LEMMA FirstPopKeeps ==
  ASSUME IInv, QP!CoreInv', NEW w \in Workers, FirstPop(w)
  PROVE  IInv'
<1> USE PoolAssumption DEF connVars, clientVars
<1>1. QP!CoreInv /\ QP!PopCall(w) /\ result[w] = NoFd /\ UNCHANGED connVars
  BY WorkerSteps DEF FirstPop, IInv
<1>2. Queued' = Queued
  <2>1. UNCHANGED QP!ring
    BY <1>1 DEF QP!PopCall
  <2> QED
    BY <2>1, QueueConstants, QP!ContentsUnchanged DEF Queued
<1>3. /\ arg' = arg /\ result' = result
      /\ \A t \in (Workers \cup {Main}) \ {w} : pc'[t] = pc[t]
      /\ Before(Main)' <=> Before(Main)
  BY <1>1, QueueFacts DEF QP!PopCall, Before
<1>4. Placed'
  BY <1>1, <1>2, <1>3 DEF IInv, Placed, OneEach, AllOpen, Exclusive, Covered, Before
<1>5. exited' \in BOOLEAN
  BY <1>1, Zenon DEF IInv
<1>6. \A v \in Workers : held[v] > 0 => Serving(v) /\ Serving(v)' /\ Served(v)' = Served(v)
  BY <1>1, <1>3 DEF IInv, Counts, Serving, Served
<1>7. Shapes' /\ Sockets' /\ Counts'
  BY <1>1, <1>6 DEF IInv, Shapes, ClientTypeOK, Sockets, Counts
<1> QED
  BY <1>4, <1>5, <1>7 DEF IInv

\* The end of the process, and steps that change nothing.
LEMMA StillKeeps ==
  ASSUME IInv, QP!CoreInv', UNCHANGED <<queueVars, clientVars, sock, held>>, exited' \in BOOLEAN
  PROVE  IInv'
<1>1. UNCHANGED QP!ring /\ UNCHANGED <<arg, result, sock>> /\ UNCHANGED <<pc, held>>
      /\ UNCHANGED clientVars
  BY DEF queueVars, QP!ring
<1>2. Placed'
  BY <1>1, QuietKeepsPlaces DEF Before
<1>3. Shapes' /\ Sockets' /\ Counts'
  BY <1>1 DEF clientVars, IInv, Shapes, ClientTypeOK, Sockets, Counts, Serving, Served
<1> QED
  BY <1>2, <1>3 DEF IInv

LEMMA Invariant == Spec => []IInv
<1>1. IInv /\ [Next]_vars => IInv'
  <2> SUFFICES ASSUME IInv, [Next]_vars PROVE IInv'
    OBVIOUS
  <2>1. QP!CoreInv'
    BY UsesQueue, QueueConstants, QP!CoreStep DEF IInv
  <2>2. CASE MainStep
    <3>1. CASE \E c \in Conn, f \in Fd : Accept(c, f)
      BY <2>1, <3>1, AcceptKeeps
    <3>2. CASE Q!PushStep(Main) /\ UNCHANGED connVars
      BY <2>1, <3>2, MainSteps, InsideKeeps DEF InsideQueue
    <3>3. CASE (Q!Lock(Main) \/ Q!Unlock(Main)) /\ UNCHANGED connVars
      <4>1. InsideQueue
        BY <3>3, ThreadSteps DEF InsideQueue
      <4> QED
        BY <2>1, <3>3, <4>1, InsideKeeps
    <3> QED
      BY <2>2, <3>1, <3>2, <3>3 DEF MainStep
  <2>3. ASSUME NEW w \in Workers, WorkerStep(w) PROVE IInv'
    <3>1. CASE Q!PopStep(w) /\ UNCHANGED connVars
      BY <2>1, <3>1, WorkerSteps, InsideKeeps DEF InsideQueue
    <3>2. CASE (Q!Lock(w) \/ Q!Unlock(w)) /\ UNCHANGED connVars
      <4>1. InsideQueue
        BY <3>2, ThreadSteps DEF InsideQueue
      <4> QED
        BY <2>1, <3>2, <4>1, InsideKeeps
    <3>3. CASE Die(w)
      <4>1. exited' \in BOOLEAN /\ UNCHANGED <<queueVars, clientVars, sock, held>>
        BY <3>3, Zenon DEF Die
      <4> QED
        BY <2>1, <4>1, StillKeeps
    <3> QED
      BY <2>1, <2>3, <3>1, <3>2, <3>3, FirstPopKeeps, EchoKeeps, CloseKeeps DEF WorkerStep
  <2>4. ASSUME NEW c \in Conn, Client(c) PROVE IInv'
    BY <2>1, <2>4, ClientKeeps
  <2>5. CASE Spurious
    <3>1. InsideQueue /\ UNCHANGED connVars
      BY <2>5, ThreadSteps DEF Spurious, InsideQueue
    <3> QED
      BY <2>1, <3>1, InsideKeeps
  <2>6. CASE UNCHANGED vars
    <3>1. exited' \in BOOLEAN
      BY <2>6, Zenon DEF vars, connVars, IInv
    <3>2. UNCHANGED <<queueVars, clientVars, sock, held>>
      BY <2>6 DEF vars, connVars
    <3> QED
      BY <2>1, <3>1, <3>2, StillKeeps
  <2> QED
    BY <2>2, <2>3, <2>4, <2>5, <2>6, Zenon DEF Next
<1> QED
  BY InitHolds, <1>1, PTL DEF Spec

-----------------------------------------------------------------------------
(* Theorems *)

LEMMA TypesHold == IInv => TypeOK
<1> SUFFICES ASSUME IInv PROVE TypeOK
  OBVIOUS
<1>1. Q!TypeOK
  BY DEF IInv, QP!CoreInv, QP!TypeOK, Q!TypeOK, Q!Threads, QP!Threads, Q!Places, QP!Places
<1>2. ClientTypeOK /\ sock \in [Fd -> Conn \cup {NoConn}] /\ held \in [Workers -> 0 .. MaxSent]
  BY DEF IInv, Shapes
<1>3. exited \in BOOLEAN
  BY Zenon DEF IInv
<1> QED
  BY <1>1, <1>2, <1>3, Zenon DEF TypeOK

\* The hands of the property, in the terms of the invariant.
LEMMA HandsAre ==
  ASSUME IInv, NEW f \in Fd
  PROVE  Hands(f) = (IF Before(Main) /\ arg[Main] = f THEN {<<Main>>} ELSE {})
                    \cup {<<k>> : k \in {k \in 1 .. Len(Queued) : Queued[k] = f}}
                    \cup {<<w>> : w \in {w \in Workers : result[w] = f}}
<1>1. Q!Contents = Queued
  BY DEF Q!Contents, QP!Contents, Q!Slot, QP!Slot, Queued
<1>2. Len(Queued) = used
  BY QueueFacts DEF IInv
<1> QED
  BY <1>1, <1>2 DEF Hands, Before

\* Whatever main and the workers do at once: an open descriptor is with main,
\* in one slot, or with one worker, and a closed one nowhere.
THEOREM EachInOneHand == Spec => []OneHand
<1>1. IInv => OneHand
  <2> SUFFICES ASSUME IInv, NEW f \in Fd
               PROVE  Cardinality(Hands(f)) = IF sock[f] = NoConn THEN 0 ELSE 1
    BY TypesHold DEF OneHand
  <2> USE PoolAssumption DEF IInv, Placed
  <2>1. CASE sock[f] = NoConn
    <3>1. Hands(f) = {}
      BY <2>1, HandsAre DEF AllOpen
    <3> QED
      BY <2>1, <3>1, FS_EmptySet
  <2>2. CASE sock[f] # NoConn
    <3>1. \E x : Hands(f) = {x}
      <4>1. CASE Before(Main) /\ arg[Main] = f
        <5>1. Hands(f) = {<<Main>>}
          BY <4>1, HandsAre DEF Exclusive
        <5> QED
          BY <5>1
      <4>2. ASSUME NEW k \in 1 .. Len(Queued), Queued[k] = f
            PROVE  Hands(f) = {<<k>>}
        BY <4>2, HandsAre DEF Exclusive
      <4>3. ASSUME NEW w \in Workers, result[w] = f
            PROVE  Hands(f) = {<<w>>}
        BY <4>3, HandsAre DEF Exclusive
      <4> QED
        BY <2>2, <4>1, <4>2, <4>3 DEF Covered
    <3> QED
      BY <2>2, <3>1, FS_Singleton
  <2> QED
    BY <2>1, <2>2
<1> QED
  BY <1>1, Invariant, PTL

\* The steps of the workers that clients see.
LEMMA EchoIsEcho ==
  ASSUME IInv, NEW w \in Workers, Write(w)
  PROVE  Service!Echo(Served(w))
<1> DEFINE c == Served(w)
           n == held[w]
<1>1. Serving(w) /\ n > 0 /\ Replied(c, n) /\ unread[c] + echoed[c] + n = sent[c]
  BY DEF Write, IInv, Counts
<1>2. c \in Conn /\ stage[c] = "open"
  BY <1>1, ServedIsOpen
<1> HIDE DEF c
<1>3. n \in 1 .. sent[c] - echoed[c]
  BY <1>1, <1>2 DEF IInv, Shapes, ClientTypeOK
<1> HIDE DEF n
<1>4. Service!Echo(c)
  BY <1>1, <1>2, <1>3 DEF Replied, Service!Echo
<1> QED
  BY <1>4 DEF c

LEMMA CloseIsClose ==
  ASSUME IInv, NEW w \in Workers, CloseAtEof(w)
  PROVE  Service!Close(Served(w))
<1> DEFINE c == Served(w)
<1>1. Serving(w) /\ held[w] = 0 /\ peer[c] = "fin" /\ unread[c] = 0 /\ Closed(c)
  BY DEF CloseAtEof, AtEof
<1>2. c \in Conn /\ stage[c] = "open" /\ \A v \in Workers : Serving(v) /\ Served(v) = c => v = w
  BY <1>1, ServedIsOpen
<1>3. unread[c] + echoed[c] = sent[c]
  BY <1>1, <1>2 DEF IInv, Counts
<1> HIDE DEF c
<1>4. echoed[c] = sent[c]
  BY <1>1, <1>2, <1>3 DEF IInv, Shapes, ClientTypeOK
<1>5. Service!Close(c)
  BY <1>1, <1>2, <1>4 DEF Closed, Service!Close, Service!Moves
<1> QED
  BY <1>5 DEF c

LEMMA ClientIsClient ==
  ASSUME NEW c \in Conn, ClientStep(c)
  PROVE  Service!Connect(c) \/ Service!Send(c) \/ Service!End(c)
  BY DEF ClientStep, Connect, Send, Fin, Reset, Exists,
         Service!Connect, Service!Moves, Service!Send, Service!End

LEMMA ServiceStep == IInv /\ [Next]_vars => [Service!Next]_(Service!serviceVars)
<1> SUFFICES ASSUME IInv, [Next]_vars PROVE [Service!Next]_(Service!serviceVars)
  OBVIOUS
<1>1. ASSUME UNCHANGED clientVars PROVE UNCHANGED Service!serviceVars
  BY <1>1 DEF clientVars, Service!serviceVars
<1>2. ASSUME NEW c \in Conn, NEW f \in Fd, Accept(c, f) PROVE Service!Accept(c)
  BY <1>2 DEF Accept, Accepted, Backlog, Service!Accept, Service!Moves
<1>3. CASE MainStep
  BY <1>1, <1>2, <1>3 DEF MainStep, connVars, Service!Next
<1>4. ASSUME NEW w \in Workers, WorkerStep(w) PROVE [Service!Next]_(Service!serviceVars)
  <2>1. CASE Read(w)
    BY <2>1 DEF Read, Received, Service!serviceVars
  <2>2. CASE Write(w)
    BY <2>2, EchoIsEcho, ServedIsOpen DEF Write, Service!Next
  <2>3. CASE CloseAtEof(w)
    BY <2>3, CloseIsClose, ServedIsOpen DEF CloseAtEof, Service!Next
  <2>4. CASE Die(w)
    BY <2>4, <1>1 DEF Die
  <2>5. CASE UNCHANGED connVars
    BY <2>5, <1>1 DEF connVars
  <2> QED
    BY <1>4, <2>1, <2>2, <2>3, <2>4, <2>5 DEF WorkerStep, FirstPop
<1>5. ASSUME NEW c \in Conn, Client(c) PROVE Service!Next
  BY <1>5, ClientIsClient DEF Client, Service!Next
<1>6. CASE Spurious \/ UNCHANGED vars
  BY <1>6, <1>1 DEF Spurious, connVars, vars
<1> QED
  BY <1>3, <1>4, <1>5, <1>6 DEF Next

\* Behind the queue and the pool clients have an echo service: a worker closes a
\* connection only after it has echoed all of it, and no other worker has a part
\* of it in its buffer.
THEOREM PoolImplementsService == Spec => ImplementsService
<1>1. Init => Service!Init
  BY DEF Init, ClientInit, Service!Init
<1> QED
  BY <1>1, Invariant, ServiceStep, PTL DEF Spec, ImplementsService, Service!Spec
================================================================================
