--------------------------- MODULE ThreadServerProofs ---------------------------
(***************************************************************************)
(* A theorem about ThreadServer, for any number of threads, descriptors,   *)
(* connections and chunks: the race for conn_fd is all that is wrong.  If  *)
(* every thread copies conn_fd before the next accept returns, each        *)
(* connection has its own thread.                                          *)
(***************************************************************************)
EXTENDS ThreadServer, TLAPS

\* TypeOK without the two flags.
Shapes ==
    /\ conn_fd \in Fd \cup {NoFd}
    /\ at \in [Thread -> {"none", "starting", "loop", "closing", "done"}]
    /\ own \in [Thread -> Fd \cup {NoFd}]
    /\ held \in [Thread -> 0 .. MaxSent]
    /\ sock \in [Fd -> Conn \cup {NoConn}]
    /\ ClientTypeOK

\* A descriptor is open as long as its connection is, and no two share one.
Sockets ==
    /\ \A f \in Fd : sock[f] # NoConn => stage[sock[f]] = "open"
    /\ \A f, g \in Fd : sock[f] = sock[g] /\ sock[f] # NoConn => f = g

\* A working thread has an open descriptor, which no other one has.
Workers ==
    /\ \A t \in Thread : Working(t) => own[t] \in Fd /\ sock[own[t]] \in Conn
    /\ \A t, u \in Thread : Working(t) /\ Working(u) /\ own[t] = own[u] => t = u

\* From accept to the copy conn_fd is an open descriptor that no thread has.
HandedOver ==
    conn_fd \in Fd /\ sock[conn_fd] # NoConn /\ \A t \in Thread : Working(t) => own[t] # conn_fd

OneStarts ==
    /\ created = FALSE => HandedOver /\ \A t \in Thread : at[t] # "starting"
    /\ \A t \in Thread : at[t] = "starting" => HandedOver
    /\ \A t, u \in Thread : at[t] = "starting" /\ at[u] = "starting" => t = u

\* A chunk is unread, in the buffer of the thread, or echoed.
Counts ==
    /\ \A c \in Conn : unread[c] + echoed[c] <= sent[c]
    /\ \A t \in Thread : at[t] # "loop" => held[t] = 0
    /\ \A t \in Thread : at[t] = "loop" =>
         unread[sock[own[t]]] + echoed[sock[own[t]]] + held[t] <= sent[sock[own[t]]]

IInv ==
    /\ Shapes /\ created \in BOOLEAN /\ exited \in BOOLEAN
    /\ Sockets /\ Workers /\ OneStarts /\ Counts

-----------------------------------------------------------------------------

LEMMA InitHolds == Init => IInv
<1> USE ClientAssumption, ThreadAssumption DEF Init, ClientInit
<1>1. Init => Shapes
  BY DEF Shapes, ClientTypeOK
<1>2. Init => created \in BOOLEAN /\ exited \in BOOLEAN
  BY Zenon
<1>3. Init => Sockets /\ Workers /\ OneStarts /\ Counts
  BY DEF Sockets, Workers, Working, OneStarts, Counts
<1> QED
  BY <1>1, <1>2, <1>3 DEF IInv

\* A working thread is served by its descriptor.
LEMMA ServedIsOpen ==
  ASSUME IInv, NEW t \in Thread, Working(t)
  PROVE  own[t] \in Fd /\ Served(t) = sock[own[t]] /\ Served(t) \in Conn
                       /\ stage[Served(t)] = "open"
  BY ThreadAssumption DEF IInv, Workers, Sockets, Served

\* What clients do.
LEMMA ClientKeeps ==
  ASSUME IInv, NEW c \in Conn, Client(c)
  PROVE  IInv'
<1>1. ClientStep(c) /\ UNCHANGED <<conn_fd, created, exited, at, own, held, sock>>
  BY Zenon DEF Client, Others, mainVars, threadVars
<1>2. created' \in BOOLEAN /\ exited' \in BOOLEAN
  BY <1>1, Zenon DEF IInv
<1>3. Workers' /\ OneStarts'
  BY <1>1 DEF IInv, Workers, OneStarts, Working, HandedOver
<1>4. Sockets'
  BY <1>1, ThreadAssumption
  DEF ClientStep, Connect, Send, Fin, Reset, IInv, Shapes, ClientTypeOK, Sockets
<1>5. Shapes'
  <2> USE <1>1 DEF IInv, Shapes, ClientTypeOK
  <2>1. CASE Connect(c)
    BY <2>1 DEF Connect
  <2>2. CASE Send(c)
    BY <2>2, ClientAssumption DEF Send, Counts
  <2>3. CASE Fin(c) \/ Reset(c)
    BY <2>3 DEF Fin, Reset
  <2> QED
    BY <2>1, <2>2, <2>3 DEF ClientStep
<1>6. Counts'
  <2>1. /\ UNCHANGED echoed
        /\ \A d \in Conn : \/ unread'[d] = unread[d] /\ sent'[d] = sent[d]
                           \/ unread'[d] = unread[d] + 1 /\ sent'[d] = sent[d] + 1
    BY <1>1 DEF ClientStep, Connect, Send, Fin, Reset, IInv, Shapes, ClientTypeOK
  <2>2. \A t \in Thread : at[t] = "loop" => sock[own[t]] \in Conn
    BY DEF IInv, Workers, Working
  <2> QED
    BY <1>1, <2>1, <2>2, ClientAssumption DEF IInv, Counts, Shapes, ClientTypeOK
<1> QED
  BY <1>2, <1>3, <1>4, <1>5, <1>6 DEF IInv

\* accept returns a descriptor that was closed, while no thread is to copy
\* another one.
LEMMA AcceptKeeps ==
  ASSUME Prompt, IInv, NEW c \in Conn, NEW f \in Fd, Accept(c, f)
  PROVE  IInv'
<1>1. /\ sock[f] = NoConn /\ stage[c] = "backlog" /\ sock' = [sock EXCEPT ![f] = c]
      /\ stage' = [stage EXCEPT ![c] = "open"] /\ conn_fd' = f
      /\ UNCHANGED <<at, own, held, exited, peer, sent, unread, echoed>>
      /\ \A t \in Thread : at[t] # "starting"
  BY DEF Accept, Accepted, Backlog, SlotIsFree, threadVars
<1>2. created' = FALSE
  BY Zenon DEF Accept
<1>3. created' \in BOOLEAN /\ exited' \in BOOLEAN
  BY <1>1, <1>2, Zenon DEF IInv
<1>4. Shapes'
  BY <1>1 DEF IInv, Shapes, ClientTypeOK
<1>5. \A t \in Thread : Working(t) => own[t] # f
  BY <1>1, ThreadAssumption DEF IInv, Workers
<1>6. Sockets'
  BY <1>1 DEF IInv, Shapes, ClientTypeOK, Sockets
<1>7. Workers' /\ OneStarts'
  BY <1>1, <1>5, ThreadAssumption DEF IInv, Shapes, Workers, OneStarts, Working, HandedOver
<1>8. Counts'
  BY <1>1, <1>5 DEF IInv, Shapes, Counts, Workers, Working
<1> QED
  BY <1>3, <1>4, <1>6, <1>7, <1>8 DEF IInv

LEMMA MainKeeps ==
  ASSUME Prompt, IInv, AcceptFails \/ \E t \in Thread : Create(t)
  PROVE  IInv'
<1>1. CASE AcceptFails
  <2>1. /\ UNCHANGED <<at, own, held, sock, stage, peer, sent, unread, echoed>> /\ conn_fd' = NoFd
        /\ \A t \in Thread : at[t] # "starting"
    BY <1>1 DEF AcceptFails, SlotIsFree, threadVars, clientVars
  <2>2. created = TRUE /\ created' = created /\ exited' = exited
    BY <1>1, Zenon DEF AcceptFails, IInv
  <2>3. created' \in BOOLEAN /\ exited' \in BOOLEAN
    BY <2>2, Zenon DEF IInv
  <2>4. Shapes' /\ Sockets' /\ Workers' /\ Counts'
    BY <2>1 DEF IInv, Shapes, ClientTypeOK, Sockets, Workers, Working, Counts
  <2>5. OneStarts'
    BY <2>1, <2>2 DEF OneStarts
  <2> QED
    BY <2>3, <2>4, <2>5 DEF IInv
<1>2. ASSUME NEW t \in Thread, Create(t) PROVE IInv'
  <2>1. /\ UNCHANGED <<conn_fd, own, held, sock, stage, peer, sent, unread, echoed>>
        /\ at[t] = "none" /\ at' = [at EXCEPT ![t] = "starting"]
    BY <1>2 DEF Create, clientVars
  <2>2. created = FALSE /\ created' = TRUE /\ exited' = exited
    BY <1>2, Zenon DEF Create, IInv
  <2>3. created' \in BOOLEAN /\ exited' \in BOOLEAN
    BY <2>2, Zenon DEF IInv
  <2>4. Shapes' /\ Sockets' /\ Workers' /\ Counts'
    BY <2>1 DEF IInv, Shapes, ClientTypeOK, Sockets, Workers, Working, Counts
  <2>5. OneStarts'
    BY <2>1, <2>2 DEF IInv, Shapes, OneStarts, HandedOver, Working
  <2> QED
    BY <2>3, <2>4, <2>5 DEF IInv
<1> QED
  BY <1>1, <1>2

\* The thread that has been created takes conn_fd over.
LEMMA StartKeeps ==
  ASSUME IInv, NEW t \in Thread, Start(t)
  PROVE  IInv'
<1>1. /\ at[t] = "starting" /\ at' = [at EXCEPT ![t] = "loop"]
      /\ own' = [own EXCEPT ![t] = conn_fd]
      /\ UNCHANGED <<conn_fd, held, sock, stage, peer, sent, unread, echoed>>
  BY DEF Start, mainVars, clientVars
<1>2. UNCHANGED <<created, exited>>
  BY Zenon DEF Start, mainVars
<1>3. created' \in BOOLEAN /\ exited' \in BOOLEAN
  BY <1>2, Zenon DEF IInv
<1>4. HandedOver /\ created # FALSE /\ \A u \in Thread : at[u] = "starting" => u = t
  BY <1>1 DEF IInv, OneStarts
<1>5. Shapes' /\ Sockets'
  BY <1>1 DEF IInv, Shapes, ClientTypeOK, Sockets
<1>6. Workers'
  BY <1>1, <1>4 DEF IInv, Shapes, Workers, Working, HandedOver
<1>7. OneStarts'
  BY <1>1, <1>2, <1>4 DEF IInv, Shapes, OneStarts
<1>8. Counts'
  <2>1. sock[conn_fd] \in Conn /\ held[t] = 0
    BY <1>1, <1>4 DEF IInv, Shapes, HandedOver, Counts
  <2> QED
    BY <1>1, <2>1 DEF IInv, Shapes, ClientTypeOK, Counts
<1> QED
  BY <1>3, <1>5, <1>6, <1>7, <1>8 DEF IInv

\* Reading and writing: only the counts change, of a connection no other
\* thread has.
LEMMA EchoKeeps ==
  ASSUME IInv, NEW t \in Thread, Read(t) \/ Write(t)
  PROVE  IInv'
<1> DEFINE c == Served(t)
<1>1. Working(t) /\ at[t] = "loop"
  BY DEF Read, Write, InLoop, Working
<1>2. own[t] \in Fd /\ c = sock[own[t]] /\ c \in Conn
  BY <1>1, ServedIsOpen
<1> HIDE DEF c
<1>3. UNCHANGED <<conn_fd, created, exited, at, own, sock, stage, peer, sent>>
  BY Zenon DEF Read, Write, Received, Replied, mainVars
<1>4. created' \in BOOLEAN /\ exited' \in BOOLEAN
  BY <1>3, Zenon DEF IInv
<1>5. Sockets' /\ Workers' /\ OneStarts'
  BY <1>3 DEF IInv, Sockets, Workers, Working, OneStarts, HandedOver
<1>6. \A u \in Thread : at[u] = "loop" /\ u # t => sock[own[u]] \in Conn \ {c}
  BY <1>1, <1>2, ThreadAssumption DEF IInv, Workers, Working, Sockets
<1>7. held[t] \in 0 .. MaxSent /\ held \in [Thread -> 0 .. MaxSent]
  BY DEF IInv, Shapes
<1>8. CASE Read(t)
  <2>1. PICK n \in 1 .. MaxSent :
          /\ held' = [held EXCEPT ![t] = n] /\ n \in 1 .. unread[c]
          /\ unread' = [unread EXCEPT ![c] = @ - n] /\ echoed' = echoed
    BY <1>8, Zenon DEF Read, Received, c
  <2>2. held[t] = 0
    BY <1>8 DEF Read
  <2>3. Shapes'
    BY <1>2, <1>3, <2>1, ClientAssumption DEF IInv, Shapes, ClientTypeOK
  <2>4. Counts'
    BY <1>1, <1>2, <1>3, <1>6, <1>7, <2>1, <2>2, ClientAssumption
    DEF IInv, Shapes, ClientTypeOK, Counts
  <2> QED
    BY <1>4, <1>5, <2>3, <2>4 DEF IInv
<1>9. CASE Write(t)
  <2>1. /\ held' = [held EXCEPT ![t] = 0] /\ unread' = unread
        /\ echoed' = [echoed EXCEPT ![c] = @ + held[t]]
    BY <1>9, Zenon DEF Write, Replied, c
  <2>2. unread[c] + echoed[c] + held[t] <= sent[c]
    BY <1>1, <1>2 DEF IInv, Counts
  <2>3. Shapes'
    BY <1>2, <1>3, <1>7, <2>1, <2>2, ClientAssumption DEF IInv, Shapes, ClientTypeOK
  <2>4. Counts'
    BY <1>1, <1>2, <1>3, <1>6, <1>7, <2>1, <2>2, ClientAssumption
    DEF IInv, Shapes, ClientTypeOK, Counts
  <2> QED
    BY <1>4, <1>5, <2>3, <2>4 DEF IInv
<1> QED
  BY <1>8, <1>9

LEMMA EofKeeps ==
  ASSUME IInv, NEW t \in Thread, Eof(t)
  PROVE  IInv'
<1>1. /\ at[t] = "loop" /\ held[t] = 0 /\ at' = [at EXCEPT ![t] = "closing"]
      /\ UNCHANGED <<conn_fd, own, held, sock, stage, peer, sent, unread, echoed>>
  BY DEF Eof, InLoop, mainVars, clientVars
<1>2. UNCHANGED <<created, exited>>
  BY Zenon DEF Eof, mainVars
<1>3. created' \in BOOLEAN /\ exited' \in BOOLEAN
  BY <1>2, Zenon DEF IInv
<1>4. Shapes' /\ Sockets' /\ Counts'
  BY <1>1 DEF IInv, Shapes, ClientTypeOK, Sockets, Counts
<1>5. Workers' /\ OneStarts'
  BY <1>1, <1>2 DEF IInv, Shapes, Workers, Working, OneStarts, HandedOver
<1> QED
  BY <1>3, <1>4, <1>5 DEF IInv

\* The descriptor that is closed is the thread's own, and nobody else's.
LEMMA CloseKeeps ==
  ASSUME IInv, NEW t \in Thread, Close(t)
  PROVE  IInv'
<1>1. Working(t) /\ at[t] = "closing"
  BY DEF Close, Working
<1>2. own[t] \in Fd /\ Served(t) = sock[own[t]] /\ Served(t) \in Conn
  BY <1>1, ServedIsOpen
<1>3. /\ at' = [at EXCEPT ![t] = "done"] /\ sock' = [sock EXCEPT ![own[t]] = NoConn]
      /\ stage' = [stage EXCEPT ![sock[own[t]]] = "closed"]
      /\ UNCHANGED <<conn_fd, own, held, peer, sent, unread, echoed>>
  BY <1>2, ThreadAssumption DEF Close, Closed, mainVars
<1>4. UNCHANGED <<created, exited>>
  BY Zenon DEF Close, mainVars
<1>5. created' \in BOOLEAN /\ exited' \in BOOLEAN
  BY <1>4, Zenon DEF IInv
<1>6. \A u \in Thread : Working(u) /\ u # t => own[u] # own[t]
  BY <1>1 DEF IInv, Workers
<1>7. Shapes' /\ Sockets'
  BY <1>2, <1>3 DEF IInv, Shapes, ClientTypeOK, Sockets
<1>8. Workers'
  BY <1>2, <1>3, <1>6 DEF IInv, Shapes, Workers, Working
<1>9. OneStarts'
  BY <1>1, <1>2, <1>3, <1>4 DEF IInv, Shapes, OneStarts, HandedOver, Working
<1>10. Counts'
  BY <1>1, <1>2, <1>3, <1>6 DEF IInv, Shapes, Counts, Working, Workers
<1> QED
  BY <1>5, <1>7, <1>8, <1>9, <1>10 DEF IInv

LEMMA OthersKeep ==
  ASSUME IInv, (\E t \in Thread : Die(t)) \/ UNCHANGED vars
  PROVE  IInv'
<1>1. UNCHANGED <<conn_fd, created, at, own, held, sock, stage, peer, sent, unread, echoed>>
  BY Zenon DEF Die, vars, mainVars, threadVars, clientVars
<1>2. created' \in BOOLEAN /\ exited' \in BOOLEAN
  BY Zenon DEF Die, vars, mainVars, IInv
<1>3. Shapes' /\ Sockets' /\ Workers' /\ OneStarts' /\ Counts'
  BY <1>1 DEF IInv, Shapes, ClientTypeOK, Sockets, Workers, Working, OneStarts, HandedOver, Counts
<1> QED
  BY <1>2, <1>3 DEF IInv

LEMMA Invariant == ASSUME Prompt PROVE Spec => []IInv
<1>1. IInv /\ [Next]_vars => IInv'
  <2> SUFFICES ASSUME IInv, [Next]_vars PROVE IInv'
    OBVIOUS
  <2> QED
    BY ClientKeeps, AcceptKeeps, MainKeeps, StartKeeps, EchoKeeps, EofKeeps, CloseKeeps, OthersKeep
    DEF Next, MainStep, ThreadStep
<1> QED
  BY InitHolds, <1>1, PTL DEF Spec

\* When a thread copies conn_fd before the next accept returns, every connection
\* has its own thread, and no thread works on a descriptor that is not open,
\* although descriptors are used again at once.
THEOREM OwnThread == ASSUME Prompt PROVE Spec => []OneThreadPerConnection
<1>1. IInv => OneThreadPerConnection
  <2> SUFFICES ASSUME IInv PROVE OneThreadPerConnection
    OBVIOUS
  <2>1. TypeOK
    BY Zenon DEF IInv, Shapes, TypeOK
  <2>2. \A t \in Thread : Working(t) => Served(t) # NoConn
    BY ServedIsOpen, ThreadAssumption
  <2> QED
    BY <2>1, <2>2 DEF IInv, Workers, OneThreadPerConnection
<1> QED
  BY <1>1, Invariant, PTL

-----------------------------------------------------------------------------
(* What clients see *)

Looping(t) == at[t] = "loop"

Balanced(c) == unread[c] + echoed[c] = sent[c]

\* No chunk is missing: what is neither unread nor echoed is in the buffer of the
\* thread, and a thread that is about to close has echoed all.
Whole ==
    /\ \A t \in Thread : Looping(t) =>
         unread[Served(t)] + echoed[Served(t)] + held[t] = sent[Served(t)]
    /\ \A t \in Thread : at[t] = "closing" =>
         peer[Served(t)] # "up" /\ unread[Served(t)] = 0 /\ Balanced(Served(t))
    /\ \A c \in Conn : Balanced(c) \/ \E t \in Thread : Looping(t) /\ Served(t) = c

\* Of two working threads each serves another connection.
LEMMA ServedApart ==
  ASSUME IInv
  PROVE  \A t, u \in Thread : Working(t) /\ Working(u) /\ Served(t) = Served(u) => t = u
<1>1. \A t \in Thread : Working(t) => own[t] \in Fd /\ Served(t) = sock[own[t]] /\ Served(t) \in Conn
  BY ServedIsOpen
<1> QED
  BY <1>1, ThreadAssumption DEF IInv, Workers, Sockets

\* Steps that touch neither the counts nor the working threads.
LEMMA WholeUntouched ==
  ASSUME IInv, Whole, UNCHANGED <<peer, sent, unread, echoed, held>>,
         \A t \in Thread : /\ Looping(t)' <=> Looping(t)
                           /\ at'[t] = "closing" => at[t] = "closing"
                           /\ Working(t) /\ Working(t)' => Served(t)' = Served(t)
  PROVE  Whole'
  BY DEF Whole, Balanced, Looping, Working

LEMMA MainKeepsWhole ==
  ASSUME Prompt, IInv, Whole, MainStep
  PROVE  Whole'
<1>1. CASE AcceptFails
  BY <1>1, WholeUntouched
  DEF AcceptFails, threadVars, clientVars, Looping, Served
<1>2. ASSUME NEW t \in Thread, Create(t) PROVE Whole'
  <2>1. UNCHANGED <<peer, sent, unread, echoed, held>> /\ UNCHANGED <<own, sock>>
        /\ \A u \in Thread : at'[u] = at[u] \/ (at[u] = "none" /\ at'[u] = "starting")
    BY <1>2 DEF Create, clientVars, IInv, Shapes
  <2> QED
    BY <2>1, WholeUntouched DEF Looping, Served
<1>3. ASSUME NEW c \in Conn, NEW f \in Fd, Accept(c, f) PROVE Whole'
  <2>1. UNCHANGED <<peer, sent, unread, echoed, held>> /\ UNCHANGED <<own, at>>
        /\ sock[f] = NoConn /\ sock' = [sock EXCEPT ![f] = c]
    BY <1>3 DEF Accept, Accepted, threadVars
  <2>2. \A t \in Thread : Working(t) => own[t] \in Fd /\ own[t] # f
    BY <2>1, ThreadAssumption DEF IInv, Workers
  <2>3. \A t \in Thread : Working(t) => Served(t)' = Served(t)
    BY <2>1, <2>2 DEF Served, IInv, Shapes
  <2> QED
    BY <2>1, <2>3, WholeUntouched DEF Looping
<1> QED
  BY <1>1, <1>2, <1>3 DEF MainStep

LEMMA ClientKeepsWhole ==
  ASSUME IInv, Whole, NEW c \in Conn, Client(c)
  PROVE  Whole'
<1>1. ClientStep(c) /\ UNCHANGED <<at, own, held, sock>>
  BY Zenon DEF Client, Others, mainVars, threadVars
<1>2. /\ echoed' = echoed
      /\ \A d \in Conn : \/ unread'[d] = unread[d] /\ sent'[d] = sent[d]
                         \/ unread'[d] = unread[d] + 1 /\ sent'[d] = sent[d] + 1 /\ peer[d] = "up"
      /\ \A d \in Conn : peer[d] # "up" => peer'[d] # "up"
  BY <1>1 DEF ClientStep, Connect, Send, Fin, Reset, IInv, Shapes, ClientTypeOK
<1>3. \A d \in Conn : unread[d] \in Nat /\ echoed[d] \in Nat /\ sent[d] \in Nat
  BY ClientAssumption DEF IInv, Shapes, ClientTypeOK
<1>4. \A t \in Thread : Served(t)' = Served(t) /\ held[t] \in Nat
                        /\ (Looping(t)' <=> Looping(t)) /\ at'[t] = at[t]
  BY <1>1, ClientAssumption DEF Served, Looping, IInv, Shapes
<1>5. \A t \in Thread : Looping(t) \/ at[t] = "closing" => Served(t) \in Conn
  BY ServedIsOpen DEF Working, Looping
<1>6. \A d \in Conn : Balanced(d) => Balanced(d)'
  BY <1>2, <1>3 DEF Balanced
<1>7. \A t \in Thread : Looping(t)' =>
        unread'[Served(t)'] + echoed'[Served(t)'] + held'[t] = sent'[Served(t)']
  BY <1>1, <1>2, <1>3, <1>4, <1>5 DEF Whole
<1>8. \A t \in Thread : at'[t] = "closing" =>
        /\ peer'[Served(t)'] # "up" /\ unread'[Served(t)'] = 0
        /\ unread'[Served(t)'] + echoed'[Served(t)'] = sent'[Served(t)']
  BY <1>2, <1>4, <1>5, <1>6 DEF Whole, Balanced
<1>9. \A d \in Conn : Balanced(d)' \/ \E t \in Thread : Looping(t)' /\ Served(t)' = d
  BY <1>4, <1>6 DEF Whole
<1> QED
  BY <1>7, <1>8, <1>9 DEF Whole, Balanced

\* A thread that starts takes a connection over that no other one serves.
LEMMA StartKeepsWhole ==
  ASSUME IInv, Whole, NEW t \in Thread, Start(t)
  PROVE  Whole'
<1>1. /\ at[t] = "starting" /\ at' = [at EXCEPT ![t] = "loop"]
      /\ own' = [own EXCEPT ![t] = conn_fd]
      /\ UNCHANGED <<held, sock, peer, sent, unread, echoed>>
  BY DEF Start, clientVars
<1>2. HandedOver /\ sock[conn_fd] \in Conn /\ held[t] = 0
  BY <1>1 DEF IInv, OneStarts, HandedOver, Counts, Shapes
<1>3. Served(t)' = sock[conn_fd] /\ (\A u \in Thread \ {t} : Served(u)' = Served(u))
  BY <1>1, <1>2, ThreadAssumption DEF HandedOver, Served, IInv, Shapes
<1>4. \A u \in Thread : Working(u) => Served(u) # sock[conn_fd]
  <2>1. \A u \in Thread : Working(u) => own[u] \in Fd /\ Served(u) = sock[own[u]]
    BY ServedIsOpen
  <2> QED
    BY <1>2, <2>1 DEF HandedOver, IInv, Sockets
<1>5. Balanced(sock[conn_fd])
  BY <1>2, <1>4 DEF Whole, Working, Looping
<1>6. /\ \A u \in Thread : Looping(u)' <=> Looping(u) \/ u = t
      /\ \A u \in Thread : at'[u] = "closing" => at[u] = "closing" /\ u # t
      /\ ~Looping(t)
  BY <1>1 DEF Looping, IInv, Shapes
<1>7. sent[sock[conn_fd]] \in Nat /\ unread[sock[conn_fd]] + echoed[sock[conn_fd]] + 0 = sent[sock[conn_fd]]
  BY <1>2, <1>5, ClientAssumption DEF Balanced, IInv, Shapes, ClientTypeOK
<1> QED
  BY <1>1, <1>2, <1>3, <1>6, <1>7 DEF Whole, Balanced

LEMMA EchoKeepsWhole ==
  ASSUME IInv, Whole, NEW t \in Thread, Read(t) \/ Write(t)
  PROVE  Whole'
<1> DEFINE c == Served(t)
<1>1. Working(t) /\ Looping(t) /\ c \in Conn
  BY ServedIsOpen DEF Read, Write, InLoop, Working, Looping
<1>2. \A u \in Thread : (Looping(u) \/ at[u] = "closing") /\ u # t => Served(u) \in Conn \ {c}
  BY <1>1, ServedApart, ServedIsOpen DEF Working, Looping
<1>3. UNCHANGED <<at, own, sock, peer, sent>>
  BY DEF Read, Write, Received, Replied
<1>4. \A u \in Thread : Served(u)' = Served(u) /\ (Looping(u)' <=> Looping(u)) /\ at'[u] = at[u]
  BY <1>3 DEF Served, Looping
<1> HIDE DEF c
<1>5. /\ unread'[c] + echoed'[c] + held'[t] = unread[c] + echoed[c] + held[t]
      /\ \A d \in Conn \ {c} : unread'[d] = unread[d] /\ echoed'[d] = echoed[d]
      /\ \A u \in Thread \ {t} : held'[u] = held[u]
  <2> USE <1>1, ClientAssumption DEF IInv, Shapes, ClientTypeOK
  <2>1. CASE Read(t)
    <3>1. PICK n \in 1 .. MaxSent :
            /\ held' = [held EXCEPT ![t] = n] /\ n \in 1 .. unread[c]
            /\ unread' = [unread EXCEPT ![c] = @ - n] /\ echoed' = echoed /\ held[t] = 0
      BY <2>1, Zenon DEF Read, Received, c
    <3> QED
      BY <3>1
  <2>2. CASE Write(t)
    <3>1. /\ held' = [held EXCEPT ![t] = 0] /\ unread' = unread
          /\ echoed' = [echoed EXCEPT ![c] = @ + held[t]]
      BY <2>2, Zenon DEF Write, Replied, c
    <3> QED
      BY <3>1
  <2> QED
    BY <2>1, <2>2
<1>6. unread[c] + echoed[c] + held[t] = sent[c]
  BY <1>1 DEF Whole, c
<1>7. \A u \in Thread : at[u] = "closing" => u # t
  BY <1>1 DEF Looping
<1>8. \A u \in Thread : Looping(u)' =>
        unread'[Served(u)'] + echoed'[Served(u)'] + held'[u] = sent'[Served(u)']
  <2> SUFFICES ASSUME NEW u \in Thread, Looping(u)
               PROVE  unread'[Served(u)] + echoed'[Served(u)] + held'[u] = sent[Served(u)]
    BY <1>3, <1>4
  <2>1. CASE u = t
    BY <1>5, <1>6, <2>1 DEF c
  <2>2. CASE u # t
    BY <1>2, <1>5, <2>2 DEF Whole
  <2> QED
    BY <2>1, <2>2
<1>9. \A u \in Thread : at'[u] = "closing" =>
        /\ peer'[Served(u)'] # "up" /\ unread'[Served(u)'] = 0
        /\ unread'[Served(u)'] + echoed'[Served(u)'] = sent'[Served(u)']
  BY <1>2, <1>3, <1>4, <1>5, <1>7 DEF Whole, Balanced
<1>10. \A d \in Conn : unread'[d] + echoed'[d] = sent'[d]
                       \/ \E u \in Thread : Looping(u)' /\ Served(u)' = d
  BY <1>1, <1>3, <1>4, <1>5 DEF Whole, Balanced, c
<1> QED
  BY <1>8, <1>9, <1>10 DEF Whole, Balanced

LEMMA EndKeepsWhole ==
  ASSUME IInv, Whole, NEW t \in Thread, Eof(t) \/ Close(t) \/ Die(t)
  PROVE  Whole'
<1>1. CASE Eof(t)
  <2>1. /\ Looping(t) /\ held[t] = 0 /\ at' = [at EXCEPT ![t] = "closing"]
        /\ UNCHANGED <<own, held, sock, peer, sent, unread, echoed>>
        /\ peer[Served(t)] = "fin" /\ unread[Served(t)] = 0
    BY <1>1 DEF Eof, InLoop, AtEof, clientVars, Looping
  <2>2. Served(t) \in Conn
    BY <2>1, ServedIsOpen DEF Working, Looping
  <2>3. Balanced(Served(t))
    BY <2>1, <2>2, ClientAssumption DEF Whole, Balanced, IInv, Shapes, ClientTypeOK
  <2>4. /\ \A u \in Thread : Served(u)' = Served(u)
        /\ \A u \in Thread : Looping(u)' <=> Looping(u) /\ u # t
        /\ \A u \in Thread : at'[u] = "closing" => at[u] = "closing" \/ u = t
    BY <2>1 DEF Served, Looping, IInv, Shapes
  <2> QED
    BY <2>1, <2>3, <2>4 DEF Whole, Balanced
<1>2. CASE Close(t)
  <2>1. Working(t) /\ own[t] \in Fd /\ Served(t) # NoConn
    BY <1>2, ServedIsOpen, ThreadAssumption DEF Close, Working
  <2>2. /\ at[t] = "closing" /\ at' = [at EXCEPT ![t] = "done"]
        /\ sock' = [sock EXCEPT ![own[t]] = NoConn]
        /\ UNCHANGED <<own, held, peer, sent, unread, echoed>>
    BY <1>2, <2>1 DEF Close, Closed
  <2>3. /\ \A u \in Thread : Looping(u)' <=> Looping(u)
        /\ \A u \in Thread : at'[u] = "closing" => at[u] = "closing"
        /\ \A u \in Thread : Working(u) /\ Working(u)' => u # t
    BY <2>2 DEF Looping, Working, IInv, Shapes
  <2>4. \A u \in Thread : Working(u) /\ u # t => own[u] \in Fd /\ own[u] # own[t]
    BY <2>1 DEF IInv, Workers
  <2>5. \A u \in Thread : Working(u) /\ Working(u)' => Served(u)' = Served(u)
    BY <2>1, <2>2, <2>3, <2>4 DEF Served, IInv, Shapes
  <2> QED
    BY <2>2, <2>3, <2>5, WholeUntouched
<1>3. CASE Die(t)
  BY <1>3, WholeUntouched DEF Die, threadVars, clientVars, Looping, Served
<1> QED
  BY <1>1, <1>2, <1>3

LEMMA WholeInvariant == ASSUME Prompt PROVE Spec => []Whole
<1>1. Init => Whole
  <2> SUFFICES ASSUME Init PROVE Whole
    OBVIOUS
  <2>1. \A t \in Thread : at[t] = "none"
    BY DEF Init
  <2>2. \A c \in Conn : Balanced(c)
    BY DEF Init, ClientInit, Balanced
  <2> QED
    BY <2>1, <2>2 DEF Whole, Looping
<1>2. IInv /\ Whole /\ [Next]_vars => Whole'
  <2> SUFFICES ASSUME IInv, Whole, [Next]_vars PROVE Whole'
    OBVIOUS
  <2>1. CASE UNCHANGED vars
    BY <2>1, WholeUntouched DEF vars, threadVars, clientVars, Looping, Served
  <2> QED
    BY <2>1, ClientKeepsWhole, MainKeepsWhole, StartKeepsWhole, EchoKeepsWhole, EndKeepsWhole
    DEF Next, ThreadStep
<1> QED
  BY Invariant, <1>1, <1>2, PTL DEF Spec

\* The steps of the threads that clients see.
LEMMA EchoIsEcho ==
  ASSUME IInv, Whole, NEW t \in Thread, Write(t)
  PROVE  Service!Echo(Served(t)) /\ Served(t) \in Conn
<1> DEFINE c == Served(t)
           n == held[t]
<1>1. Looping(t) /\ n > 0 /\ Replied(c, n) /\ unread[c] + echoed[c] + n = sent[c]
  BY DEF Write, InLoop, Whole, Looping
<1>2. c \in Conn /\ stage[c] = "open"
  BY <1>1, ServedIsOpen DEF Working, Looping
<1> HIDE DEF c
<1>3. n \in 1 .. sent[c] - echoed[c]
  BY <1>1, <1>2, ClientAssumption DEF IInv, Shapes, ClientTypeOK
<1> HIDE DEF n
<1>4. Service!Echo(c)
  BY <1>1, <1>2, <1>3 DEF Replied, Service!Echo
<1> QED
  BY <1>2, <1>4 DEF c

LEMMA CloseIsClose ==
  ASSUME IInv, Whole, NEW t \in Thread, Close(t)
  PROVE  Service!Close(Served(t)) /\ Served(t) \in Conn
<1> DEFINE c == Served(t)
<1>1. at[t] = "closing" /\ c \in Conn /\ stage[c] = "open" /\ Closed(c)
  BY ServedIsOpen, ThreadAssumption DEF Close, Working
<1>2. peer[c] # "up" /\ unread[c] = 0 /\ unread[c] + echoed[c] = sent[c]
  BY <1>1 DEF Whole, Balanced
<1> HIDE DEF c
<1>3. peer[c] \in {"fin", "reset"} /\ echoed[c] = sent[c]
  BY <1>1, <1>2, ClientAssumption DEF IInv, Shapes, ClientTypeOK
<1>4. Service!Close(c)
  BY <1>1, <1>3 DEF Closed, Service!Close, Service!Moves
<1> QED
  BY <1>1, <1>4 DEF c

LEMMA ServiceStep ==
  IInv /\ Whole /\ [Next]_vars => [Service!Next]_(Service!serviceVars)
<1> SUFFICES ASSUME IInv, Whole, [Next]_vars PROVE [Service!Next]_(Service!serviceVars)
  OBVIOUS
<1>1. ASSUME UNCHANGED clientVars PROVE UNCHANGED Service!serviceVars
  BY <1>1 DEF clientVars, Service!serviceVars
<1>2. CASE MainStep
  <2>1. ASSUME NEW c \in Conn, NEW f \in Fd, Accept(c, f) PROVE Service!Accept(c)
    BY <2>1 DEF Accept, Accepted, Backlog, Service!Accept, Service!Moves
  <2> QED
    BY <1>1, <1>2, <2>1 DEF MainStep, AcceptFails, Create, Service!Next
<1>3. ASSUME NEW t \in Thread, ThreadStep(t) PROVE [Service!Next]_(Service!serviceVars)
  <2>1. CASE Read(t)
    BY <2>1 DEF Read, Received, Service!serviceVars
  <2>2. CASE Write(t)
    BY <2>2, EchoIsEcho DEF Service!Next
  <2>3. CASE Close(t)
    BY <2>3, CloseIsClose DEF Service!Next
  <2>4. CASE Start(t) \/ Eof(t) \/ Die(t)
    BY <2>4, <1>1 DEF Start, Eof, Die
  <2> QED
    BY <1>3, <2>1, <2>2, <2>3, <2>4 DEF ThreadStep
<1>4. ASSUME NEW c \in Conn, Client(c) PROVE Service!Next
  <2>1. Service!Connect(c) \/ Service!Send(c) \/ Service!End(c)
    BY <1>4 DEF Client, ClientStep, Connect, Send, Fin, Reset, Exists,
       Service!Connect, Service!Moves, Service!Send, Service!End
  <2> QED
    BY <2>1 DEF Service!Next
<1>5. CASE UNCHANGED vars
  BY <1>5, <1>1 DEF vars
<1> QED
  BY <1>2, <1>3, <1>4, <1>5 DEF Next

\* As long as each thread copies conn_fd in time, the threads are an echo service.
THEOREM ThreadsImplementService == ASSUME Prompt PROVE Spec => ImplementsService
<1>1. Init => Service!Init
  BY DEF Init, ClientInit, Service!Init
<1> QED
  BY <1>1, Invariant, WholeInvariant, ServiceStep, PTL DEF Spec, ImplementsService, Service!Spec
================================================================================
