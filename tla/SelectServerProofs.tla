-------------------------- MODULE SelectServerProofs --------------------------
(***************************************************************************)
(* Theorems about the select server, for any number of connections,        *)
(* descriptors, buffers and pieces: at most one open connection is not     *)
(* watched (OneLost), and what a careful client gets back is what it sent, *)
(* in order (EchoedAsSent).                                                *)
(***************************************************************************)
EXTENDS SelectServer, FiniteSetTheorems, SequenceTheorems, NaturalsInduction,
        WellFoundedInduction, TLAPS

-----------------------------------------------------------------------------
(* The inductive invariant *)

\* The ranges, with the shape of a buffer; what select reported and has not been
\* handled is watched, and handling goes on only while there is such a descriptor.
SelectTypes ==
    /\ phase \in {"select", "accept", "handle", "ended"}
    /\ phase = "handle" => reads \cup writes # {}
    /\ reads \cup writes \subseteq Watched
    /\ buf \in [Buffers -> [fd : Nat, data : Seq(Piece), read_idx : Nat, readable : BOOLEAN]]
    /\ \A i \in Buffers : /\ buf[i].fd \in {0, i}
                          /\ Len(buf[i].data) <= Capacity /\ buf[i].read_idx <= Len(buf[i].data)
    /\ table \in [Fds -> Conn \cup {NoConn}]
    /\ stage \in [Conn -> {"new", "backlog", "open", "closed"}]
    /\ peer \in [Conn -> {"up", "fin", "reset"}]
    /\ full \in [Conn -> BOOLEAN] /\ careful \in BOOLEAN
    /\ sent \in [Conn -> Seq(Piece)] /\ echoed \in [Conn -> Seq(Piece)] /\ taken \in [Conn -> Nat]
    /\ \A c \in Conn : taken[c] <= Len(sent[c]) /\ Len(sent[c]) <= MaxSent

\* Descriptors stand for open connections, each for one of its own; an open
\* connection has one, and it is watched unless it is FD_MAX_SIZE.
Descriptors ==
    /\ \A i \in Buffers : buf[i].fd # 0 <=> i \in Fds /\ table[i] # NoConn
    /\ \A i \in Fds : table[i] # NoConn => i <= FdMaxSize /\ stage[table[i]] = "open"
    /\ \A i, j \in Fds : table[i] = table[j] /\ table[i] # NoConn => i = j
    /\ \A c \in Conn : stage[c] = "open" => \E i \in Fds : table[i] = c

\* What is known of a careful client: all it got back is what it sent first; the
\* rest fits into a buffer, and a line is the last of it.
Honest(c) ==
    /\ Len(echoed[c]) <= taken[c]
    /\ \A k \in 1 .. Len(echoed[c]) : echoed[c][k] = sent[c][k]
    /\ Len(sent[c]) - Len(echoed[c]) <= Capacity
    /\ \A k \in Len(echoed[c]) + 1 .. Len(sent[c]) - 1 : sent[c][k].line = FALSE
    /\ peer[c] # "up" => Len(echoed[c]) = Len(sent[c])
    /\ stage[c] \in {"new", "backlog"} => taken[c] = 0

\* The buffer holds what has been received, t pieces, and not echoed; it begins with what
\* has been echoed only while a line waits that send has not taken.
Holds(b, c, t) ==
    /\ Len(b.data) - b.read_idx = t - Len(echoed[c])
    /\ \A k \in 1 .. Len(b.data) - b.read_idx : b.data[b.read_idx + k] = sent[c][Len(echoed[c]) + k]
    /\ IF b.readable = TRUE
       THEN /\ t = Len(sent[c]) /\ Len(echoed[c]) < Len(sent[c])
            /\ sent[c][Len(sent[c])].line = TRUE
       ELSE b.read_idx = 0

Empty(b) == b.data = <<>> /\ b.read_idx = 0 /\ b.readable = FALSE

Echoes ==
    /\ \A c \in Conn : Honest(c)
    /\ \A i \in Buffers : IF buf[i].fd = 0 THEN Empty(buf[i]) ELSE Holds(buf[i], table[i], taken[table[i]])
    /\ \A i \in writes : buf[i].readable = TRUE

EchoInv == careful = TRUE => Echoes
SelectInv == SelectTypes /\ Descriptors /\ EchoInv

\* Every set of naturals that is not empty has a smallest element.
LEMMA Smallest ==
  ASSUME NEW T \in SUBSET Nat, T # {}
  PROVE  \E m \in T : \A n \in T : m <= n
<1> DEFINE R == OpToRel(<, Nat)
<1>1. IsWellFoundedOn(R, Nat)
  BY NatLessThanWellFounded
<1>2. \A m, n \in Nat : <<m, n>> \in R <=> m < n
  BY DEF OpToRel
<1> HIDE DEF R
<1>3. PICK m \in T : \A n \in T : ~ (<<n, m>> \in R)
  BY <1>1, WFMin
<1>4. ASSUME NEW n \in T PROVE m <= n
  <2>1. ~ (n < m)
    BY <1>2, <1>3
  <2> QED
    BY <2>1
<1> QED
  BY <1>4


Buffer == [fd : Nat, data : Seq(Piece), read_idx : Nat, readable : BOOLEAN]

\* A part of a sequence, by its length and its elements.
LEMMA PartIs ==
  ASSUME NEW S, NEW s \in Seq(S), NEW t \in Nat, NEW m \in Nat, NEW n \in Nat, n = t + m, n <= Len(s)
  PROVE  /\ SubSeq(s, t + 1, n) \in Seq(S) /\ Len(SubSeq(s, t + 1, n)) = m
         /\ \A k \in 1 .. m : SubSeq(s, t + 1, n)[k] = s[t + k]
<1>1. t + 1 \in Int /\ n \in Int /\ Len(s) \in Nat
  OBVIOUS
<1>2. \A k \in t + 1 .. n : s[k] \in S
  <2> TAKE k \in t + 1 .. n
  <2>1. k \in 1 .. Len(s)
    BY <1>1
  <2> QED
    BY <2>1
<1>3. /\ SubSeq(s, t + 1, n) \in Seq(S)
      /\ Len(SubSeq(s, t + 1, n)) = IF t + 1 <= n THEN n - (t + 1) + 1 ELSE 0
      /\ \A k \in 1 .. n - (t + 1) + 1 : SubSeq(s, t + 1, n)[k] = s[(t + 1) + k - 1]
  BY ONLY <1>1, <1>2, SubSeqProperties
<1>4. n - (t + 1) + 1 = m /\ (t + 1 <= n <=> m # 0)
  OBVIOUS
<1>5. \A k \in 1 .. m : (t + 1) + k - 1 = t + k
  OBVIOUS
<1> QED
  BY <1>3, <1>4, <1>5

\* A client that may send has not sent all.
LEMMA RoomToSend ==
  ASSUME SelectTypes, NEW c \in Conn, TotalSent < MaxSent
  PROVE  Len(sent[c]) < MaxSent
<1> DEFINE U == UNION {{b} \X DOMAIN sent[b] : b \in Conn}
<1>1. MaxSent \in Nat /\ MaxConn \in Nat
  BY SelectAssumption
<1>2. \A b \in Conn : DOMAIN sent[b] = 1 .. Len(sent[b]) /\ Len(sent[b]) \in Nat /\ Len(sent[b]) <= MaxSent
  BY DEF SelectTypes
<1> SUFFICES ASSUME Len(sent[c]) = MaxSent PROVE FALSE
  BY <1>1, <1>2
<1>3. IsFiniteSet(Conn) /\ IsFiniteSet(1 .. MaxSent) /\ Cardinality(1 .. MaxSent) = MaxSent
  BY <1>1, FS_Interval DEF Conn
<1>4. IsFiniteSet(Conn \X (1 .. MaxSent))
  BY <1>3, FS_Product
<1>5. IsFiniteSet({c}) /\ Cardinality({c}) = 1
  BY FS_Singleton
<1>6. Cardinality({c} \X (1 .. MaxSent)) = 1 * MaxSent
  <2>1. Cardinality({c} \X (1 .. MaxSent)) = Cardinality({c}) * Cardinality(1 .. MaxSent)
    BY <1>3, <1>5, FS_Product
  <2> QED
    BY <1>3, <1>5, <2>1
<1>7. U \subseteq Conn \X (1 .. MaxSent)
  BY <1>1, <1>2
<1>8. IsFiniteSet(U)
  BY <1>4, <1>7, FS_Subset
<1>9. {c} \X (1 .. MaxSent) \subseteq U
  <2>1. {c} \X (1 .. MaxSent) = {c} \X DOMAIN sent[c]
    BY <1>2
  <2> QED
    BY <2>1
<1>10. Cardinality({c} \X (1 .. MaxSent)) <= Cardinality(U) /\ Cardinality(U) \in Nat
  BY <1>8, <1>9, FS_Subset, FS_CardinalityType
<1> QED
  BY <1>1, <1>6, <1>10 DEF TotalSent

\* The descriptor that accept takes is one of those that are free.
LEMMA NewFdFree == ASSUME SelectTypes, Free # {} PROVE NewFd \in Fds /\ table[NewFd] = NoConn
<1>1. Free \in SUBSET Nat
  BY SelectAssumption DEF Free, Fds, ListenFd
<1>2. \E i \in Free : \A j \in Free : i <= j
  BY <1>1, Smallest
<1>3. NewFd \in Free
  BY <1>2 DEF NewFd
<1> QED
  BY <1>3 DEF Free

\* The descriptor whose turn it is has been reported and is watched.
LEMMA TurnWatched ==
  ASSUME SelectTypes, Descriptors, NEW i \in Buffers, Turn(i)
  PROVE  /\ i \in reads \cup writes /\ buf[i].fd # 0
         /\ i \in Fds /\ table[i] \in Conn /\ stage[table[i]] = "open"
<1>1. reads \cup writes # {} /\ reads \cup writes \in SUBSET Nat
  BY SelectAssumption DEF SelectTypes, Turn, Watched, Buffers, ListenFd
<1>2. \E j \in reads \cup writes : \A k \in reads \cup writes : j <= k
  BY <1>1, Smallest
<1>3. i \in reads \cup writes
  BY <1>2 DEF Turn, Next_i
<1>4. buf[i].fd # 0
  BY <1>3 DEF SelectTypes, Watched
<1> QED
  BY <1>3, <1>4 DEF Descriptors, SelectTypes

\* What on_socket_readable leaves in the buffer.
LEMMA FilledIs ==
  ASSUME SelectTypes, NEW i \in Buffers, table[i] \in Conn
  PROVE  /\ Filled(i) \in Buffer /\ Filled(i).fd = buf[i].fd /\ Filled(i).read_idx = buf[i].read_idx
         /\ Len(Filled(i).data) <= Capacity /\ Len(buf[i].data) <= Len(Filled(i).data)
         /\ i \notin reads => Filled(i) = buf[i]
         /\ i \in reads =>
              \E m \in Nat :
                /\ m = Len(sent[table[i]]) - taken[table[i]] \/ Len(Filled(i).data) = Capacity
                /\ m <= Len(sent[table[i]]) - taken[table[i]]
                /\ Len(Filled(i).data) = Len(buf[i].data) + m
                /\ \A k \in 1 .. Len(buf[i].data) : Filled(i).data[k] = buf[i].data[k]
                /\ \A k \in 1 .. m : Filled(i).data[Len(buf[i].data) + k] = sent[table[i]][taken[table[i]] + k]
                /\ Filled(i).readable = TRUE <=>
                     \/ buf[i].readable = TRUE
                     \/ \E k \in taken[table[i]] + 1 .. Len(sent[table[i]]) : sent[table[i]][k].line = TRUE
<1>1. Capacity \in Nat /\ MaxSent \in Nat
  BY SelectAssumption
<1>2. buf[i] \in Buffer /\ Len(buf[i].data) <= Capacity
  BY DEF SelectTypes, Buffer
<1>3. CASE i \notin reads
  <2>1. Filled(i) = buf[i]
    BY <1>3 DEF Filled
  <2>2. Len(buf[i].data) \in Nat
    BY <1>2 DEF Buffer
  <2> QED
    BY <1>2, <1>3, <2>1, <2>2
<1>4. CASE i \in reads
  <2>1. PICK s \in Seq(Piece), t \in Nat : s = sent[table[i]] /\ t = taken[table[i]] /\ t <= Len(s)
    BY DEF SelectTypes
  <2>2. PICK D \in Seq(Piece), L \in Nat, N \in Nat :
          D = buf[i].data /\ L = Len(D) /\ N = Len(s) - t /\ L <= Capacity
    <3>1. buf[i].data \in Seq(Piece) /\ Len(buf[i].data) \in Nat
      BY <1>2 DEF Buffer
    <3>2. Len(s) - t \in Nat
      BY <2>1
    <3> QED
      BY <1>2, <3>1, <3>2
  <2> DEFINE new == SubSeq(s, t + 1, Len(s))
             m == IF N < Capacity - L THEN N ELSE Capacity - L
             P == SubSeq(new, 1, m)
             r == buf[i].readable \/ \E x \in ToSet(new) : x.line
  <2>3. new \in Seq(Piece) /\ Len(new) = N /\ \A k \in 1 .. N : new[k] = s[t + k]
    <3>1. s \in Seq(Piece) /\ t \in Nat /\ N \in Nat /\ Len(s) \in Nat /\ Len(s) = t + N
      <4>1. Len(s) \in Nat /\ t <= Len(s) /\ N = Len(s) - t
        BY <2>1, <2>2
      <4> QED
        BY ONLY <4>1, t \in Nat, s \in Seq(Piece)
    <3> QED
      BY ONLY <3>1, PartIs DEF new
  <2> HIDE DEF new
  <2>4. m \in Nat /\ m <= N /\ L + m <= Capacity /\ (m = N \/ L + m = Capacity)
    <3>1. Capacity \in Nat /\ L \in Nat /\ N \in Nat /\ L <= Capacity
      BY <1>1, <2>2
    <3> QED
      BY ONLY <3>1
  <2> HIDE DEF m
  <2>5. P \in Seq(Piece) /\ Len(P) = m /\ \A k \in 1 .. m : P[k] = s[t + k]
    <3>1. new \in Seq(Piece) /\ m \in Nat /\ m = 0 + m /\ m <= Len(new)
      BY <2>3, <2>4
    <3>2. /\ SubSeq(new, 0 + 1, m) \in Seq(Piece) /\ Len(SubSeq(new, 0 + 1, m)) = m
          /\ \A k \in 1 .. m : SubSeq(new, 0 + 1, m)[k] = new[0 + k]
      BY ONLY <3>1, PartIs
    <3>3. 0 + 1 = 1 /\ \A k \in 1 .. m : 0 + k = k /\ k \in 1 .. N
      BY ONLY <2>4, N \in Nat
    <3>4. P \in Seq(Piece) /\ Len(P) = m /\ \A k \in 1 .. m : P[k] = new[k]
      BY ONLY <3>2, <3>3 DEF P
    <3> QED
      BY ONLY <2>3, <3>3, <3>4
  <2> HIDE DEF P
  <2>6. PICK E : E = D \o P
    OBVIOUS
  <2>7. /\ E \in Seq(Piece) /\ Len(E) = L + m
        /\ \A k \in 1 .. L : E[k] = D[k]
        /\ \A k \in 1 .. m : E[L + k] = s[t + k]
    <3>1. /\ E \in Seq(Piece) /\ Len(E) = Len(D) + Len(P)
          /\ \A k \in 1 .. Len(D) + Len(P) : E[k] = IF k <= Len(D) THEN D[k] ELSE P[k - Len(D)]
      BY <2>2, <2>5, <2>6, ConcatProperties
    <3>2. \A k \in 1 .. L : k \in 1 .. L + m /\ k <= L
      BY <2>2, <2>4
    <3>3. \A k \in 1 .. m : L + k \in 1 .. L + m /\ ~(L + k <= L) /\ (L + k) - L = k
      BY <2>2, <2>4
    <3>4. Len(D) = L /\ Len(P) = m
      BY <2>2, <2>5
    <3>5. /\ E \in Seq(Piece) /\ Len(E) = L + m
          /\ \A k \in 1 .. L + m : E[k] = IF k <= L THEN D[k] ELSE P[k - L]
      BY <3>1, <3>4
    <3>6. \A k \in 1 .. L : E[k] = D[k]
      BY <3>2, <3>5
    <3>7. \A k \in 1 .. m : E[L + k] = P[k]
      BY <3>3, <3>5
    <3> QED
      BY <2>5, <3>5, <3>6, <3>7
  <2>8. Filled(i) = [buf[i] EXCEPT !.data = E, !.readable = r]
    <3>1. Inbox(table[i]) = new
      BY <2>1 DEF Inbox, new
    <3>2. m = IF Len(new) < Capacity - Len(buf[i].data) THEN Len(new) ELSE Capacity - Len(buf[i].data)
      BY <2>2, <2>3 DEF m
    <3>3. E = buf[i].data \o SubSeq(new, 1, IF Len(new) < Capacity - Len(buf[i].data)
                                            THEN Len(new) ELSE Capacity - Len(buf[i].data))
      BY <2>2, <2>6, <3>2 DEF P
    <3> HIDE DEF P
    <3> QED
      BY <1>4, <3>1, <3>3, Zenon DEF Filled
  <2>9. r \in BOOLEAN
    BY <1>2 DEF Buffer
  <2>10. r = TRUE <=> buf[i].readable = TRUE \/ \E k \in t + 1 .. Len(s) : s[k].line = TRUE
    <3>1. \A k \in t + 1 .. Len(s) : k - t \in 1 .. N /\ t + (k - t) = k
      BY <2>1, <2>2
    <3>2. \A k \in 1 .. N : t + k \in t + 1 .. Len(s)
      BY <2>1, <2>2
    <3>3. (\E x \in ToSet(new) : x.line = TRUE) <=> \E k \in t + 1 .. Len(s) : s[k].line = TRUE
      <4>1. ToSet(new) = {new[k] : k \in 1 .. N}
        <5>1. DOMAIN new = 1 .. N
          BY <2>3
        <5> QED
          BY <5>1 DEF ToSet
      <4>2. ASSUME NEW x \in ToSet(new), x.line = TRUE PROVE \E k \in t + 1 .. Len(s) : s[k].line = TRUE
        <5>1. PICK k \in 1 .. N : x = new[k]
          BY <4>1
        <5> QED
          BY <2>3, <3>2, <4>2, <5>1
      <4>3. ASSUME NEW k \in t + 1 .. Len(s), s[k].line = TRUE PROVE \E x \in ToSet(new) : x.line = TRUE
        <5>1. new[k - t] = s[k] /\ k - t \in 1 .. N
          BY <2>3, <3>1
        <5> QED
          BY <4>1, <4>3, <5>1
      <4> QED
        BY <4>2, <4>3
    <3>4. \A x \in ToSet(new) : x.line \in BOOLEAN
      <4> TAKE x \in ToSet(new)
      <4>1. ToSet(new) = {new[k] : k \in 1 .. N}
        <5>1. DOMAIN new = 1 .. N
          BY <2>3
        <5> QED
          BY <5>1 DEF ToSet
      <4>2. PICK k \in 1 .. N : x = new[k]
        BY <4>1
      <4>3. new[k] \in Piece
        BY <2>3
      <4> QED
        BY <4>2, <4>3 DEF Piece
    <3>5. buf[i].readable \in BOOLEAN
      BY <1>2 DEF Buffer
    <3> HIDE DEF new
    <3>6. r = TRUE <=> buf[i].readable = TRUE \/ \E x \in ToSet(new) : x.line = TRUE
      BY <3>4, <3>5, Zenon
    <3> QED
      BY <3>3, <3>6
  <2> HIDE DEF r
  <2>11. /\ Filled(i) \in Buffer /\ Filled(i).fd = buf[i].fd /\ Filled(i).read_idx = buf[i].read_idx
         /\ Filled(i).data = E /\ Filled(i).readable = r
    BY <1>2, <2>7, <2>8, <2>9 DEF Buffer
  <2>12. Len(E) <= Capacity /\ L <= Len(E)
    BY <1>1, <2>4, <2>7
  <2>13. m = N \/ Len(E) = Capacity
    BY <2>4, <2>7
  <2> QED
    BY <1>4, <2>1, <2>2, <2>4, <2>7, <2>10, <2>11, <2>12, <2>13
<1> QED
  BY <1>3, <1>4

-----------------------------------------------------------------------------
(* Descriptors: clients, select and accept *)

\* At the start nothing is open, sent or held.
LEMMA SelectStarts == Init => SelectInv
<1> SUFFICES ASSUME Init PROVE SelectInv
  OBVIOUS
<1> USE SelectAssumption DEF Init
<1>1. SelectTypes
  <2>1. \A i \in Buffers : [fd |-> 0, data |-> <<>>, read_idx |-> 0, readable |-> FALSE] \in
                           [fd : Nat, data : Seq(Piece), read_idx : Nat, readable : BOOLEAN]
    OBVIOUS
  <2>2. /\ buf \in [Buffers -> [fd : Nat, data : Seq(Piece), read_idx : Nat, readable : BOOLEAN]]
        /\ \A i \in Buffers : /\ buf[i].fd \in {0, i}
                              /\ Len(buf[i].data) <= Capacity /\ buf[i].read_idx <= Len(buf[i].data)
    BY <2>1
  <2>3. /\ table \in [Fds -> Conn \cup {NoConn}]
        /\ stage \in [Conn -> {"new", "backlog", "open", "closed"}]
        /\ peer \in [Conn -> {"up", "fin", "reset"}]
        /\ full \in [Conn -> BOOLEAN]
        /\ sent \in [Conn -> Seq(Piece)] /\ echoed \in [Conn -> Seq(Piece)] /\ taken \in [Conn -> Nat]
    OBVIOUS
  <2>4. \A c \in Conn : taken[c] <= Len(sent[c]) /\ Len(sent[c]) <= MaxSent
    OBVIOUS
  <2>5. careful \in BOOLEAN
    OBVIOUS
  <2>6. phase = "select" /\ reads \cup writes = {}
    OBVIOUS
  <2> QED
    BY ONLY <2>2, <2>3, <2>4, <2>5, <2>6 DEF SelectTypes
<1>2. Descriptors
  <2>1. \A i \in Fds : table[i] = NoConn
    OBVIOUS
  <2>2. \A c \in Conn : stage[c] = "new"
    OBVIOUS
  <2>3. \A i \in Buffers : buf[i].fd = 0
    OBVIOUS
  <2> QED
    BY ONLY <2>1, <2>2, <2>3 DEF Descriptors
<1>3. EchoInv
  <2>1. ASSUME NEW c \in Conn PROVE Honest(c)
    <3>1. Len(echoed[c]) = 0 /\ taken[c] = 0 /\ Len(sent[c]) = 0 /\ peer[c] = "up"
      OBVIOUS
    <3>2. Capacity \in Nat
      OBVIOUS
    <3> QED
      BY ONLY <3>1, <3>2 DEF Honest
  <2>2. \A i \in Buffers : buf[i].fd = 0 /\ Empty(buf[i])
    BY DEF Empty
  <2> QED
    BY <2>1, <2>2 DEF EchoInv, Echoes
<1> QED
  BY <1>1, <1>2, <1>3 DEF SelectInv

\* What clients do.
LEMMA ClientsKeepFds ==
  ASSUME SelectTypes, Descriptors, NEW c \in Conn, Connect(c) \/ Send(c) \/ Leave(c) \/ Drain(c)
  PROVE  SelectTypes' /\ Descriptors'
<1>1. UNCHANGED <<phase, reads, writes, buf, table, taken, echoed, careful>>
  BY DEF Connect, Send, Leave, Drain, serverVars, dataVars
<1>2. CASE Connect(c) \/ Leave(c) \/ Drain(c)
  <2>1. UNCHANGED sent
    BY <1>2 DEF Connect, Leave, Drain, dataVars
  <2>2. /\ stage' \in [Conn -> {"new", "backlog", "open", "closed"}]
        /\ \A b \in Conn : stage'[b] = stage[b] \/ (stage[b] = "new" /\ stage'[b] = "backlog")
    BY <1>2 DEF Connect, Leave, Drain, SelectTypes
  <2>3. peer' \in [Conn -> {"up", "fin", "reset"}]
    BY <1>2 DEF Connect, Leave, Drain, SelectTypes
  <2>4. full' \in [Conn -> BOOLEAN]
    BY <1>2 DEF Connect, Leave, Drain, SelectTypes
  <2>5. SelectTypes'
    BY <1>1, <2>1, <2>2, <2>3, <2>4 DEF SelectTypes, Watched
  <2>6. Descriptors'
    <3>1. \A i \in Fds : table[i] # NoConn => table[i] \in Conn
      BY DEF SelectTypes
    <3> QED
      BY <1>1, <2>2, <3>1 DEF Descriptors
  <2> QED
    BY <2>5, <2>6
<1>3. CASE Send(c)
  <2>1. UNCHANGED <<stage, peer, full>> /\ TotalSent < MaxSent
    BY <1>3 DEF Send
  <2>2. PICK l \in BOOLEAN :
          sent' = [sent EXCEPT ![c] = Append(@, [from |-> c, no |-> Len(@) + 1, line |-> l])]
    BY <1>3 DEF Send
  <2>3. sent[c] \in Seq(Piece) /\ Len(sent[c]) \in Nat /\ Len(sent[c]) < MaxSent /\ MaxSent \in Nat
    BY <2>1, RoomToSend, SelectAssumption DEF SelectTypes
  <2>4. PICK x \in Piece : sent' = [sent EXCEPT ![c] = Append(@, x)]
    <3>1. [from |-> c, no |-> Len(sent[c]) + 1, line |-> l] \in Piece
      BY <2>3 DEF Piece
    <3> QED
      BY <2>2, <3>1
  <2>5. Append(sent[c], x) \in Seq(Piece) /\ Len(Append(sent[c], x)) = Len(sent[c]) + 1
    BY <2>3, AppendProperties
  <2>6. /\ sent' \in [Conn -> Seq(Piece)] /\ Len(sent'[c]) = Len(sent[c]) + 1
        /\ \A b \in Conn : b # c => sent'[b] = sent[b]
    BY <2>4, <2>5 DEF SelectTypes
  <2>7. \A b \in Conn : taken[b] <= Len(sent'[b]) /\ Len(sent'[b]) <= MaxSent
    <3> TAKE b \in Conn
    <3>1. CASE b = c
      <4>1. taken[c] \in Nat /\ taken[c] <= Len(sent[c])
        BY DEF SelectTypes
      <4> QED
        BY <2>3, <2>6, <3>1, <4>1
    <3>2. CASE b # c
      BY <2>6, <3>2 DEF SelectTypes
    <3> QED
      BY <3>1, <3>2
  <2>8. SelectTypes'
    BY <1>1, <2>1, <2>6, <2>7 DEF SelectTypes, Watched
  <2>9. Descriptors'
    BY <1>1, <2>1 DEF Descriptors
  <2> QED
    BY <2>8, <2>9
<1> QED
  BY <1>2, <1>3

\* select reports descriptors that are watched, and at least one of them or the
\* listening one.
LEMMA SelectKeepsFds ==
  ASSUME SelectTypes, Descriptors, Select
  PROVE  SelectTypes' /\ Descriptors'
<1>1. /\ UNCHANGED <<buf, table, stage, peer, full, sent, taken, echoed, careful>>
      /\ reads' = Readable /\ writes' = Writable
      /\ Readable # {} \/ Writable # {} \/ Backlog # {}
      /\ phase' = IF Backlog # {} THEN "accept" ELSE "handle"
  BY DEF Select, dataVars
<1>2. reads' \cup writes' \subseteq Watched
  BY <1>1 DEF Readable, Writable
<1>3. SelectTypes'
  BY <1>1, <1>2 DEF SelectTypes, Watched
<1>4. Descriptors'
  BY <1>1 DEF Descriptors
<1> QED
  BY <1>3, <1>4

\* What accept does to the tables.
LEMMA AcceptIs ==
  ASSUME SelectTypes, Descriptors, NEW c \in Conn, Accept(c)
  PROVE  \E n \in Fds :
           /\ table[n] = NoConn /\ n <= FdMaxSize
           /\ table' = [table EXCEPT ![n] = c] /\ stage' = [stage EXCEPT ![c] = "open"]
           /\ buf' \in [Buffers -> [fd : Nat, data : Seq(Piece), read_idx : Nat, readable : BOOLEAN]]
           /\ \A i \in Buffers : /\ buf'[i].data = buf[i].data /\ buf'[i].read_idx = buf[i].read_idx
                                 /\ buf'[i].readable = buf[i].readable
                                 /\ i # n => buf'[i].fd = buf[i].fd
                                 /\ i = n => buf'[i].fd = i
<1>1. PICK n : n = NewFd
  OBVIOUS
<1>2. FdMaxSize \in Nat /\ FdLimit \in Nat
  BY SelectAssumption
<1>3. n \in Fds /\ table[n] = NoConn /\ n <= FdMaxSize /\ n \in Nat /\ n >= 2
  BY <1>1, <1>2, NewFdFree DEF Accept, Fds, ListenFd
<1>4. table' = [table EXCEPT ![n] = c] /\ stage' = [stage EXCEPT ![c] = "open"]
  BY <1>1 DEF Accept
<1>5. /\ buf' \in [Buffers -> [fd : Nat, data : Seq(Piece), read_idx : Nat, readable : BOOLEAN]]
      /\ \A i \in Buffers : /\ buf'[i].data = buf[i].data /\ buf'[i].read_idx = buf[i].read_idx
                            /\ buf'[i].readable = buf[i].readable
                            /\ i # n => buf'[i].fd = buf[i].fd
                            /\ i = n => buf'[i].fd = i
  <2>1. n \in Buffers => buf[n].fd = 0
    BY <1>3 DEF Descriptors
  <2>2. CASE n \in Buffers /\ Place(n)
    <3>1. PICK r : r = [buf[n] EXCEPT !.fd = n]
      OBVIOUS
    <3>2. buf' = [buf EXCEPT ![n] = r]
      BY <2>1, <2>2, <3>1 DEF Place
    <3>3. buf[n] \in [fd : Nat, data : Seq(Piece), read_idx : Nat, readable : BOOLEAN]
      BY <2>2 DEF SelectTypes
    <3>4. /\ r \in [fd : Nat, data : Seq(Piece), read_idx : Nat, readable : BOOLEAN]
          /\ r.fd = n /\ r.data = buf[n].data /\ r.read_idx = buf[n].read_idx /\ r.readable = buf[n].readable
      BY <1>3, <3>1, <3>3
    <3>5. buf \in [Buffers -> [fd : Nat, data : Seq(Piece), read_idx : Nat, readable : BOOLEAN]]
      BY DEF SelectTypes
    <3> QED
      BY <2>2, <3>2, <3>4, <3>5
  <2>3. CASE n = FdMaxSize /\ UNCHANGED buf
    <3>1. n \notin Buffers
      BY <1>2, <2>3 DEF Buffers
    <3> QED
      BY <2>3, <3>1 DEF SelectTypes
  <2> QED
    BY <1>1, <2>2, <2>3 DEF Accept, Place
<1> QED
  BY <1>3, <1>4, <1>5

\* A new connection gets a descriptor of its own, and a buffer that no other has.
LEMMA AcceptKeepsFds ==
  ASSUME SelectTypes, Descriptors, NEW c \in Conn, Accept(c) \/ Refuse(c)
  PROVE  SelectTypes' /\ Descriptors'
<1>1. /\ stage[c] = "backlog" /\ Free # {}
      /\ UNCHANGED <<reads, writes, peer, full, sent, taken, echoed, careful>>
      /\ phase' \in {"select", "handle", "ended"} /\ (phase' = "handle" => reads \cup writes # {})
  BY DEF Accept, Refuse, Oldest, Backlog, dataVars, After
<1>2. FdMaxSize \in Nat /\ FdLimit \in Nat /\ NoConn \notin Conn
  BY SelectAssumption
<1>3. CASE Refuse(c)
  <2>1. stage' = [stage EXCEPT ![c] = "closed"] /\ UNCHANGED <<buf, table>>
    BY <1>3 DEF Refuse
  <2>2. stage' \in [Conn -> {"new", "backlog", "open", "closed"}]
    BY <2>1 DEF SelectTypes
  <2>3. SelectTypes'
    BY <1>1, <2>1, <2>2 DEF SelectTypes, Watched
  <2>4. Descriptors'
    BY <1>1, <2>1 DEF Descriptors, SelectTypes
  <2> QED
    BY <2>3, <2>4
<1>4. CASE Accept(c)
  <2>1. PICK n \in Fds :
           /\ table[n] = NoConn /\ n <= FdMaxSize
           /\ table' = [table EXCEPT ![n] = c] /\ stage' = [stage EXCEPT ![c] = "open"]
           /\ buf' \in [Buffers -> [fd : Nat, data : Seq(Piece), read_idx : Nat, readable : BOOLEAN]]
           /\ \A i \in Buffers : /\ buf'[i].data = buf[i].data /\ buf'[i].read_idx = buf[i].read_idx
                                 /\ buf'[i].readable = buf[i].readable
                                 /\ i # n => buf'[i].fd = buf[i].fd
                                 /\ i = n => buf'[i].fd = i
    BY <1>4, AcceptIs
  <2>2. n \in Fds /\ table[n] = NoConn /\ n <= FdMaxSize /\ n \in Nat /\ n >= 2
    BY <1>2, <2>1 DEF Fds, ListenFd
  <2>3. table' = [table EXCEPT ![n] = c] /\ stage' = [stage EXCEPT ![c] = "open"]
    BY <2>1
  <2>4. /\ table' \in [Fds -> Conn \cup {NoConn}] /\ table'[n] = c
        /\ \A i \in Fds : i # n => table'[i] = table[i]
        /\ stage' \in [Conn -> {"new", "backlog", "open", "closed"}] /\ stage'[c] = "open"
        /\ \A b \in Conn : b # c => stage'[b] = stage[b]
    BY <2>2, <2>3 DEF SelectTypes
  <2>5. SelectTypes'
    <3>1. \A i \in Buffers : /\ buf'[i].fd \in {0, i}
                             /\ Len(buf'[i].data) <= Capacity /\ buf'[i].read_idx <= Len(buf'[i].data)
      BY <2>1 DEF SelectTypes
    <3>2. reads \cup writes \subseteq Watched'
      BY <2>2, <2>1 DEF SelectTypes, Watched
    <3> QED
      BY <1>1, <2>4, <2>1, <3>1, <3>2 DEF SelectTypes
  <2>6. Descriptors'
    <3>1. \A i \in Fds : table[i] # NoConn => table[i] # c /\ table[i] \in Conn
      BY <1>1 DEF Descriptors, SelectTypes
    <3>2. \A i \in Buffers : buf'[i].fd # 0 <=> i \in Fds /\ table'[i] # NoConn
      <4> TAKE i \in Buffers
      <4>1. CASE i = n
        BY <1>2, <2>2, <2>4, <2>1, <4>1
      <4>2. CASE i # n
        <5>1. buf'[i].fd = buf[i].fd /\ (i \in Fds => table'[i] = table[i])
          BY <2>1, <2>4, <4>2
        <5> QED
          BY <5>1 DEF Descriptors
      <4> QED
        BY <4>1, <4>2
    <3>3. \A i \in Fds : table'[i] # NoConn => i <= FdMaxSize /\ stage'[table'[i]] = "open"
      <4> TAKE i \in Fds
      <4>1. CASE i = n
        BY <2>2, <2>4, <4>1
      <4>2. CASE i # n
        BY <2>4, <3>1, <4>2 DEF Descriptors
      <4> QED
        BY <4>1, <4>2
    <3>4. \A i, j \in Fds : table'[i] = table'[j] /\ table'[i] # NoConn => i = j
      BY <2>2, <2>4, <3>1 DEF Descriptors
    <3>5. \A b \in Conn : stage'[b] = "open" => \E i \in Fds : table'[i] = b
      <4> SUFFICES ASSUME NEW b \in Conn, stage'[b] = "open" PROVE \E i \in Fds : table'[i] = b
        OBVIOUS
      <4>1. CASE b = c
        BY <2>2, <2>4, <4>1
      <4>2. CASE b # c
        <5>1. PICK i \in Fds : table[i] = b
          BY <2>4, <4>2 DEF Descriptors
        <5>2. i # n
          BY <1>2, <2>2, <5>1
        <5> QED
          BY <2>4, <5>1, <5>2
      <4> QED
        BY <4>1, <4>2
    <3> QED
      BY <3>2, <3>3, <3>4, <3>5 DEF Descriptors
  <2> QED
    BY <2>5, <2>6
<1> QED
  BY <1>3, <1>4

-----------------------------------------------------------------------------
(* Descriptors: the turn of one of them *)

\* The sets of descriptors after one has had its turn.
LEMMA TurnIs ==
  ASSUME SelectTypes, NEW i \in Buffers, Turn(i)
  PROVE  /\ reads' = reads \ {i} /\ writes' = writes \ {i} /\ UNCHANGED peer
         /\ phase' \in {"select", "handle"} /\ (phase' = "handle" => reads' \cup writes' # {})
BY DEF Turn, After

\* The number of pieces received when it has.
LEMMA TakeIs ==
  ASSUME SelectTypes, NEW i \in Buffers, table[i] \in Conn, Take(i)
  PROVE  /\ taken' \in [Conn -> Nat] /\ \A c \in Conn : c # table[i] => taken'[c] = taken[c]
         /\ i \notin reads => taken'[table[i]] = taken[table[i]]
         /\ i \in reads => taken'[table[i]] = Len(sent[table[i]])
         /\ \A c \in Conn : taken'[c] <= Len(sent[c])
<1>1. \A c \in Conn : sent[c] \in Seq(Piece) /\ Len(sent[c]) \in Nat
  BY DEF SelectTypes
<1>2. taken \in [Conn -> Nat] /\ \A c \in Conn : taken[c] <= Len(sent[c])
  BY DEF SelectTypes
<1>3. CASE i \in reads
  <2>1. taken' = [taken EXCEPT ![table[i]] = Len(sent[table[i]])]
    BY <1>3 DEF Take
  <2>2. PICK c \in Conn, L \in Nat : c = table[i] /\ L = Len(sent[c])
    BY <1>1
  <2>3. taken' = [taken EXCEPT ![c] = L]
    BY <2>1, <2>2
  <2> QED
    BY <1>1, <1>2, <1>3, <2>2, <2>3
<1>4. CASE i \notin reads
  BY <1>2, <1>4 DEF Take
<1> QED
  BY <1>3, <1>4

\* The buffer has changed, the descriptor has not.
LEMMA ServedKeepsFds ==
  ASSUME SelectTypes, Descriptors, NEW i \in Buffers, Turn(i), Take(i), UNCHANGED <<table, stage, sent, careful>>,
         NEW b \in Buffer, buf' = [buf EXCEPT ![i] = b], b.fd = buf[i].fd,
         Len(b.data) <= Capacity, b.read_idx <= Len(b.data),
         full' \in [Conn -> BOOLEAN], echoed' \in [Conn -> Seq(Piece)]
  PROVE  SelectTypes' /\ Descriptors'
<1>1. i \in Fds /\ table[i] \in Conn
  BY TurnWatched
<1>2. /\ reads' = reads \ {i} /\ writes' = writes \ {i} /\ UNCHANGED peer
      /\ phase' \in {"select", "handle"} /\ (phase' = "handle" => reads' \cup writes' # {})
  BY TurnIs
<1>3. taken' \in [Conn -> Nat] /\ \A c \in Conn : taken'[c] <= Len(sent[c])
  BY <1>1, TakeIs
<1>4. buf' \in [Buffers -> [fd : Nat, data : Seq(Piece), read_idx : Nat, readable : BOOLEAN]]
      /\ buf'[i] = b /\ \A j \in Buffers : j # i => buf'[j] = buf[j]
  BY DEF SelectTypes, Buffer
<1>5. \A j \in Buffers : buf'[j].fd = buf[j].fd
  BY <1>4
<1>6. \A j \in Buffers : /\ buf'[j].fd \in {0, j}
                         /\ Len(buf'[j].data) <= Capacity /\ buf'[j].read_idx <= Len(buf'[j].data)
  BY <1>4, <1>5 DEF SelectTypes
<1>7. reads' \cup writes' \subseteq Watched'
  BY <1>2, <1>5 DEF SelectTypes, Watched
<1>8. SelectTypes'
  BY <1>2, <1>3, <1>4, <1>6, <1>7 DEF SelectTypes
<1>9. Descriptors'
  BY <1>5 DEF Descriptors
<1> QED
  BY <1>8, <1>9

\* The buffer after a send.
LEMMA SentIs ==
  ASSUME NEW b \in Buffer, b.read_idx <= Len(b.data), NEW n \in 0 .. Len(Pending(b))
  PROVE  /\ Len(Pending(b)) = Len(b.data) - b.read_idx /\ Pending(b) \in Seq(Piece)
         /\ \A k \in 1 .. Len(Pending(b)) : Pending(b)[k] = b.data[b.read_idx + k]
         /\ Sent(b, n) \in Buffer /\ Sent(b, n).fd = b.fd
         /\ n = Len(Pending(b)) => Empty(Sent(b, n))
         /\ n # Len(Pending(b)) => /\ Sent(b, n).data = b.data /\ Sent(b, n).read_idx = b.read_idx + n
                                   /\ Sent(b, n).readable = b.readable
         /\ Len(Sent(b, n).data) <= Len(b.data) /\ Sent(b, n).read_idx <= Len(Sent(b, n).data)
<1>1. PICK D \in Seq(Piece), r \in Nat, L \in Nat : D = b.data /\ r = b.read_idx /\ L = Len(D) /\ r <= L
  <2>1. b.data \in Seq(Piece) /\ b.read_idx \in Nat /\ Len(b.data) \in Nat
    BY DEF Buffer
  <2> QED
    BY <2>1
<1>2. PICK N \in Nat : L = r + N
  <2>1. L - r \in Nat /\ L = r + (L - r)
    BY <1>1
  <2> QED
    BY <2>1
<1> DEFINE p == SubSeq(D, r + 1, L)
<1>3. p \in Seq(Piece) /\ Len(p) = N /\ \A k \in 1 .. N : p[k] = D[r + k]
  <2>1. D \in Seq(Piece) /\ r \in Nat /\ N \in Nat /\ L \in Nat /\ L = r + N /\ L <= Len(D)
    BY <1>1, <1>2
  <2> HIDE DEF p
  <2>2. /\ SubSeq(D, r + 1, L) \in Seq(Piece) /\ Len(SubSeq(D, r + 1, L)) = N
        /\ \A k \in 1 .. N : SubSeq(D, r + 1, L)[k] = D[r + k]
    BY ONLY <2>1, PartIs
  <2> QED
    BY ONLY <2>2 DEF p
<1> HIDE DEF p
<1>4. Pending(b) = p
  BY <1>1 DEF Pending, p
<1>5. n \in 0 .. N /\ Len(D) - r = N
  BY <1>1, <1>2, <1>3, <1>4
<1>6. Pending(b) \in Seq(Piece) /\ Len(Pending(b)) = N /\ \A k \in 1 .. N : Pending(b)[k] = D[r + k]
  BY ONLY <1>3, <1>4
<1>7. PICK q : q = Sent(b, n)
  OBVIOUS
<1>8. /\ b = [fd |-> b.fd, data |-> D, read_idx |-> r, readable |-> b.readable]
      /\ b.fd \in Nat /\ b.readable \in BOOLEAN
  BY <1>1 DEF Buffer
<1>9. CASE n = N
  <2>1. q = [b EXCEPT !.data = <<>>, !.read_idx = 0, !.readable = FALSE]
    BY ONLY <1>6, <1>7, <1>9 DEF Sent
  <2>2. q = [fd |-> b.fd, data |-> <<>>, read_idx |-> 0, readable |-> FALSE]
    BY ONLY <1>8, <2>1
  <2>3. <<>> \in Seq(Piece) /\ Len(<<>>) = 0
    BY ONLY EmptySeq
  <2>4. q \in Buffer /\ q.fd = b.fd /\ Empty(q)
    BY ONLY <1>8, <2>2, <2>3 DEF Buffer, Empty
  <2>5. Len(q.data) <= L /\ q.read_idx <= Len(q.data)
    BY ONLY <2>2, <2>3, L \in Nat
  <2> QED
    BY ONLY <1>1, <1>2, <1>5, <1>6, <1>7, <1>9, <2>4, <2>5
<1>10. CASE n # N
  <2>1. q = [b EXCEPT !.read_idx = @ + n]
    BY ONLY <1>6, <1>7, <1>10 DEF Sent
  <2>2. q = [fd |-> b.fd, data |-> D, read_idx |-> r + n, readable |-> b.readable]
    BY ONLY <1>8, <2>1
  <2>3. r + n \in Nat /\ r + n <= L
    BY ONLY <1>2, <1>5, r \in Nat, N \in Nat
  <2>4. q \in Buffer /\ q.fd = b.fd /\ q.data = D /\ q.read_idx = r + n /\ q.readable = b.readable
    BY ONLY <1>8, <2>2, <2>3, D \in Seq(Piece) DEF Buffer
  <2>5. Len(q.data) <= L /\ q.read_idx <= Len(q.data)
    BY ONLY <1>1, <2>3, <2>4, L \in Nat
  <2> QED
    BY ONLY <1>1, <1>2, <1>5, <1>6, <1>7, <1>10, <2>4, <2>5
<1> QED
  BY <1>9, <1>10

\* A turn without a send leaves the descriptor with its connection.
LEMMA ReceiveKeepsFds ==
  ASSUME SelectTypes, Descriptors, NEW i \in Buffers, Receive(i)
  PROVE  SelectTypes' /\ Descriptors'
<1>1. Turn(i) /\ Take(i) /\ UNCHANGED <<table, stage, full, sent, echoed, careful>>
      /\ buf' = [buf EXCEPT ![i] = Filled(i)]
  BY DEF Receive
<1>2. table[i] \in Conn
  BY <1>1, TurnWatched
<1>3. PICK b : b = Filled(i)
  OBVIOUS
<1>4. b \in Buffer /\ b.fd = buf[i].fd /\ b.read_idx = buf[i].read_idx
      /\ Len(b.data) <= Capacity /\ Len(buf[i].data) <= Len(b.data)
  BY <1>2, <1>3, FilledIs
<1>5. b.read_idx <= Len(b.data)
  <2>1. buf[i].read_idx <= Len(buf[i].data) /\ buf[i] \in Buffer
    BY DEF SelectTypes, Buffer
  <2>2. Len(buf[i].data) \in Nat /\ Len(b.data) \in Nat /\ buf[i].read_idx \in Nat
    BY <1>4, <2>1 DEF Buffer
  <2> QED
    BY <1>4, <2>1, <2>2
<1>6. full' \in [Conn -> BOOLEAN] /\ echoed' \in [Conn -> Seq(Piece)]
  BY <1>1 DEF SelectTypes
<1>7. buf' = [buf EXCEPT ![i] = b]
  BY <1>1, <1>3
<1> QED
  BY <1>1, <1>4, <1>5, <1>6, <1>7, ServedKeepsFds

\* What a turn with a send does.
LEMMA AnswerIs ==
  ASSUME SelectTypes, Descriptors, NEW i \in Buffers, Answer(i)
  PROVE  \E b \in Buffer, n \in Nat :
           /\ b = Filled(i) /\ b.fd = buf[i].fd /\ Len(b.data) <= Capacity /\ b.read_idx <= Len(b.data)
           /\ n \in 0 .. Len(Pending(b))
           /\ buf' = [buf EXCEPT ![i] = Sent(b, n)]
           /\ echoed' = [echoed EXCEPT ![table[i]] = @ \o SubSeq(Pending(b), 1, n)]
           /\ full' \in [Conn -> BOOLEAN]
<1>1. Turn(i)
  BY DEF Answer
<1>2. table[i] \in Conn
  BY <1>1, TurnWatched
<1>3. PICK b : b = Filled(i)
  OBVIOUS
<1>4. b \in Buffer /\ b.fd = buf[i].fd /\ b.read_idx = buf[i].read_idx
      /\ Len(b.data) <= Capacity /\ Len(buf[i].data) <= Len(b.data)
  BY <1>2, <1>3, FilledIs
<1>5. b.read_idx <= Len(b.data)
  <2>1. buf[i].read_idx <= Len(buf[i].data) /\ buf[i] \in Buffer
    BY DEF SelectTypes, Buffer
  <2>2. Len(buf[i].data) \in Nat /\ Len(b.data) \in Nat /\ buf[i].read_idx \in Nat
    BY <1>4, <2>1 DEF Buffer
  <2> QED
    BY <1>4, <2>1, <2>2
<1>6. Len(Pending(b)) \in Nat
  <2>1. 0 \in Nat
    OBVIOUS
  <2>2. b.data \in Seq(Piece) /\ b.read_idx \in Nat
    BY <1>4 DEF Buffer
  <2>3. b.read_idx + 1 \in Int /\ Len(b.data) \in Int /\ \A k \in b.read_idx + 1 .. Len(b.data) : b.data[k] \in Piece
    BY <2>2
  <2>4. Pending(b) \in Seq(Piece)
    BY <2>3, SubSeqProperties DEF Pending
  <2> QED
    BY <2>4
<1>7. PICK n \in (IF Len(Pending(b)) = 0 THEN 0 ELSE 1) .. Len(Pending(b)) :
        /\ buf' = [buf EXCEPT ![i] = Sent(b, n)]
        /\ echoed' = [echoed EXCEPT ![table[i]] = @ \o SubSeq(Pending(b), 1, n)]
        /\ full' = [full EXCEPT ![table[i]] = n < Len(Pending(b))]
  BY <1>3 DEF Answer
<1>8. n \in Nat /\ n \in 0 .. Len(Pending(b))
  BY <1>6
<1>9. full' \in [Conn -> BOOLEAN]
  <2>1. PICK t : t = (n < Len(Pending(b)))
    OBVIOUS
  <2>2. t \in BOOLEAN
    BY <2>1
  <2>3. full' = [full EXCEPT ![table[i]] = t]
    BY <1>7, <2>1, Zenon
  <2> QED
    BY <2>2, <2>3 DEF SelectTypes
<1> QED
  BY <1>3, <1>4, <1>5, <1>7, <1>8, <1>9

\* So does a turn with a send.
LEMMA AnswerKeepsFds ==
  ASSUME SelectTypes, Descriptors, NEW i \in Buffers, Answer(i)
  PROVE  SelectTypes' /\ Descriptors'
<1>1. Turn(i) /\ Take(i) /\ UNCHANGED <<table, stage, sent, careful>>
  BY DEF Answer
<1>2. table[i] \in Conn
  BY <1>1, TurnWatched
<1>3. PICK b \in Buffer, n \in Nat :
           /\ b = Filled(i) /\ b.fd = buf[i].fd /\ Len(b.data) <= Capacity /\ b.read_idx <= Len(b.data)
           /\ n \in 0 .. Len(Pending(b))
           /\ buf' = [buf EXCEPT ![i] = Sent(b, n)]
           /\ echoed' = [echoed EXCEPT ![table[i]] = @ \o SubSeq(Pending(b), 1, n)]
           /\ full' \in [Conn -> BOOLEAN]
  BY AnswerIs
<1>4. /\ Pending(b) \in Seq(Piece) /\ Sent(b, n) \in Buffer /\ Sent(b, n).fd = b.fd
      /\ Len(Sent(b, n).data) <= Len(b.data) /\ Sent(b, n).read_idx <= Len(Sent(b, n).data)
  BY <1>3, SentIs
<1>5. Len(Sent(b, n).data) <= Capacity
  <2>1. Len(Sent(b, n).data) \in Nat /\ Len(b.data) \in Nat /\ Capacity \in Nat
    BY <1>4, SelectAssumption DEF Buffer
  <2> QED
    BY <1>3, <1>4, <2>1
<1>6. echoed' \in [Conn -> Seq(Piece)]
  <2>1. n \in Int /\ \A k \in 1 .. n : Pending(b)[k] \in Piece
    BY <1>3, <1>4
  <2>2. SubSeq(Pending(b), 1, n) \in Seq(Piece)
    BY <2>1, SubSeqProperties
  <2>3. echoed[table[i]] \in Seq(Piece) /\ echoed \in [Conn -> Seq(Piece)]
    BY <1>2 DEF SelectTypes
  <2>4. echoed[table[i]] \o SubSeq(Pending(b), 1, n) \in Seq(Piece)
    BY <2>2, <2>3, ConcatProperties
  <2> QED
    BY <1>2, <1>3, <2>3, <2>4
<1>7. Sent(b, n).fd = buf[i].fd
  BY <1>3, <1>4
<1> QED
  BY <1>1, <1>3, <1>4, <1>5, <1>6, <1>7, ServedKeepsFds

\* A descriptor that is closed is free and not watched.
LEMMA HangUpKeepsFds ==
  ASSUME SelectTypes, Descriptors, NEW i \in Buffers, HangUp(i)
  PROVE  SelectTypes' /\ Descriptors'
<1>1. Turn(i) /\ Take(i) /\ UNCHANGED <<full, sent, echoed, careful>>
      /\ buf' = [buf EXCEPT ![i] = [Filled(i) EXCEPT !.fd = 0]]
  BY DEF HangUp
<1>2. i \in Fds /\ table[i] \in Conn /\ stage[table[i]] = "open" /\ NoConn \notin Conn
  BY <1>1, TurnWatched, SelectAssumption
<1>3. PICK f : f = Filled(i)
  OBVIOUS
<1>4. f \in Buffer /\ f.read_idx = buf[i].read_idx
      /\ Len(f.data) <= Capacity /\ Len(buf[i].data) <= Len(f.data)
  BY <1>2, <1>3, FilledIs
<1>5. f.read_idx <= Len(f.data)
  <2>1. buf[i].read_idx <= Len(buf[i].data) /\ buf[i] \in Buffer
    BY DEF SelectTypes, Buffer
  <2>2. Len(buf[i].data) \in Nat /\ Len(f.data) \in Nat /\ buf[i].read_idx \in Nat
    BY <1>4, <2>1 DEF Buffer
  <2> QED
    BY <1>4, <2>1, <2>2
<1>6. PICK b : b = [f EXCEPT !.fd = 0]
  OBVIOUS
<1>7. b \in Buffer /\ b.fd = 0 /\ b.data = f.data /\ b.read_idx = f.read_idx
  BY <1>4, <1>6 DEF Buffer
<1>8. /\ buf' \in [Buffers -> [fd : Nat, data : Seq(Piece), read_idx : Nat, readable : BOOLEAN]]
      /\ buf'[i] = b /\ \A j \in Buffers : j # i => buf'[j] = buf[j]
  <2>1. buf' = [buf EXCEPT ![i] = b]
    BY <1>1, <1>3, <1>6
  <2> QED
    BY <1>7, <2>1 DEF SelectTypes, Buffer
<1>9. /\ reads' = reads \ {i} /\ writes' = writes \ {i} /\ UNCHANGED peer
      /\ phase' \in {"select", "handle"} /\ (phase' = "handle" => reads' \cup writes' # {})
  BY <1>1, TurnIs
<1>10. taken' \in [Conn -> Nat] /\ \A c \in Conn : taken'[c] <= Len(sent[c])
  BY <1>1, <1>2, TakeIs
<1>11. PICK c \in Conn : c = table[i]
  BY <1>2
<1>12. /\ stage' \in [Conn -> {"new", "backlog", "open", "closed"}] /\ stage'[c] = "closed"
       /\ \A d \in Conn : d # c => stage'[d] = stage[d]
       /\ table' \in [Fds -> Conn \cup {NoConn}] /\ table'[i] = NoConn
       /\ \A j \in Fds : j # i => table'[j] = table[j]
  BY <1>2, <1>11 DEF HangUp, SelectTypes
<1>13. \A j \in Buffers : /\ buf'[j].fd \in {0, j}
                          /\ Len(buf'[j].data) <= Capacity /\ buf'[j].read_idx <= Len(buf'[j].data)
  BY <1>4, <1>5, <1>7, <1>8 DEF SelectTypes
<1>14. reads' \cup writes' \subseteq Watched'
  BY <1>8, <1>9 DEF SelectTypes, Watched
<1>15. SelectTypes'
  BY <1>1, <1>8, <1>9, <1>10, <1>12, <1>13, <1>14 DEF SelectTypes
<1>16. Descriptors'
  <2>1. \A j \in Fds : j # i /\ table[j] # NoConn => table[j] # c /\ table[j] \in Conn
    BY <1>2, <1>11 DEF Descriptors, SelectTypes
  <2>2. \A j \in Buffers : buf'[j].fd # 0 <=> j \in Fds /\ table'[j] # NoConn
    <3> TAKE j \in Buffers
    <3>1. CASE j = i
      BY ONLY <1>7, <1>8, <1>12, <3>1
    <3>2. CASE j # i
      <4>1. buf[j].fd # 0 <=> j \in Fds /\ table[j] # NoConn
        BY DEF Descriptors
      <4> QED
        BY ONLY <1>8, <1>12, <3>2, <4>1, j \in Buffers
    <3> QED
      BY <3>1, <3>2
  <2>3. \A j \in Fds : table'[j] # NoConn => j <= FdMaxSize /\ stage'[table'[j]] = "open"
    <3> TAKE j \in Fds
    <3>1. CASE j = i
      BY <1>12, <3>1
    <3>2. CASE j # i
      BY <1>12, <2>1, <3>2 DEF Descriptors
    <3> QED
      BY <3>1, <3>2
  <2>4. \A j, k \in Fds : table'[j] = table'[k] /\ table'[j] # NoConn => j = k
    <3> SUFFICES ASSUME NEW j \in Fds, NEW k \in Fds, table'[j] = table'[k], table'[j] # NoConn PROVE j = k
      OBVIOUS
    <3>1. j # i /\ k # i
      BY <1>12
    <3> QED
      BY <1>12, <3>1 DEF Descriptors
  <2>5. \A d \in Conn : stage'[d] = "open" => \E j \in Fds : table'[j] = d
    <3> SUFFICES ASSUME NEW d \in Conn, stage'[d] = "open" PROVE \E j \in Fds : table'[j] = d
      OBVIOUS
    <3>1. d # c
      BY <1>12
    <3>2. PICK j \in Fds : table[j] = d
      BY <1>12, <3>1 DEF Descriptors
    <3>3. j # i
      BY <1>11, <3>1, <3>2
    <3> QED
      BY <1>12, <3>2, <3>3
  <2> QED
    BY <2>2, <2>3, <2>4, <2>5 DEF Descriptors
<1> QED
  BY <1>15, <1>16

\* Every step keeps the ranges and the tables.
LEMMA FdsKept == ASSUME SelectTypes, Descriptors, [Next]_vars PROVE SelectTypes' /\ Descriptors'
<1>1. CASE UNCHANGED vars
  BY <1>1 DEF vars, serverVars, dataVars, SelectTypes, Descriptors, Watched
<1>2. CASE AcceptFails
  <2>1. phase' = "ended" /\ UNCHANGED <<reads, writes, buf, table, stage, peer, full, sent, taken, echoed, careful>>
    BY <1>2 DEF AcceptFails, dataVars
  <2>2. SelectTypes'
    BY <2>1 DEF SelectTypes, Watched
  <2>3. Descriptors'
    BY <2>1 DEF Descriptors
  <2> QED
    BY <2>2, <2>3
<1>3. CASE Next /\ ~AcceptFails
  BY <1>3, SelectKeepsFds, AcceptKeepsFds, ReceiveKeepsFds, AnswerKeepsFds, HangUpKeepsFds, ClientsKeepFds
     DEF Next, Server
<1> QED
  BY <1>1, <1>2, <1>3

\* One connection at most has the descriptor FD_MAX_SIZE.
LEMMA FdsImply == ASSUME SelectTypes, Descriptors PROVE OnlyOneLost
<1>1. TypeOK
  <2>1. \A s \in Seq(Piece) : ToSet(s) \subseteq Piece
    BY DEF ToSet
  <2>2. \A i \in Buffers : /\ buf[i].fd \in {0, i} /\ buf[i].readable \in BOOLEAN
                           /\ Len(buf[i].data) <= Capacity /\ buf[i].read_idx <= Len(buf[i].data)
                           /\ ToSet(buf[i].data) \subseteq Piece
    BY <2>1 DEF SelectTypes
  <2>3. \A c \in Conn : taken[c] <= Len(sent[c]) /\ ToSet(echoed[c]) \subseteq Piece
    BY <2>1 DEF SelectTypes
  <2>4. reads \subseteq Buffers /\ writes \subseteq Buffers
    BY DEF SelectTypes, Watched
  <2> QED
    BY <2>2, <2>3, <2>4 DEF SelectTypes, TypeOK
<1>2. FdMaxSize \in Nat /\ FdLimit \in Nat /\ NoConn \notin Conn
  BY SelectAssumption
<1>3. ASSUME NEW c \in Lost PROVE c = table[FdMaxSize]
  <2>1. c \in Conn /\ stage[c] = "open" /\ \A i \in Watched : table[i] # c
    BY DEF Lost
  <2>2. PICK i \in Fds : table[i] = c
    BY <2>1 DEF Descriptors
  <2>3. i \notin Buffers
    BY <1>2, <2>1, <2>2 DEF Descriptors, Watched
  <2>4. i <= FdMaxSize
    BY <1>2, <2>1, <2>2 DEF Descriptors
  <2>5. i = FdMaxSize
    BY <1>2, <2>3, <2>4 DEF Buffers, Fds
  <2> QED
    BY <2>2, <2>5
<1>4. Lost \subseteq {table[FdMaxSize]}
  BY <1>3
<1>5. Cardinality(Lost) <= 1
  <2>1. IsFiniteSet({table[FdMaxSize]}) /\ Cardinality({table[FdMaxSize]}) = 1
    BY FS_Singleton
  <2> QED
    BY <1>4, <2>1, FS_Subset
<1>6. \A i \in Buffers : buf[i].fd # 0 <=> i \in Fds /\ table[i] # NoConn
  BY DEF Descriptors
<1> QED
  BY <1>1, <1>5, <1>6 DEF OnlyOneLost

\* At most one open connection is not watched, whatever FD_MAX_SIZE is and
\* however many descriptors there are, and select meets no closed descriptor.
THEOREM OneLost == Spec => []OnlyOneLost
<1>1. Init => SelectTypes /\ Descriptors
  BY SelectStarts DEF SelectInv
<1>2. SelectTypes /\ Descriptors /\ [Next]_vars => SelectTypes' /\ Descriptors'
  BY FdsKept
<1>3. SelectTypes /\ Descriptors => OnlyOneLost
  BY FdsImply
<1> QED
  BY <1>1, <1>2, <1>3, PTL DEF Spec

-----------------------------------------------------------------------------
(* Echoes: clients, select and accept *)

\* What a client waits for.
LEMMA UnechoedIs ==
  ASSUME SelectTypes, NEW c \in Conn, Len(echoed[c]) <= Len(sent[c])
  PROVE  /\ Len(Unechoed(c)) = Len(sent[c]) - Len(echoed[c])
         /\ ~Waiting(c) => \A k \in Len(echoed[c]) + 1 .. Len(sent[c]) : sent[c][k].line = FALSE
<1>1. PICK s \in Seq(Piece), e \in Nat, L \in Nat : s = sent[c] /\ e = Len(echoed[c]) /\ L = Len(s) /\ e <= L
  <2>1. sent[c] \in Seq(Piece) /\ echoed[c] \in Seq(Piece)
    BY DEF SelectTypes
  <2>2. Len(sent[c]) \in Nat /\ Len(echoed[c]) \in Nat
    BY <2>1
  <2> QED
    BY <2>1, <2>2
<1>2. PICK N \in Nat : L = e + N
  <2>1. L - e \in Nat /\ L = e + (L - e)
    BY <1>1
  <2> QED
    BY <2>1
<1> DEFINE u == SubSeq(s, e + 1, L)
<1>3. u \in Seq(Piece) /\ Len(u) = N /\ \A k \in 1 .. N : u[k] = s[e + k]
  <2>1. e + 1 \in Int /\ L \in Int /\ \A k \in e + 1 .. L : s[k] \in Piece
    BY <1>1
  <2>2. /\ u \in Seq(Piece)
        /\ Len(u) = IF e + 1 <= L THEN L - (e + 1) + 1 ELSE 0
        /\ \A k \in 1 .. L - (e + 1) + 1 : u[k] = s[(e + 1) + k - 1]
    BY <2>1, SubSeqProperties
  <2>3. \A k \in 1 .. N : k \in 1 .. L - (e + 1) + 1 /\ (e + 1) + k - 1 = e + k
    BY <1>1, <1>2
  <2>4. Len(u) = N
    BY <1>1, <1>2, <2>2
  <2> QED
    BY <2>2, <2>3, <2>4
<1>4. Unechoed(c) = u
  BY <1>1 DEF Unechoed
<1> HIDE DEF u
<1>5. Len(Unechoed(c)) = Len(sent[c]) - Len(echoed[c])
  BY <1>1, <1>2, <1>3, <1>4
<1>6. ASSUME ~Waiting(c), NEW k \in e + 1 .. L PROVE s[k].line = FALSE
  <2>1. k - e \in 1 .. N /\ e + (k - e) = k
    BY <1>1, <1>2
  <2>2. u[k - e] = s[k]
    BY <1>3, <2>1
  <2>3. ToSet(u) = {u[j] : j \in 1 .. N}
    <3>1. DOMAIN u = 1 .. N
      BY <1>3
    <3> QED
      BY <3>1 DEF ToSet
  <2>4. s[k] \in ToSet(u)
    BY <2>1, <2>2, <2>3
  <2>5. ~s[k].line
    BY <1>4, <1>6, <2>4 DEF Waiting
  <2>6. s[k] \in Piece
    BY <1>1, <1>2, <1>3, <2>1, <2>2
  <2> QED
    BY <2>5, <2>6 DEF Piece
<1> QED
  BY <1>1, <1>5, <1>6

\* Clients that do anything but send.
LEMMA OthersEcho ==
  ASSUME SelectTypes, Echoes, careful = TRUE, NEW c \in Conn, Connect(c) \/ Leave(c) \/ Drain(c)
  PROVE  Echoes'
<1>1. UNCHANGED <<writes, buf, table, sent, taken, echoed>>
  BY DEF Connect, Leave, Drain, serverVars, dataVars
<1>2. \A b \in Conn : stage'[b] \in {"new", "backlog"} => stage[b] \in {"new", "backlog"}
  BY DEF Connect, Leave, Drain, SelectTypes
<1>3. ASSUME NEW b \in Conn, peer'[b] # "up" PROVE Len(echoed[b]) = Len(sent[b])
  <2>1. CASE peer[b] # "up"
    BY <2>1 DEF Echoes, Honest
  <2>2. CASE peer[b] = "up"
    <3>1. b = c /\ Leave(c)
      BY <1>3, <2>2 DEF Connect, Leave, Drain, SelectTypes
    <3>2. Unechoed(c) = <<>>
      BY <3>1 DEF Leave, MayLeave
    <3>3. PICK e \in Nat, t \in Nat, L \in Nat :
            e = Len(echoed[c]) /\ t = taken[c] /\ L = Len(sent[c]) /\ e <= t /\ t <= L
      <4>1. Len(echoed[c]) \in Nat /\ taken[c] \in Nat /\ Len(sent[c]) \in Nat
        BY DEF SelectTypes
      <4> QED
        BY <4>1 DEF SelectTypes, Echoes, Honest
    <3>4. Len(Unechoed(c)) = Len(sent[c]) - Len(echoed[c])
      <4>1. Len(echoed[c]) <= Len(sent[c])
        BY <3>3
      <4> QED
        BY <4>1, UnechoedIs
    <3>5. 0 = L - e
      BY <3>2, <3>3, <3>4
    <3>6. L = e
      BY <3>5
    <3> QED
      BY <3>1, <3>3, <3>6
  <2> QED
    BY <2>1, <2>2
<1>4. ASSUME NEW b \in Conn PROVE Honest(b)'
  <2>1. Honest(b)
    BY DEF Echoes
  <2> QED
    BY <1>1, <1>2, <1>3, <2>1 DEF Honest
<1> QED
  BY <1>1, <1>4 DEF Echoes, Empty, Holds

\* A client that sends waits for no line, and there is room in a buffer.
LEMMA SendEchoes ==
  ASSUME SelectTypes, Descriptors, Echoes, careful = TRUE, NEW c \in Conn, Send(c)
  PROVE  Echoes'
<1>1. /\ UNCHANGED <<writes, buf, table, stage, peer, taken, echoed>>
      /\ peer[c] = "up" /\ Len(Unechoed(c)) < Capacity /\ ~Waiting(c)
  BY DEF Send, Alive, MaySend, serverVars
<1>2. PICK x : sent' = [sent EXCEPT ![c] = Append(@, x)] /\ x \in {[from |-> c, no |-> Len(sent[c]) + 1, line |-> l] : l \in BOOLEAN}
  BY DEF Send
<1>3. PICK e \in Nat, t \in Nat, L \in Nat :
        e = Len(echoed[c]) /\ t = taken[c] /\ L = Len(sent[c]) /\ e <= t /\ t <= L
  <2>1. Len(echoed[c]) \in Nat /\ taken[c] \in Nat /\ Len(sent[c]) \in Nat
    BY DEF SelectTypes
  <2> QED
    BY <2>1 DEF SelectTypes, Echoes, Honest
<1>4. L - e < Capacity /\ \A k \in e + 1 .. L : sent[c][k].line = FALSE
  <2>1. e <= L
    BY <1>3
  <2>2. Len(echoed[c]) <= Len(sent[c])
    BY <1>3, <2>1
  <2> QED
    BY <1>1, <1>3, <2>2, UnechoedIs
<1>5. /\ Len(sent'[c]) = L + 1 /\ \A k \in 1 .. L : sent'[c][k] = sent[c][k]
      /\ \A b \in Conn : b # c => sent'[b] = sent[b]
  <2>1. sent[c] \in Seq(Piece) /\ sent \in [Conn -> Seq(Piece)]
    BY DEF SelectTypes
  <2>2. sent'[c] = Append(sent[c], x)
    BY <1>2, <2>1
  <2>3. Len(sent'[c]) = L + 1
    BY <1>3, <2>1, <2>2
  <2>4. \A k \in 1 .. L : sent'[c][k] = sent[c][k]
    BY <1>3, <2>1, <2>2
  <2>5. \A b \in Conn : b # c => sent'[b] = sent[b]
    BY <1>2, <2>1
  <2> QED
    BY <2>3, <2>4, <2>5
<1>6. Honest(c)'
  <2>1. \A k \in 1 .. e : echoed[c][k] = sent'[c][k]
    <3>1. \A k \in 1 .. e : k \in 1 .. L
      BY <1>3
    <3> QED
      BY <1>3, <1>5, <3>1 DEF Echoes, Honest
  <2>2. (L + 1) - e <= Capacity
    BY <1>4, SelectAssumption
  <2>3. \A k \in e + 1 .. (L + 1) - 1 : sent'[c][k].line = FALSE
    <3>1. \A k \in e + 1 .. (L + 1) - 1 : k \in e + 1 .. L /\ k \in 1 .. L
      OBVIOUS
    <3> QED
      BY <1>4, <1>5, <3>1
  <2>4. stage[c] \in {"new", "backlog"} => t = 0
    BY <1>3 DEF Echoes, Honest
  <2> QED
    BY <1>1, <1>3, <1>5, <2>1, <2>2, <2>3, <2>4 DEF Honest
<1>7. ASSUME NEW b \in Conn, b # c PROVE Honest(b)'
  <2>1. Honest(b)
    BY DEF Echoes
  <2> QED
    BY <1>1, <1>5, <1>7, <2>1 DEF Honest
<1>8. ASSUME NEW i \in Buffers, buf[i].fd # 0 PROVE Holds(buf[i], table[i], taken[table[i]])'
  <2>1. Holds(buf[i], table[i], taken[table[i]]) /\ table[i] \in Conn
    BY <1>8 DEF Echoes, Descriptors, SelectTypes
  <2>2. CASE table[i] # c
    BY <1>1, <1>5, <2>1, <2>2 DEF Holds
  <2>3. CASE table[i] = c
    <3>1. buf[i].readable # TRUE
      <4> SUFFICES ASSUME buf[i].readable = TRUE PROVE FALSE
        OBVIOUS
      <4>1. t = L /\ e < L /\ sent[c][L].line = TRUE
        BY <1>3, <2>1, <2>3 DEF Holds
      <4>2. L \in e + 1 .. L
        BY <4>1
      <4> QED
        BY <1>4, <4>1, <4>2
    <3>2. PICK n \in Int : n = Len(buf[i].data) - buf[i].read_idx /\ n = t - e
      BY <1>3, <2>1, <2>3 DEF Holds
    <3>3. \A k \in 1 .. n : e + k \in 1 .. L
      BY <1>3, <3>2
    <3>4. \A k \in 1 .. n : buf[i].data[buf[i].read_idx + k] = sent'[c][e + k]
      BY <1>3, <1>5, <2>1, <2>3, <3>2, <3>3 DEF Holds
    <3>5. buf[i].read_idx = 0
      BY <2>1, <3>1 DEF Holds
    <3> QED
      BY <1>1, <1>3, <2>3, <3>1, <3>2, <3>4, <3>5 DEF Holds
  <2> QED
    BY <2>2, <2>3
<1> QED
  BY <1>1, <1>6, <1>7, <1>8 DEF Echoes, Empty

\* select, and what accept does.
LEMMA SelectEchoes ==
  ASSUME SelectTypes, Echoes, Select
  PROVE  Echoes'
<1>1. writes' = Writable /\ UNCHANGED <<buf, table, stage, peer, sent, taken, echoed>>
  BY DEF Select, dataVars
<1>2. \A i \in Buffers : buf[i].readable \in BOOLEAN
  BY DEF SelectTypes
<1>3. ASSUME NEW i \in Writable PROVE buf[i].readable = TRUE
  <2>1. i \in Buffers /\ buf[i].readable
    BY DEF Writable, Watched
  <2> QED
    BY <1>2, <2>1
<1>4. \A i \in writes' : buf[i].readable = TRUE
  BY <1>1, <1>3
<1>5. \A c \in Conn : Honest(c)'
  BY <1>1 DEF Echoes, Honest
<1> QED
  BY <1>1, <1>4, <1>5 DEF Echoes, Empty, Holds

\* The buffer of a new connection is empty: its last user left nothing there.
LEMMA AcceptEchoes ==
  ASSUME SelectTypes, Descriptors, Echoes, NEW c \in Conn, Accept(c) \/ Refuse(c)
  PROVE  Echoes'
<1>1. stage[c] = "backlog" /\ UNCHANGED <<writes, peer, sent, taken, echoed>>
  BY DEF Accept, Refuse, Oldest, Backlog, dataVars
<1>2. \A b \in Conn : stage'[b] \in {"new", "backlog"} => stage[b] \in {"new", "backlog"}
  BY DEF Accept, Refuse, SelectTypes
<1>3. ASSUME NEW b \in Conn PROVE Honest(b)'
  <2>1. Honest(b)
    BY DEF Echoes
  <2> QED
    BY <1>1, <1>2, <2>1 DEF Honest
<1>4. CASE Refuse(c)
  <2>1. UNCHANGED <<buf, table>>
    BY <1>4 DEF Refuse
  <2> QED
    BY <1>1, <1>3, <2>1 DEF Echoes, Empty, Holds
<1>5. CASE Accept(c)
  <2>1. PICK n \in Fds :
           /\ table[n] = NoConn /\ n <= FdMaxSize
           /\ table' = [table EXCEPT ![n] = c] /\ stage' = [stage EXCEPT ![c] = "open"]
           /\ buf' \in [Buffers -> [fd : Nat, data : Seq(Piece), read_idx : Nat, readable : BOOLEAN]]
           /\ \A i \in Buffers : /\ buf'[i].data = buf[i].data /\ buf'[i].read_idx = buf[i].read_idx
                                 /\ buf'[i].readable = buf[i].readable
                                 /\ i # n => buf'[i].fd = buf[i].fd
                                 /\ i = n => buf'[i].fd = i
    BY <1>5, AcceptIs
  <2>2. ASSUME NEW i \in Buffers
        PROVE  IF buf'[i].fd = 0 THEN Empty(buf[i])' ELSE Holds(buf[i], table[i], taken[table[i]])'
    <3>1. CASE i = n
      <4>1. Empty(buf[i])
        BY <2>1, <3>1 DEF Descriptors, Echoes
      <4>2. Empty(buf[i])'
        BY <2>1, <4>1 DEF Empty
      <4>3. table'[i] = c
        BY <2>1, <3>1 DEF SelectTypes
      <4>4. taken[c] = 0 /\ Len(echoed[c]) = 0
        <5>1. taken[c] = 0 /\ Len(echoed[c]) <= taken[c]
          BY <1>1 DEF Echoes, Honest
        <5>2. Len(echoed[c]) \in Nat
          BY DEF SelectTypes
        <5> QED
          BY <5>1, <5>2
      <4>5. Len(buf'[i].data) = 0 /\ buf'[i].read_idx = 0 /\ buf'[i].readable = FALSE
        BY <4>2 DEF Empty
      <4>6. Holds(buf[i], table[i], taken[table[i]])'
        BY <1>1, <4>3, <4>4, <4>5 DEF Holds
      <4> QED
        BY <4>2, <4>6
    <3>2. CASE i # n
      <4>1. buf'[i].fd = buf[i].fd
        BY <2>1, <3>2
      <4>2. CASE buf[i].fd = 0
        BY <2>1, <4>1, <4>2 DEF Echoes, Empty
      <4>3. CASE buf[i].fd # 0
        <5>1. i \in Fds /\ Holds(buf[i], table[i], taken[table[i]])
          BY <4>3 DEF Descriptors, Echoes
        <5>2. table'[i] = table[i]
          BY <2>1, <3>2, <5>1 DEF SelectTypes
        <5>3. Holds(buf[i], table[i], taken[table[i]])'
          BY <1>1, <2>1, <3>2, <5>1, <5>2 DEF Holds
        <5> QED
          BY ONLY <4>1, <4>3, <5>3
      <4> QED
        BY <4>2, <4>3
    <3> QED
      BY <3>1, <3>2
  <2>3. \A i \in writes' : buf'[i].readable = TRUE
    BY <1>1, <2>1 DEF Echoes, SelectTypes, Watched
  <2> QED
    BY <1>3, <2>2, <2>3 DEF Echoes
<1> QED
  BY <1>4, <1>5

-----------------------------------------------------------------------------
(* Echoes: the turn of a descriptor *)

\* Nothing of what a careful client has sent is dropped for lack of room.
LEMMA FilledHolds ==
  ASSUME SelectTypes, Descriptors, Echoes, NEW i \in Buffers, buf[i].fd # 0, Take(i)
  PROVE  /\ Len(echoed[table[i]]) <= taken'[table[i]]
         /\ Holds(Filled(i), table[i], taken'[table[i]])
<1>1. PICK c \in Conn : c = table[i]
  BY DEF Descriptors, SelectTypes
<1>2. PICK e \in Nat, t \in Nat, L \in Nat :
        e = Len(echoed[c]) /\ t = taken[c] /\ L = Len(sent[c]) /\ e <= t /\ t <= L /\ L - e <= Capacity
  <2>1. Len(echoed[c]) \in Nat /\ taken[c] \in Nat /\ Len(sent[c]) \in Nat
    BY DEF SelectTypes
  <2>2. Honest(c)
    BY DEF Echoes
  <2> QED
    BY <2>1, <2>2 DEF SelectTypes, Honest
<1>3. /\ \A k \in e + 1 .. L - 1 : sent[c][k].line = FALSE
      /\ Capacity \in Nat
  BY <1>2, SelectAssumption DEF Echoes, Honest
<1>4. PICK D \in Seq(Piece), r \in Nat, N \in Nat : D = buf[i].data /\ r = buf[i].read_idx /\ N = Len(D)
  <2>1. buf[i] \in [fd : Nat, data : Seq(Piece), read_idx : Nat, readable : BOOLEAN]
    BY DEF SelectTypes
  <2>2. buf[i].data \in Seq(Piece) /\ buf[i].read_idx \in Nat
    BY <2>1
  <2>3. Len(buf[i].data) \in Nat
    BY <2>2
  <2> QED
    BY <2>2, <2>3
<1>5. /\ N - r = t - e /\ \A k \in 1 .. N - r : D[r + k] = sent[c][e + k]
      /\ IF buf[i].readable = TRUE THEN t = L /\ e < L /\ sent[c][L].line = TRUE ELSE r = 0
  <2>1. Holds(buf[i], c, t)
    BY <1>1, <1>2 DEF Echoes
  <2> QED
    BY <1>2, <1>4, <2>1 DEF Holds
<1>6. /\ i \notin reads => taken'[c] = t /\ Filled(i) = buf[i]
      /\ i \in reads => taken'[c] = L
  BY <1>1, <1>2, TakeIs, FilledIs
<1>7. CASE i \notin reads
  <2>1. Holds(buf[i], c, t)
    BY <1>1, <1>2 DEF Echoes
  <2> QED
    BY <1>1, <1>2, <1>6, <1>7, <2>1
<1>8. CASE i \in reads
  <2>1. PICK f : f = Filled(i)
    OBVIOUS
  <2>2. PICK m \in Nat :
          /\ m = L - t \/ Len(f.data) = Capacity
          /\ m <= L - t
          /\ Len(f.data) = N + m
          /\ \A k \in 1 .. N : f.data[k] = D[k]
          /\ \A k \in 1 .. m : f.data[N + k] = sent[c][t + k]
          /\ f.readable = TRUE <=>
               buf[i].readable = TRUE \/ \E k \in t + 1 .. L : sent[c][k].line = TRUE
    BY <1>1, <1>2, <1>4, <1>8, <2>1, FilledIs
  <2>3. f.read_idx = r
    BY <1>1, <1>4, <2>1, FilledIs
  <2>4. e <= L /\ taken'[c] = L
    BY <1>2, <1>6, <1>8
  <2>5. CASE buf[i].readable = TRUE
    <3>1. t = L /\ e < L /\ sent[c][L].line = TRUE
      BY <1>5, <2>5
    <3>2. m = 0
      BY <2>2, <3>1
    <3>3. Len(f.data) - r = L - e
      BY <1>5, <2>2, <3>1, <3>2
    <3>4. \A k \in 1 .. Len(f.data) - r : f.data[r + k] = sent[c][e + k]
      <4> SUFFICES ASSUME NEW k \in 1 .. N - r PROVE f.data[r + k] = sent[c][e + k]
        BY <1>5, <3>1, <3>3
      <4>1. r + k \in 1 .. N
        BY <1>4
      <4> QED
        BY <1>5, <2>2, <4>1
    <3>5. f.readable = TRUE
      BY <2>2, <2>5
    <3>6. Holds(f, c, L)
      BY <1>2, <2>3, <3>1, <3>3, <3>4, <3>5 DEF Holds
    <3> QED
      BY <1>1, <1>2, <2>1, <2>4, <3>6
  <2>6. CASE buf[i].readable # TRUE
    <3>1. r = 0 /\ N = t - e
      <4>1. r = 0
        BY <1>5, <2>6
      <4>2. N - 0 = t - e /\ N \in Nat
        BY <1>4, <1>5, <4>1
      <4> QED
        BY <4>1, <4>2
    <3>2. m = L - t
      <4>1. CASE Len(f.data) = Capacity
        <5>1. N + m = Capacity
          BY <2>2, <4>1
        <5>2. L - e <= (t - e) + m
          BY <1>2, <3>1, <5>1
        <5> QED
          BY <2>2, <5>2
      <4>2. CASE m = L - t
        BY <4>2
      <4> QED
        BY <2>2, <4>1, <4>2
    <3>3. Len(f.data) - r = L - e
      BY <2>2, <3>1, <3>2
    <3>4. ASSUME NEW k \in 1 .. L - e PROVE f.data[r + k] = sent[c][e + k]
      <4>1. CASE k \in 1 .. N
        <5>1. k \in 1 .. N - r /\ r + k = k
          BY <3>1, <4>1
        <5>2. f.data[k] = D[k] /\ D[r + k] = sent[c][e + k]
          BY <1>5, <2>2, <4>1, <5>1
        <5> QED
          BY <5>1, <5>2
      <4>2. CASE k \notin 1 .. N
        <5>1. k - N \in 1 .. m /\ N + (k - N) = r + k /\ t + (k - N) = e + k
          BY <3>1, <3>2, <4>2
        <5>2. f.data[N + (k - N)] = sent[c][t + (k - N)]
          BY <2>2, <5>1
        <5> QED
          BY <5>1, <5>2
      <4> QED
        BY <4>1, <4>2
    <3>5. f.readable = TRUE => e < L /\ sent[c][L].line = TRUE
      <4> SUFFICES ASSUME f.readable = TRUE PROVE e < L /\ sent[c][L].line = TRUE
        OBVIOUS
      <4>1. PICK k \in t + 1 .. L : sent[c][k].line = TRUE
        BY <2>2, <2>6
      <4>2. k \notin e + 1 .. L - 1
        BY <1>3, <4>1
      <4>3. k = L /\ e < L
        BY <1>2, <4>2
      <4> QED
        BY <4>1, <4>3
    <3>6. \A k \in 1 .. Len(f.data) - r : f.data[r + k] = sent[c][e + k]
      BY <3>3, <3>4
    <3>7. Holds(f, c, L)
      BY <1>2, <2>3, <3>1, <3>3, <3>5, <3>6 DEF Holds
    <3> QED
      BY <1>1, <1>2, <2>1, <2>4, <3>7
  <2> QED
    BY <2>5, <2>6
<1> QED
  BY <1>7, <1>8

\* What is known of the other connections stays known.
LEMMA OthersKeep ==
  ASSUME SelectTypes, Descriptors, Echoes, NEW i \in Buffers, Turn(i), Take(i), UNCHANGED sent,
         NEW b, buf' = [buf EXCEPT ![i] = b],
         \A c \in Conn : c # table[i] => echoed'[c] = echoed[c] /\ stage'[c] = stage[c],
         \A j \in Fds : j # i => table'[j] = table[j]
  PROVE  /\ \A c \in Conn : c # table[i] => Honest(c)'
         /\ buf'[i] = b
         /\ \A j \in Buffers : j # i =>
              IF buf'[j].fd = 0 THEN Empty(buf[j])' ELSE Holds(buf[j], table[j], taken[table[j]])'
         /\ \A j \in writes' : buf'[j].readable = TRUE
<1>1. i \in Fds /\ table[i] \in Conn /\ NoConn \notin Conn
  BY TurnWatched, SelectAssumption
<1>2. writes' = writes \ {i} /\ UNCHANGED peer
  BY TurnIs
<1>3. \A c \in Conn : c # table[i] => taken'[c] = taken[c]
  BY <1>1, TakeIs
<1>4. buf'[i] = b /\ \A j \in Buffers : j # i => buf'[j] = buf[j]
  BY DEF SelectTypes
<1>5. ASSUME NEW c \in Conn, c # table[i] PROVE Honest(c)'
  <2>1. Honest(c)
    BY DEF Echoes
  <2> QED
    BY <1>2, <1>3, <1>5, <2>1 DEF Honest
<1>6. ASSUME NEW j \in Buffers, j # i
      PROVE  IF buf'[j].fd = 0 THEN Empty(buf[j])' ELSE Holds(buf[j], table[j], taken[table[j]])'
  <2>1. buf'[j] = buf[j]
    BY <1>4, <1>6
  <2>2. CASE buf[j].fd = 0
    BY <2>1, <2>2 DEF Echoes, Empty
  <2>3. CASE buf[j].fd # 0
    <3>1. j \in Fds /\ table[j] \in Conn
      BY <2>3 DEF Descriptors, SelectTypes
    <3>2. table[j] # table[i]
      BY <1>1, <1>6, <3>1 DEF Descriptors
    <3>3. PICK d \in Conn : d = table[j] /\ table'[j] = d /\ echoed'[d] = echoed[d] /\ taken'[d] = taken[d]
      BY <1>3, <1>6, <3>1, <3>2
    <3>4. Holds(buf[j], d, taken[d])
      BY <2>3, <3>3 DEF Echoes
    <3>5. UNCHANGED sent
      OBVIOUS
    <3>6. PICK g : g = buf[j] /\ buf'[j] = g
      BY <2>1
    <3>7. Holds(g, d, taken[d])
      BY <3>4, <3>6
    <3>8. PICK t : t = taken[d] /\ taken'[d] = t
      BY <3>3
    <3>9. Holds(g, d, t)
      BY <3>7, <3>8
    <3>10. Holds(buf[j], table[j], taken[table[j]])'
      BY ONLY <3>3, <3>5, <3>6, <3>8, <3>9 DEF Holds
    <3> QED
      BY <2>1, <2>3, <3>10
  <2> QED
    BY <2>2, <2>3
<1>7. \A j \in writes' : buf'[j].readable = TRUE
  BY <1>2, <1>4 DEF Echoes, SelectTypes, Watched
<1> QED
  BY <1>4, <1>5, <1>6, <1>7

\* What is received is added to what the buffer holds.
LEMMA ReceiveEchoes ==
  ASSUME SelectTypes, Descriptors, Echoes, NEW i \in Buffers, Receive(i)
  PROVE  Echoes'
<1>1. Turn(i) /\ Take(i) /\ UNCHANGED <<table, stage, sent, echoed>>
      /\ buf' = [buf EXCEPT ![i] = Filled(i)]
  BY DEF Receive
<1>2. table[i] \in Conn /\ buf[i].fd # 0 /\ stage[table[i]] = "open"
  BY <1>1, TurnWatched
<1>0. PICK c \in Conn : c = table[i]
  BY <1>2
<1>3. PICK f : c = table[i] /\ f = Filled(i)
  BY <1>0
<1>4. buf' = [buf EXCEPT ![i] = f]
  BY <1>1, <1>3
<1>5. /\ \A d \in Conn : d # table[i] => Honest(d)'
      /\ buf'[i] = f
      /\ \A j \in Buffers : j # i =>
           IF buf'[j].fd = 0 THEN Empty(buf[j])' ELSE Holds(buf[j], table[j], taken[table[j]])'
      /\ \A j \in writes' : buf'[j].readable = TRUE
  BY <1>1, <1>4, OthersKeep
<1>6. Len(echoed[c]) <= taken'[c] /\ Holds(f, c, taken'[c])
  BY <1>1, <1>2, <1>3, FilledHolds
<1>7. f.fd # 0
  BY <1>2, <1>3, FilledIs
<1>8. Honest(c)'
  <2>1. Honest(c) /\ UNCHANGED peer
    BY <1>1, TurnIs DEF Echoes
  <2> QED
    BY <1>1, <1>2, <1>3, <1>6, <2>1 DEF Honest
<1>9. Holds(buf[i], table[i], taken[table[i]])'
  BY <1>1, <1>3, <1>5, <1>6 DEF Holds
<1> QED
  BY <1>3, <1>5, <1>7, <1>8, <1>9 DEF Echoes

\* What is sent back is the beginning of what the buffer holds.
LEMMA AnswerEchoes ==
  ASSUME SelectTypes, Descriptors, Echoes, NEW i \in Buffers, Answer(i)
  PROVE  Echoes'
<1>1. Turn(i) /\ Take(i) /\ UNCHANGED <<table, stage, sent>> /\ i \in writes
  BY DEF Answer
<1>2. table[i] \in Conn /\ buf[i].fd # 0 /\ stage[table[i]] = "open"
  BY <1>1, TurnWatched
<1>3. PICK b \in Buffer, n \in Nat :
           /\ b = Filled(i) /\ b.fd = buf[i].fd /\ Len(b.data) <= Capacity /\ b.read_idx <= Len(b.data)
           /\ n \in 0 .. Len(Pending(b))
           /\ buf' = [buf EXCEPT ![i] = Sent(b, n)]
           /\ echoed' = [echoed EXCEPT ![table[i]] = @ \o SubSeq(Pending(b), 1, n)]
           /\ full' \in [Conn -> BOOLEAN]
  BY AnswerIs
<1>4. PICK c \in Conn : c = table[i]
  BY <1>2
<1>5. PICK e \in Nat, t \in Nat, L \in Nat :
        /\ e = Len(echoed[c]) /\ t = taken'[c] /\ L = Len(sent[c]) /\ e <= t /\ t <= L
        /\ L - e <= Capacity /\ \A k \in 1 .. e : echoed[c][k] = sent[c][k]
        /\ \A k \in e + 1 .. L - 1 : sent[c][k].line = FALSE
        /\ peer[c] # "up" => e = L
  <2>1. Len(echoed[c]) \in Nat /\ Len(sent[c]) \in Nat
    BY DEF SelectTypes
  <2>2. Honest(c)
    BY DEF Echoes
  <2>3. taken'[c] \in Nat /\ taken'[c] <= Len(sent[c])
    BY <1>1, <1>2, TakeIs
  <2>4. Len(echoed[c]) <= taken'[c]
    BY <1>1, <1>2, <1>4, FilledHolds
  <2> QED
    BY <2>1, <2>2, <2>3, <2>4 DEF Honest
<1>6. PICK p \in Seq(Piece), N \in Nat :
        /\ p = Pending(b) /\ N = Len(p) /\ N = Len(b.data) - b.read_idx
        /\ \A k \in 1 .. N : p[k] = b.data[b.read_idx + k]
  <2>1. Pending(b) \in Seq(Piece) /\ Len(Pending(b)) = Len(b.data) - b.read_idx
        /\ \A k \in 1 .. Len(Pending(b)) : Pending(b)[k] = b.data[b.read_idx + k]
    BY <1>3, SentIs
  <2>2. Len(Pending(b)) \in Nat
    BY <2>1
  <2> QED
    BY <2>1, <2>2
<1>7. Holds(b, c, t)
  BY <1>1, <1>2, <1>3, <1>4, <1>5, FilledHolds
<1>8. n <= N /\ N = t - e /\ \A k \in 1 .. N : p[k] = sent[c][e + k]
  <2>1. n <= N
    BY <1>3, <1>6
  <2>2. N = t - e
    BY <1>5, <1>6, <1>7 DEF Holds
  <2>3. \A k \in 1 .. N : b.data[b.read_idx + k] = sent[c][e + k]
    BY <1>5, <1>6, <1>7 DEF Holds
  <2> QED
    BY <1>6, <2>1, <2>2, <2>3
<1>9. /\ echoed'[c] \in Seq(Piece) /\ Len(echoed'[c]) = e + n
      /\ \A k \in 1 .. e + n : echoed'[c][k] = sent[c][k]
      /\ \A d \in Conn : d # c => echoed'[d] = echoed[d]
  <2>1. echoed \in [Conn -> Seq(Piece)] /\ echoed[c] \in Seq(Piece)
    BY DEF SelectTypes
  <2>2. PICK q : q = SubSeq(p, 1, n)
    OBVIOUS
  <2>3. q \in Seq(Piece) /\ Len(q) = n /\ \A k \in 1 .. n : q[k] = sent[c][e + k]
    <3>0. n \in Nat /\ \A k \in 1 .. n : k \in 1 .. N
      BY <1>6, <1>8
    <3>1. n \in Int /\ \A k \in 1 .. n : k \in 1 .. N /\ p[k] \in Piece
      <4>1. \A k \in 1 .. N : p[k] \in Piece
        <5>1. p \in Seq(Piece) /\ N = Len(p)
          BY <1>6
        <5> QED
          BY ONLY <5>1
      <4> QED
        BY <3>0, <4>1
    <3>2. /\ q \in Seq(Piece) /\ Len(q) = IF 1 <= n THEN n - 1 + 1 ELSE 0
          /\ \A k \in 1 .. n - 1 + 1 : q[k] = p[1 + k - 1]
      BY <2>2, <3>1, SubSeqProperties
    <3>3. Len(q) = n /\ \A k \in 1 .. n : k \in 1 .. n - 1 + 1 /\ 1 + k - 1 = k
      BY <3>2
    <3>4. \A k \in 1 .. n : q[k] = p[k]
      BY <3>2, <3>3
    <3> QED
      BY <1>8, <3>1, <3>2, <3>3, <3>4
  <2>4. echoed' = [echoed EXCEPT ![c] = echoed[c] \o q]
    BY <1>3, <1>4, <1>6, <2>2
  <2>5. /\ echoed[c] \o q \in Seq(Piece) /\ Len(echoed[c] \o q) = Len(echoed[c]) + Len(q)
        /\ \A k \in 1 .. Len(echoed[c]) + Len(q) :
             (echoed[c] \o q)[k] = IF k <= Len(echoed[c]) THEN echoed[c][k] ELSE q[k - Len(echoed[c])]
    BY <2>1, <2>3, ConcatProperties
  <2>6. PICK z : z = echoed[c] \o q
    OBVIOUS
  <2>7. z \in Seq(Piece) /\ Len(z) = e + n /\ \A k \in 1 .. e + n : z[k] = IF k <= e THEN echoed[c][k] ELSE q[k - e]
    BY <1>5, <2>3, <2>5, <2>6
  <2>8. ASSUME NEW k \in 1 .. e + n PROVE z[k] = sent[c][k]
    <3>1. CASE k <= e
      <4>1. k \in 1 .. e
        BY <3>1
      <4> QED
        BY <1>5, <2>7, <3>1, <4>1
    <3>2. CASE ~(k <= e)
      <4>1. k - e \in 1 .. n /\ e + (k - e) = k
        BY <3>2
      <4>2. q[k - e] = sent[c][k]
        BY <2>3, <4>1
      <4> QED
        BY <2>7, <3>2, <4>2
    <3> QED
      BY <3>1, <3>2
  <2>9. echoed'[c] = z /\ \A d \in Conn : d # c => echoed'[d] = echoed[d]
    BY <2>1, <2>4, <2>6
  <2> QED
    BY <2>7, <2>8, <2>9
<1>10. /\ \A d \in Conn : d # table[i] => Honest(d)'
       /\ buf'[i] = Sent(b, n)
       /\ \A j \in Buffers : j # i =>
            IF buf'[j].fd = 0 THEN Empty(buf[j])' ELSE Holds(buf[j], table[j], taken[table[j]])'
       /\ \A j \in writes' : buf'[j].readable = TRUE
  <2>1. \A d \in Conn : d # table[i] => echoed'[d] = echoed[d] /\ stage'[d] = stage[d]
    BY <1>1, <1>4, <1>9
  <2>2. \A j \in Fds : j # i => table'[j] = table[j]
    BY <1>1
  <2>3. PICK g : g = Sent(b, n)
    OBVIOUS
  <2>4. buf' = [buf EXCEPT ![i] = g]
    BY <1>3, <2>3
  <2> QED
    BY <1>1, <2>1, <2>2, <2>3, <2>4, OthersKeep
<1>11. Honest(c)'
  <2>1. UNCHANGED peer
    BY <1>1, TurnIs
  <2>2. e + n <= t
    BY <1>8
  <2>3. L - (e + n) <= Capacity
    <3>1. Capacity \in Nat /\ L \in Nat /\ e \in Nat /\ n \in Nat /\ L - e <= Capacity
      BY <1>5, SelectAssumption
    <3> QED
      BY ONLY <3>1
  <2>4. \A k \in (e + n) + 1 .. L - 1 : sent[c][k].line = FALSE
    <3>1. \A k \in (e + n) + 1 .. L - 1 : k \in e + 1 .. L - 1
      OBVIOUS
    <3> QED
      BY <1>5, <3>1
  <2>5. peer[c] # "up" => e + n = L
    <3>1. e = L => t = L /\ N = 0 /\ n = 0
      BY <1>5, <1>8
    <3> QED
      BY <1>5, <3>1
  <2>6. stage'[c] = "open"
    BY <1>1, <1>2, <1>4
  <2> QED
    BY <1>1, <1>5, <1>9, <2>1, <2>2, <2>3, <2>4, <2>5, <2>6 DEF Honest
<1>12. Sent(b, n).fd # 0
  <2>1. Sent(b, n).fd = b.fd
    BY <1>3, SentIs
  <2> QED
    BY <1>2, <1>3, <2>1
<1>13. Holds(buf[i], table[i], taken[table[i]])'
  <2>1. PICK g : g = Sent(b, n)
    OBVIOUS
  <2>2. /\ n = N => Empty(g)
        /\ n # N => g.data = b.data /\ g.read_idx = b.read_idx + n /\ g.readable = b.readable
    BY <1>3, <1>6, <2>1, SentIs
  <2>3. CASE n = N
    <3>1. Len(g.data) = 0 /\ g.read_idx = 0 /\ g.readable = FALSE
      BY <2>2, <2>3 DEF Empty
    <3>2. 0 - 0 = t - (e + n)
      BY <1>8, <2>3
    <3>3. buf'[i] = g /\ table'[i] = c /\ taken'[c] = t /\ Len(echoed'[c]) = e + n
      BY <1>1, <1>4, <1>5, <1>9, <1>10, <2>1
    <3>4. Len(g.data) - g.read_idx = t - (e + n) /\ g.readable # TRUE
      BY <3>1, <3>2
    <3>5. \A k \in 1 .. Len(g.data) - g.read_idx :
            g.data[g.read_idx + k] = sent'[c][(e + n) + k]
      BY <3>1
    <3> QED
      BY ONLY <3>1, <3>3, <3>4, <3>5 DEF Holds
  <2>4. CASE n # N
    <3>1. g.data = b.data /\ g.read_idx = b.read_idx + n /\ g.readable = b.readable
      BY <2>2, <2>4
    <3>2. PICK r \in Nat, M \in Nat : r = b.read_idx /\ M = Len(b.data) /\ N = M - r
      <4>1. b.data \in Seq(Piece) /\ b.read_idx \in Nat
        BY <1>3 DEF Buffer
      <4>2. Len(b.data) \in Nat
        BY <4>1
      <4> QED
        BY <1>6, <4>1, <4>2
    <3>3. b.readable = TRUE
      <4>1. buf[i].readable = TRUE
        BY <1>1 DEF Echoes
      <4>2. i \in reads => (Filled(i).readable = TRUE <=>
               buf[i].readable = TRUE \/ \E k \in taken[table[i]] + 1 .. Len(sent[table[i]]) : sent[table[i]][k].line = TRUE)
        BY <1>2, FilledIs
      <4>3. i \notin reads => Filled(i) = buf[i]
        BY <1>2, FilledIs
      <4> QED
        BY <1>3, <4>1, <4>2, <4>3
    <3>4. t = L /\ sent[c][L].line = TRUE
      BY <1>5, <1>7, <3>3 DEF Holds
    <3>5. M - (r + n) = t - (e + n) /\ e + n < L
      <4>1. n <= N /\ n # N /\ N = t - e
        BY <1>8, <2>4
      <4>2. N = M - r /\ t = L
        BY <3>2, <3>4
      <4>3. /\ M \in Nat /\ r \in Nat /\ N \in Nat /\ n \in Nat
            /\ t \in Nat /\ e \in Nat /\ L \in Nat
        OBVIOUS
      <4> QED
        BY ONLY <4>1, <4>2, <4>3
    <3>6. ASSUME NEW k \in 1 .. M - (r + n) PROVE b.data[(r + n) + k] = sent[c][(e + n) + k]
      <4>0. /\ M \in Nat /\ r \in Nat /\ N \in Nat /\ n \in Nat /\ e \in Nat
            /\ N = M - r /\ k \in 1 .. M - (r + n)
        BY <3>2
      <4>1. n + k \in 1 .. N /\ r + (n + k) = (r + n) + k /\ e + (n + k) = (e + n) + k
        BY ONLY <4>0
      <4>2. p[n + k] = b.data[r + (n + k)] /\ p[n + k] = sent[c][e + (n + k)]
        BY <1>6, <1>8, <3>2, <4>1
      <4> QED
        BY <4>1, <4>2
    <3>7. Len(g.data) = M /\ g.read_idx = r + n /\ g.readable = TRUE
      BY <3>1, <3>2, <3>3
    <3>8. buf'[i] = g /\ table'[i] = c /\ taken'[c] = t /\ Len(echoed'[c]) = e + n /\ sent' = sent
      BY <1>1, <1>4, <1>5, <1>9, <1>10, <2>1
    <3>9. t = Len(sent'[c]) /\ e + n < Len(sent'[c]) /\ sent'[c][Len(sent'[c])].line = TRUE
      BY <1>5, <3>4, <3>5, <3>8
    <3>10. Len(g.data) - g.read_idx = t - (e + n)
      BY <3>5, <3>7
    <3>11. \A k \in 1 .. Len(g.data) - g.read_idx : g.data[g.read_idx + k] = sent'[c][(e + n) + k]
      BY <3>1, <3>6, <3>7, <3>8
    <3> QED
      BY ONLY <3>7, <3>8, <3>9, <3>10, <3>11 DEF Holds
  <2> QED
    BY <2>3, <2>4
<1> QED
  BY <1>4, <1>10, <1>11, <1>12, <1>13 DEF Echoes

\* A careful client leaves nothing in the buffer.
LEMMA HangUpEchoes ==
  ASSUME SelectTypes, Descriptors, Echoes, NEW i \in Buffers, HangUp(i)
  PROVE  Echoes'
<1>1. Turn(i) /\ Take(i) /\ UNCHANGED <<sent, echoed>> /\ Failed(i)
      /\ buf' = [buf EXCEPT ![i] = [Filled(i) EXCEPT !.fd = 0]]
  BY DEF HangUp
<1>2. i \in Fds /\ table[i] \in Conn /\ buf[i].fd # 0
  BY <1>1, TurnWatched
<1>0. PICK c \in Conn : c = table[i]
  BY <1>2
<1>3. PICK f : c = table[i] /\ f = Filled(i)
  BY <1>0
<1>4. stage' = [stage EXCEPT ![c] = "closed"] /\ table' = [table EXCEPT ![i] = NoConn]
  BY <1>3 DEF HangUp
<1>5. PICK b : b = [f EXCEPT !.fd = 0]
  OBVIOUS
<1>6. /\ \A d \in Conn : d # table[i] => Honest(d)'
      /\ buf'[i] = b
      /\ \A j \in Buffers : j # i =>
           IF buf'[j].fd = 0 THEN Empty(buf[j])' ELSE Holds(buf[j], table[j], taken[table[j]])'
      /\ \A j \in writes' : buf'[j].readable = TRUE
  <2>1. \A d \in Conn : d # table[i] => echoed'[d] = echoed[d] /\ stage'[d] = stage[d]
    BY <1>1, <1>3, <1>4 DEF SelectTypes
  <2>2. \A j \in Fds : j # i => table'[j] = table[j]
    BY <1>4 DEF SelectTypes
  <2>3. buf' = [buf EXCEPT ![i] = b]
    BY <1>1, <1>3, <1>5
  <2> QED
    BY <1>1, <2>1, <2>2, <2>3, OthersKeep
<1>7. f \in Buffer
  BY <1>2, <1>3, FilledIs
<1>8. Len(echoed[c]) <= taken'[c] /\ Holds(f, c, taken'[c])
  BY <1>1, <1>2, <1>3, FilledHolds
<1>9. Honest(c) /\ UNCHANGED peer /\ peer[c] # "up"
  BY <1>1, <1>3, TurnIs DEF Echoes, Failed
<1>10. taken'[c] = Len(echoed[c]) /\ Len(echoed[c]) = Len(sent[c]) /\ Len(sent[c]) \in Nat
  <2>1. Len(echoed[c]) = Len(sent[c])
    BY <1>9 DEF Honest
  <2>2. taken'[c] \in Nat /\ taken'[c] <= Len(sent[c])
    BY <1>1, <1>2, TakeIs
  <2>3. Len(sent[c]) \in Nat
    BY DEF SelectTypes
  <2> QED
    BY <1>8, <2>1, <2>2, <2>3
<1>11. Honest(c)'
  <2>1. stage'[c] = "closed"
    BY <1>4 DEF SelectTypes
  <2> QED
    BY <1>1, <1>9, <1>10, <2>1 DEF Honest
<1>12. Empty(buf[i])' /\ b.fd = 0
  <2>1. f.data \in Seq(Piece) /\ f.read_idx \in Nat /\ f.readable \in BOOLEAN
    BY <1>7 DEF Buffer
  <2>2. Len(f.data) \in Nat
    BY <2>1
  <2>3. f.readable # TRUE /\ f.read_idx = 0
    <3>1. ~(Len(echoed[c]) < Len(sent[c]))
      BY <1>10
    <3> QED
      BY <1>8, <3>1 DEF Holds
  <2>4. Len(f.data) = 0
    BY <1>8, <1>10, <2>2, <2>3 DEF Holds
  <2>5. f.data = <<>> /\ f.readable = FALSE
    <3>1. f.data \in Seq(Piece)
      BY <2>1
    <3>2. f.data = <<>>
      BY ONLY <3>1, <2>4
    <3>3. f.readable = FALSE
      BY <2>1, <2>3
    <3> QED
      BY <3>2, <3>3
  <2>6. b.data = f.data /\ b.read_idx = f.read_idx /\ b.readable = f.readable /\ b.fd = 0
    BY <1>5, <1>7 DEF Buffer
  <2> QED
    BY <1>6, <2>3, <2>5, <2>6 DEF Empty
<1> QED
  BY <1>3, <1>6, <1>11, <1>12 DEF Echoes

\* Every step keeps what is known of careful clients.
LEMMA EchoesKept ==
  ASSUME SelectTypes, Descriptors, EchoInv, [Next]_vars
  PROVE  EchoInv'
<1>1. careful' = careful
  BY DEF Next, Server, Select, AcceptFails, Accept, Refuse, Receive, Answer, HangUp, Connect, Send, Leave, Drain,
         vars, dataVars
<1> SUFFICES ASSUME careful = TRUE PROVE Echoes'
  BY <1>1 DEF EchoInv
<1>2. Echoes
  BY DEF EchoInv
<1>3. CASE UNCHANGED vars \/ AcceptFails
  <2>1. UNCHANGED <<writes, buf, table, stage, peer, sent, taken, echoed>>
    BY <1>3 DEF vars, serverVars, dataVars, AcceptFails
  <2>2. ASSUME NEW c \in Conn PROVE Honest(c)'
    <3>1. Honest(c)
      BY <1>2 DEF Echoes
    <3> QED
      BY <2>1, <3>1 DEF Honest
  <2> QED
    BY <1>2, <2>1, <2>2 DEF Echoes, Empty, Holds
<1>4. CASE Next /\ ~AcceptFails
  BY <1>2, <1>4, SelectEchoes, AcceptEchoes, ReceiveEchoes, AnswerEchoes, HangUpEchoes, OthersEcho, SendEchoes
     DEF Next, Server
<1> QED
  BY <1>3, <1>4

\* Nothing is lost, repeated or mixed up between connections that use the same
\* buffer in turn, for every number of them and every size of the buffers.
THEOREM EchoedAsSent == Spec => []EchoIsPrefix
<1>1. Init => SelectInv
  BY SelectStarts
<1>2. SelectInv /\ [Next]_vars => SelectInv'
  BY FdsKept, EchoesKept DEF SelectInv
<1>3. SelectInv => EchoIsPrefix
  <2> SUFFICES ASSUME SelectInv, careful, NEW c \in Conn PROVE IsPrefix(echoed[c], sent[c])
    BY DEF EchoIsPrefix
  <2>1. careful = TRUE
    BY DEF SelectInv, SelectTypes
  <2>2. Honest(c)
    BY <2>1 DEF SelectInv, EchoInv, Echoes
  <2>3. PICK s \in Seq(Piece), t \in Seq(Piece), m \in Nat :
          s = echoed[c] /\ t = sent[c] /\ m = taken[c] /\ m <= Len(t)
    BY DEF SelectInv, SelectTypes
  <2>4. Len(s) <= Len(t) /\ \A k \in 1 .. Len(s) : s[k] = t[k]
    <3>1. Len(s) \in Nat /\ Len(t) \in Nat
      BY <2>3
    <3> QED
      BY <2>2, <2>3, <3>1 DEF Honest
  <2>5. SubSeq(t, 1, Len(s)) = s
    <3>1. Len(s) \in Int /\ \A k \in 1 .. Len(s) : t[k] \in Piece
      BY <2>3, <2>4
    <3>2. /\ SubSeq(t, 1, Len(s)) \in Seq(Piece)
          /\ Len(SubSeq(t, 1, Len(s))) = IF 1 <= Len(s) THEN Len(s) - 1 + 1 ELSE 0
          /\ \A k \in 1 .. Len(s) - 1 + 1 : SubSeq(t, 1, Len(s))[k] = t[1 + k - 1]
      BY <3>1, SubSeqProperties
    <3>3. Len(SubSeq(t, 1, Len(s))) = Len(s)
      BY <2>3, <3>2
    <3>4. \A k \in 1 .. Len(s) : k \in 1 .. Len(s) - 1 + 1 /\ 1 + k - 1 = k
      BY <2>3
    <3>5. \A k \in 1 .. Len(s) : SubSeq(t, 1, Len(s))[k] = s[k]
      BY <2>4, <3>2, <3>4
    <3> QED
      BY <2>3, <3>2, <3>3, <3>5, SeqEqual
  <2> QED
    BY <2>3, <2>4, <2>5 DEF IsPrefix
<1> QED
  BY <1>1, <1>2, <1>3, PTL DEF Spec
===============================================================================
