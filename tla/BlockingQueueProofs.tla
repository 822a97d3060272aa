------------------------- MODULE BlockingQueueProofs -------------------------
(***************************************************************************)
(* Proofs about BlockingQueue for every number of threads, every capacity  *)
(* and every set of descriptors.                                           *)
(***************************************************************************)
EXTENDS BlockingQueue, FiniteSetTheorems, SequenceTheorems, TLAPS

\* The part of the invariant that does not count threads.
CoreInv == TypeOK /\ MutexOwned /\ ArgKnown /\ RingConsistent

-----------------------------------------------------------------------------
(* The struct stays consistent *)

\* The initial struct, with nothing inside, is consistent.
LEMMA CoreInit == Init => CoreInv
  <1> SUFFICES ASSUME Init PROVE CoreInv
    OBVIOUS
  <1> USE QueueAssumption DEF Init
  <1>1. TypeOK
    BY DEF TypeOK, Places
  <1>2. MutexOwned /\ ArgKnown
    BY DEF MutexOwned, ArgKnown, Threads
  <1>3. RingConsistent
    BY DEF RingConsistent, Slot
  <1> QED
    BY <1>1, <1>2, <1>3 DEF CoreInv

\* Steps that leave the ring alone keep it consistent.
LEMMA RingUnchanged ==
    ASSUME RingConsistent, UNCHANGED ring
    PROVE  RingConsistent'
  BY DEF RingConsistent, Slot, ring

\* Storing at rear extends the occupied segment by the pushed descriptor.
LEMMA StoreKeepsRing ==
    ASSUME CoreInv, NEW p \in Producers, PushStore(p)
    PROVE  RingConsistent'
  <1> USE QueueAssumption DEF CoreInv, TypeOK
  <1>1. used \in 0 .. Size - 1 /\ arg[p] \in Fd
    BY DEF PushStore, Full, ArgKnown
  <1>2. rear = Slot(used) /\ \A k \in 0 .. used - 1 : fd[Slot(k)] \in Fd
    BY DEF RingConsistent
  <1>3. \A k \in 0 .. Size : Slot(k)' = Slot(k)
    BY DEF PushStore, Slot
  <1>4. rear' = Slot(used)'
    BY <1>1, <1>2 DEF PushStore, Slot, Advance
  <1>5. ASSUME NEW k \in 0 .. used' - 1
        PROVE  fd'[Slot(k)'] \in Fd
    <2>1. k \in 0 .. used /\ Slot(k)' = Slot(k) /\ Slot(k) \in 0 .. Size - 1
      BY <1>1, <1>3, <1>5 DEF PushStore, Slot
    <2>2. CASE k = used
      BY <2>1, <2>2, <1>1, <1>2 DEF PushStore
    <2>3. CASE k # used
      <3>1. k \in 0 .. used - 1 /\ Slot(k) # Slot(used)
        BY <2>1, <2>3, <1>1 DEF Slot
      <3> QED
        BY <3>1, <2>1, <1>2 DEF PushStore
    <2> QED
      BY <2>2, <2>3
  <1> QED
    BY <1>4, <1>5 DEF RingConsistent

\* Taking the slot at front leaves the rest of the segment in place.
LEMMA TakeKeepsRing ==
    ASSUME CoreInv, NEW c \in Consumers, PopTake(c)
    PROVE  RingConsistent'
  <1> USE QueueAssumption DEF CoreInv, TypeOK
  <1>1. used \in 1 .. Size
    BY DEF PopTake, Empty
  <1>2. rear = Slot(used) /\ \A k \in 0 .. used - 1 : fd[Slot(k)] \in Fd
    BY DEF RingConsistent
  <1>3. \A k \in 0 .. Size - 1 : Slot(k)' = Slot(k + 1)
    BY DEF PopTake, Slot, Advance
  <1>4. rear' = Slot(used)'
    BY <1>1, <1>2 DEF PopTake, Slot, Advance
  <1>5. \A k \in 0 .. used' - 1 : fd'[Slot(k)'] \in Fd
    BY <1>1, <1>2, <1>3 DEF PopTake
  <1> QED
    BY <1>4, <1>5 DEF RingConsistent

\* Every step keeps the struct, the ownership of the mutex and the arguments
\* in order.
LEMMA CoreStep == CoreInv /\ [Next]_vars => CoreInv'
  <1> SUFFICES ASSUME CoreInv, [Next]_vars PROVE CoreInv'
    OBVIOUS
  <1> USE QueueAssumption DEF CoreInv
  <1>1. ASSUME NEW p \in Producers, NEW x \in Fd, PushCall(p, x) PROVE CoreInv'
    <2>1. TypeOK' /\ MutexOwned' /\ ArgKnown'
      BY <1>1 DEF PushCall, TypeOK, Threads, Places, MutexOwned, ArgKnown, ring
    <2> QED
      BY <2>1, <1>1, RingUnchanged DEF PushCall
  <1>2. ASSUME NEW c \in Consumers, PopCall(c) PROVE CoreInv'
    <2>1. TypeOK' /\ MutexOwned' /\ ArgKnown'
      BY <1>2 DEF PopCall, TypeOK, Threads, Places, MutexOwned, ArgKnown, ring
    <2> QED
      BY <2>1, <1>2, RingUnchanged DEF PopCall
  <1>3. ASSUME NEW t \in Threads, Lock(t) PROVE CoreInv'
    <2>1. TypeOK' /\ MutexOwned' /\ ArgKnown'
      BY <1>3 DEF Lock, TypeOK, Threads, Places, MutexOwned, ArgKnown, ring
    <2> QED
      BY <2>1, <1>3, RingUnchanged DEF Lock
  <1>4. ASSUME NEW t \in Threads, Unlock(t) PROVE CoreInv'
    <2>1. TypeOK' /\ MutexOwned' /\ ArgKnown'
      BY <1>4 DEF Unlock, TypeOK, Threads, Places, MutexOwned, ArgKnown, ring
    <2> QED
      BY <2>1, <1>4, RingUnchanged DEF Unlock
  <1>5. ASSUME NEW t \in Threads, SpuriousWake(t) PROVE CoreInv'
    <2>1. TypeOK' /\ MutexOwned' /\ ArgKnown'
      BY <1>5 DEF SpuriousWake, TypeOK, Threads, Places, MutexOwned, ArgKnown, ring
    <2> QED
      BY <2>1, <1>5, RingUnchanged DEF SpuriousWake
  <1>6. ASSUME NEW t \in Threads, pc[t] = "test", CondWait(t) PROVE CoreInv'
    <2>1. TypeOK' /\ MutexOwned' /\ ArgKnown'
      BY <1>6 DEF CondWait, TypeOK, Threads, Places, MutexOwned, ArgKnown, ring
    <2> QED
      BY <2>1, <1>6, RingUnchanged DEF CondWait
  <1>7. ASSUME NEW t \in Threads, NEW S \in SUBSET Threads, CondSignal(t, S) PROVE CoreInv'
    <2>1. TypeOK' /\ MutexOwned' /\ ArgKnown'
      <3>1. PICK w \in Threads :
               \/ pc[w] = "wait" /\ pc' = [pc EXCEPT ![t] = "unlock", ![w] = "lock"]
               \/ pc' = [pc EXCEPT ![t] = "unlock"]
        BY <1>7 DEF CondSignal, Waiting
      <3> QED
        BY <3>1, <1>7 DEF CondSignal, TypeOK, Threads, Places, MutexOwned, ArgKnown, ring
    <2> QED
      BY <2>1, <1>7, RingUnchanged DEF CondSignal
  <1>8. ASSUME NEW p \in Producers, PushStore(p) PROVE CoreInv'
    <2>1. TypeOK' /\ MutexOwned' /\ ArgKnown'
      BY <1>8 DEF PushStore, TypeOK, Threads, Places, MutexOwned, ArgKnown, Full, Advance
    <2> QED
      BY <2>1, <1>8, StoreKeepsRing
  <1>9. ASSUME NEW c \in Consumers, PopTake(c) PROVE CoreInv'
    <2>1. TypeOK' /\ MutexOwned' /\ ArgKnown'
      BY <1>9 DEF PopTake, TypeOK, Threads, Places, MutexOwned, ArgKnown, Empty, Advance
    <2> QED
      BY <2>1, <1>9, TakeKeepsRing
  <1>10. CASE UNCHANGED vars
    BY <1>10, RingUnchanged DEF vars, ring, TypeOK, MutexOwned, ArgKnown
  <1> QED
    BY <1>1, <1>2, <1>3, <1>4, <1>5, <1>6, <1>7, <1>8, <1>9, <1>10
       DEF Next, PushStep, PopStep, PushWait, PopWait, PushSignal, PopSignal, Threads

LEMMA CoreInvariant == Spec => []CoreInv
  BY CoreInit, CoreStep, PTL DEF Spec

\* Every field of the struct stays in its range, for every number of threads.
THEOREM TypeCorrect == Spec => []TypeOK
  BY CoreInvariant, PTL DEF CoreInv

\* front, rear and used always agree on the occupied slots, and these hold
\* descriptors that were pushed.
THEOREM RingCorrect == Spec => []RingConsistent
  BY CoreInvariant, PTL DEF CoreInv

-----------------------------------------------------------------------------
(* No wakeup is lost *)

\* Where thread t goes decides how the sets that are counted change.
LEMMA SetsAfterMove ==
    ASSUME TypeOK, NEW S \in SUBSET Threads, NEW t \in Threads, NEW q,
           pc' = [pc EXCEPT ![t] = q]
    PROVE  /\ Looking(S)' = IF t \in S /\ q \in {"lock", "test"}
                            THEN Looking(S) \cup {t} ELSE Looking(S) \ {t}
           /\ Signalling(S)' = IF t \in S /\ q = "signal"
                               THEN Signalling(S) \cup {t} ELSE Signalling(S) \ {t}
           /\ Waiting(S)' = IF t \in S /\ q = "wait"
                            THEN Waiting(S) \cup {t} ELSE Waiting(S) \ {t}
  BY DEF TypeOK, Looking, Signalling, Waiting

\* The sets that are counted are finite, before and after a step.
LEMMA FiniteCounts ==
    ASSUME NEW S, IsFiniteSet(S)
    PROVE  /\ IsFiniteSet(Looking(S)) /\ Cardinality(Looking(S)) \in Nat
           /\ IsFiniteSet(Signalling(S)) /\ Cardinality(Signalling(S)) \in Nat
  <1>1. Looking(S) \in SUBSET S /\ Signalling(S) \in SUBSET S
    BY DEF Looking, Signalling
  <1> QED
    BY <1>1, FS_Subset, FS_CardinalityType

\* Thread t moves to q, and what the threads of S can take goes from n to m
\* things: the moves of push and pop that keep S matched against R.
Accounted(S, R, t, q, n, m) ==
    /\ S \in SUBSET Threads /\ IsFiniteSet(S)
    /\ R \in SUBSET Threads /\ IsFiniteSet(R)
    /\ S \cap R = {} /\ t \in S \cup R
    /\ n \in Int /\ m \in Int
    /\ Matched(S, R, n)
    /\ pc' = [pc EXCEPT ![t] = q]
    /\ \/ t \in S /\ pc[t] = "lock" /\ q = "test" /\ m = n
       \/ t \in S /\ pc[t] \in {"idle", "wait"} /\ q = "lock" /\ m = n
       \/ t \in S /\ pc[t] = "test" /\ q = "wait" /\ m = 0
       \/ t \in S /\ pc[t] = "test" /\ q = "signal" /\ m = n - 1
       \/ t \in S /\ pc[t] \in {"signal", "unlock"} /\ q \in {"unlock", "idle"} /\ m = n
       \/ t \in R /\ pc[t] = "test" /\ q = "signal" /\ m = n + 1
       \/ t \in R /\ pc[t] = "signal" /\ q = "unlock" /\ Waiting(S) = {}
       \/ t \in R /\ pc[t] # "signal" /\ q # "signal" /\ m = n

\* A step of one thread keeps one side matched when the number of things to
\* take changes along with the thread that accounts for it.
LEMMA MoveKeepsMatched ==
    ASSUME TypeOK, NEW S, NEW R, NEW t, NEW q, NEW n, NEW m,
           Accounted(S, R, t, q, n, m)
    PROVE  Waiting(S)' # {} =>
             m <= Cardinality(Looking(S)') + Cardinality(Signalling(R)')
  <1> USE DEF Accounted
  <1>1. /\ IsFiniteSet(Looking(S)) /\ Cardinality(Looking(S)) \in Nat
        /\ IsFiniteSet(Signalling(R)) /\ Cardinality(Signalling(R)) \in Nat
    BY FiniteCounts
  <1>2. /\ Cardinality(Looking(S) \cup {t}) =
             IF t \in Looking(S) THEN Cardinality(Looking(S)) ELSE Cardinality(Looking(S)) + 1
        /\ Cardinality(Looking(S) \ {t}) =
             IF t \in Looking(S) THEN Cardinality(Looking(S)) - 1 ELSE Cardinality(Looking(S))
        /\ Cardinality(Signalling(R) \cup {t}) =
             IF t \in Signalling(R) THEN Cardinality(Signalling(R)) ELSE Cardinality(Signalling(R)) + 1
        /\ Cardinality(Signalling(R) \ {t}) =
             IF t \in Signalling(R) THEN Cardinality(Signalling(R)) - 1 ELSE Cardinality(Signalling(R))
        /\ Cardinality(Looking(S) \ {t}) \in Nat
    BY <1>1, FS_AddElement, FS_RemoveElement, FS_CardinalityType
  <1>3. /\ Looking(S)' = IF t \in S /\ q \in {"lock", "test"}
                         THEN Looking(S) \cup {t} ELSE Looking(S) \ {t}
        /\ Signalling(R)' = IF t \in R /\ q = "signal"
                            THEN Signalling(R) \cup {t} ELSE Signalling(R) \ {t}
        /\ Waiting(S)' = IF t \in S /\ q = "wait"
                         THEN Waiting(S) \cup {t} ELSE Waiting(S) \ {t}
    BY SetsAfterMove
  <1>4. /\ t \in Looking(S) <=> t \in S /\ pc[t] \in {"lock", "test"}
        /\ t \in Signalling(R) <=> t \in R /\ pc[t] = "signal"
        /\ t \in Waiting(S) <=> t \in S /\ pc[t] = "wait"
    BY DEF Looking, Signalling, Waiting
  <1>5. t \notin S \/ t \notin R
    OBVIOUS
  <1>6. CASE t \in S
    <2> SUFFICES ASSUME Waiting(S)' # {}
                 PROVE  m <= Cardinality(Looking(S)') + Cardinality(Signalling(R)')
      OBVIOUS
    <2>1. Signalling(R)' = Signalling(R)
      BY <1>3, <1>4, <1>5, <1>6
    <2>2. CASE pc[t] = "test" /\ q = "wait" /\ m = 0
      BY <1>1, <1>2, <1>3, <1>4, <1>6, <2>1, <2>2
    <2>3. CASE ~(pc[t] = "test" /\ q = "wait" /\ m = 0)
      <3>1. q # "wait" /\ Waiting(S) # {}
        BY <1>3, <1>5, <1>6, <2>3
      <3>2. n <= Cardinality(Looking(S)) + Cardinality(Signalling(R))
        BY <3>1 DEF Matched
      <3> QED
        BY <1>1, <1>2, <1>3, <1>4, <1>5, <1>6, <2>1, <2>3, <3>2
    <2> QED
      BY <2>2, <2>3
  <1>7. CASE t \in R
    BY <1>1, <1>2, <1>3, <1>4, <1>5, <1>7 DEF Matched
  <1> QED
    BY <1>6, <1>7

\* A signal hands the place of the signalling thread over to the woken one.
LEMMA SignalKeepsMatched ==
    ASSUME TypeOK, NEW S \in SUBSET Threads, NEW R \in SUBSET Threads,
           IsFiniteSet(S), IsFiniteSet(R), S \cap R = {},
           NEW t \in R, pc[t] = "signal", NEW w \in Waiting(S),
           pc' = [pc EXCEPT ![t] = "unlock", ![w] = "lock"],
           NEW n \in Int, NEW m \in Int
    PROVE  /\ Matched(S, R, n) =>
                (Waiting(S)' # {} => n <= Cardinality(Looking(S)') + Cardinality(Signalling(R)'))
           /\ Matched(R, S, m) =>
                (Waiting(R)' # {} => m <= Cardinality(Looking(R)') + Cardinality(Signalling(S)'))
  <1>1. t # w /\ w \in S /\ pc[w] = "wait" /\ t \notin S /\ w \notin R
    BY DEF Waiting
  <1>2. /\ Looking(S)' = Looking(S) \cup {w} /\ w \notin Looking(S)
        /\ Signalling(R)' = Signalling(R) \ {t} /\ t \in Signalling(R)
        /\ Waiting(S)' = Waiting(S) \ {w}
    BY <1>1 DEF TypeOK, Looking, Signalling, Waiting
  <1>3. /\ Looking(R)' = Looking(R) /\ Signalling(S)' = Signalling(S)
        /\ Waiting(R)' = Waiting(R)
    BY <1>1 DEF TypeOK, Looking, Signalling, Waiting
  <1>4. /\ IsFiniteSet(Looking(S)) /\ Cardinality(Looking(S)) \in Nat
        /\ IsFiniteSet(Signalling(R)) /\ Cardinality(Signalling(R)) \in Nat
    BY FiniteCounts
  <1>5. /\ Cardinality(Looking(S) \cup {w}) = Cardinality(Looking(S)) + 1
        /\ Cardinality(Signalling(R) \ {t}) = Cardinality(Signalling(R)) - 1
    BY <1>2, <1>4, FS_AddElement, FS_RemoveElement
  <1> QED
    BY <1>2, <1>3, <1>4, <1>5 DEF Matched

\* The two sides of the queue.
Opposite(S, R) ==
    \/ S = Consumers /\ R = Producers
    \/ S = Producers /\ R = Consumers

\* What threads sleep on is matched after a step that leaves the counted
\* sets and the struct alone.
LEMMA WakeupUnchanged ==
    ASSUME NoLostWakeup, UNCHANGED <<pc, used>>
    PROVE  NoLostWakeup'
  BY DEF NoLostWakeup, Matched, Waiting, Looking, Signalling

\* Both sides of NoLostWakeup after a step, spelled out.
LEMMA WakeupPrimed ==
    ASSUME Waiting(Consumers)' # {} =>
             used' <= Cardinality(Looking(Consumers)') + Cardinality(Signalling(Producers)'),
           Waiting(Producers)' # {} =>
             Size - used' <= Cardinality(Looking(Producers)') + Cardinality(Signalling(Consumers)')
    PROVE  NoLostWakeup'
  BY DEF NoLostWakeup, Matched

\* Every step keeps sleeping threads matched.
LEMMA WakeupStep == CoreInv /\ NoLostWakeup /\ [Next]_vars => NoLostWakeup'
  <1> SUFFICES ASSUME CoreInv, NoLostWakeup, [Next]_vars PROVE NoLostWakeup'
    OBVIOUS
  <1>0. /\ TypeOK /\ used \in Int /\ Size \in Int /\ Size - used \in Int /\ used <= Size
        /\ Producers \in SUBSET Threads /\ Consumers \in SUBSET Threads
        /\ Consumers \cap Producers = {} /\ Producers \cap Consumers = {}
        /\ IsFiniteSet(Producers) /\ IsFiniteSet(Consumers)
        /\ Matched(Consumers, Producers, used)
        /\ Matched(Producers, Consumers, Size - used)
    BY QueueAssumption DEF CoreInv, TypeOK, Threads, NoLostWakeup
  <1>1. ASSUME NEW t \in Threads, NEW q, pc' = [pc EXCEPT ![t] = q], used' = used,
               \/ pc[t] = "lock" /\ q = "test"
               \/ pc[t] \in {"idle", "wait"} /\ q = "lock"
               \/ pc[t] = "unlock" /\ q = "idle"
        PROVE  NoLostWakeup'
    <2>1. t \in Producers \/ t \in Consumers
      BY DEF Threads
    <2>2. /\ Accounted(Consumers, Producers, t, q, used, used)
          /\ Accounted(Producers, Consumers, t, q, Size - used, Size - used)
      BY <1>0, <1>1, <2>1 DEF Accounted
    <2>3. /\ Waiting(Consumers)' # {} =>
               used <= Cardinality(Looking(Consumers)') + Cardinality(Signalling(Producers)')
          /\ Waiting(Producers)' # {} =>
               Size - used <= Cardinality(Looking(Producers)') + Cardinality(Signalling(Consumers)')
      BY <1>0, <2>2, MoveKeepsMatched
    <2> QED
      BY <1>1, <2>3, WakeupPrimed
  <1>2. ASSUME NEW p \in Producers, pc[p] = "test", NEW q, pc' = [pc EXCEPT ![p] = q],
               \/ q = "wait" /\ used' = used /\ used = Size
               \/ q = "signal" /\ used' = used + 1
        PROVE  NoLostWakeup'
    <2>1. PICK n \in Int, m \in Int : /\ n = Size - used /\ m = Size - used'
                                     /\ Matched(Producers, Consumers, n)
      BY <1>0, <1>2
    <2>2. Accounted(Producers, Consumers, p, q, n, m)
      BY <1>0, <1>2, <2>1 DEF Accounted
    <2>3. Waiting(Producers)' # {} =>
            m <= Cardinality(Looking(Producers)') + Cardinality(Signalling(Consumers)')
      BY <1>0, <2>2, MoveKeepsMatched
    <2>4. Accounted(Consumers, Producers, p, q, used, used')
      BY <1>0, <1>2 DEF Accounted
    <2>5. Waiting(Consumers)' # {} =>
            used' <= Cardinality(Looking(Consumers)') + Cardinality(Signalling(Producers)')
      BY <1>0, <2>4, MoveKeepsMatched
    <2> QED
      BY <2>1, <2>3, <2>5, WakeupPrimed
  <1>3. ASSUME NEW c \in Consumers, pc[c] = "test", NEW q, pc' = [pc EXCEPT ![c] = q],
               \/ q = "wait" /\ used' = used /\ used = 0
               \/ q = "signal" /\ used' = used - 1
        PROVE  NoLostWakeup'
    <2>1. PICK n \in Int, m \in Int : /\ n = Size - used /\ m = Size - used'
                                     /\ Matched(Producers, Consumers, n)
      BY <1>0, <1>3
    <2>2. Accounted(Producers, Consumers, c, q, n, m)
      BY <1>0, <1>3, <2>1 DEF Accounted
    <2>3. Waiting(Producers)' # {} =>
            m <= Cardinality(Looking(Producers)') + Cardinality(Signalling(Consumers)')
      BY <1>0, <2>2, MoveKeepsMatched
    <2>4. Accounted(Consumers, Producers, c, q, used, used')
      BY <1>0, <1>3 DEF Accounted
    <2>5. Waiting(Consumers)' # {} =>
            used' <= Cardinality(Looking(Consumers)') + Cardinality(Signalling(Producers)')
      BY <1>0, <2>4, MoveKeepsMatched
    <2> QED
      BY <2>1, <2>3, <2>5, WakeupPrimed
  <1>4. ASSUME NEW S, NEW R, Opposite(S, R), NEW t \in R, CondSignal(t, S)
        PROVE  NoLostWakeup'
    <2> USE DEF Opposite
    <2>0. pc[t] = "signal" /\ used' = used
      BY <1>4 DEF CondSignal, ring
    <2>1. CASE Waiting(S) = {} /\ pc' = [pc EXCEPT ![t] = "unlock"]
      <3>1. /\ Accounted(Consumers, Producers, t, "unlock", used, used)
            /\ Accounted(Producers, Consumers, t, "unlock", Size - used, Size - used)
        BY <1>0, <1>4, <2>0, <2>1 DEF Accounted
      <3>2. /\ Waiting(Consumers)' # {} =>
                 used <= Cardinality(Looking(Consumers)') + Cardinality(Signalling(Producers)')
            /\ Waiting(Producers)' # {} =>
                 Size - used <= Cardinality(Looking(Producers)') + Cardinality(Signalling(Consumers)')
        BY <1>0, <3>1, MoveKeepsMatched
      <3> QED
        BY <2>0, <3>2, WakeupPrimed
    <2>2. ASSUME NEW w \in Waiting(S), pc' = [pc EXCEPT ![t] = "unlock", ![w] = "lock"]
          PROVE  NoLostWakeup'
      <3>1. Waiting(Consumers)' # {} =>
              used <= Cardinality(Looking(Consumers)') + Cardinality(Signalling(Producers)')
        BY <1>0, <1>4, <2>0, <2>2, SignalKeepsMatched
      <3>2. Waiting(Producers)' # {} =>
              Size - used <= Cardinality(Looking(Producers)') + Cardinality(Signalling(Consumers)')
        BY <1>0, <1>4, <2>0, <2>2, SignalKeepsMatched
      <3> QED
        BY <2>0, <3>1, <3>2, WakeupPrimed
    <2> QED
      BY <1>4, <2>1, <2>2 DEF CondSignal
  <1>5. CASE UNCHANGED vars
    BY <1>5, WakeupUnchanged DEF vars, ring
  <1>6. ASSUME NEW p \in Producers, PushStep(p) PROVE NoLostWakeup'
    <2>1. CASE PushWait(p)
      BY <1>2, <1>6, <2>1 DEF PushWait, CondWait, Full, ring
    <2>2. CASE PushStore(p)
      BY <1>2, <1>6, <2>2 DEF PushStore
    <2>3. CASE PushSignal(p)
      <3>1. CondSignal(p, Consumers) /\ Opposite(Consumers, Producers)
        BY <2>3 DEF PushSignal, Opposite
      <3> QED
        BY <1>4, <1>6, <3>1
    <2> QED
      BY <1>6, <2>1, <2>2, <2>3 DEF PushStep
  <1>7. ASSUME NEW c \in Consumers, PopStep(c) PROVE NoLostWakeup'
    <2>1. CASE PopWait(c)
      BY <1>3, <1>7, <2>1 DEF PopWait, CondWait, Empty, ring
    <2>2. CASE PopTake(c)
      BY <1>3, <1>7, <2>2 DEF PopTake
    <2>3. CASE PopSignal(c)
      <3>1. CondSignal(c, Producers) /\ Opposite(Producers, Consumers)
        BY <2>3 DEF PopSignal, Opposite
      <3> QED
        BY <1>4, <1>7, <3>1
    <2> QED
      BY <1>7, <2>1, <2>2, <2>3 DEF PopStep
  <1>8. ASSUME NEW t \in Threads, Lock(t) \/ Unlock(t) \/ SpuriousWake(t) PROVE NoLostWakeup'
    BY <1>1, <1>8 DEF Lock, Unlock, SpuriousWake, ring
  <1>9. ASSUME NEW p \in Producers, NEW x \in Fd, PushCall(p, x) PROVE NoLostWakeup'
    BY <1>0, <1>1, <1>9 DEF PushCall, ring
  <1>10. ASSUME NEW c \in Consumers, PopCall(c) PROVE NoLostWakeup'
    BY <1>0, <1>1, <1>10 DEF PopCall, ring
  <1> QED
    BY <1>5, <1>6, <1>7, <1>8, <1>9, <1>10 DEF Next

LEMMA WakeupInit == Init => NoLostWakeup
  BY DEF Init, NoLostWakeup, Matched, Waiting, Threads

\* No wakeup is lost, however many threads push and pop: a thread sleeps on a
\* condition only while every thing it waits for is spoken for.
THEOREM NoWakeupLost == Spec => []NoLostWakeup
  <1>1. Init => CoreInv /\ NoLostWakeup
    BY CoreInit, WakeupInit
  <1>2. CoreInv /\ NoLostWakeup /\ [Next]_vars => (CoreInv /\ NoLostWakeup)'
    BY CoreStep, WakeupStep
  <1> QED
    BY <1>1, <1>2, PTL DEF Spec
-----------------------------------------------------------------------------
(* The ring implements the abstract queue *)

\* The occupied slots, read from front on, are a sequence of descriptors.
LEMMA ContentsIsSeq ==
    ASSUME CoreInv
    PROVE  /\ Contents \in Seq(Fd) /\ Len(Contents) = used /\ used \in Nat
           /\ \A i \in 1 .. used : Contents[i] = fd[Slot(i - 1)]
  <1>1. used \in Nat /\ \A k \in 0 .. used - 1 : fd[Slot(k)] \in Fd
    BY DEF CoreInv, TypeOK, RingConsistent
  <1>2. \A i \in 1 .. used : fd[Slot(i - 1)] \in Fd
    BY <1>1
  <1>3. Contents \in [1 .. used -> Fd]
    BY <1>2 DEF Contents
  <1>4. Contents \in Seq(Fd)
    BY <1>1, <1>3, SeqDef
  <1>5. Len(Contents) = used
    BY <1>1, <1>3, <1>4, LenProperties
  <1> QED
    BY <1>1, <1>4, <1>5 DEF Contents

\* The same after the step.
LEMMA ContentsIsSeqPrimed ==
    ASSUME CoreInv'
    PROVE  /\ Contents' \in Seq(Fd) /\ Len(Contents') = used' /\ used' \in Nat
           /\ \A i \in 1 .. used' : Contents'[i] = fd'[Slot(i - 1)']
  <1> DEFINE place(k) == IF front' + k < Size THEN front' + k ELSE front' + k - Size
  <1>0. used' \in Nat
    BY QueueAssumption DEF CoreInv, TypeOK
  <1>1. \A k \in 0 .. used' - 1 : fd'[place(k)] \in Fd
    BY DEF CoreInv, RingConsistent, Slot
  <1>2. \A i \in 1 .. used' : fd'[place(i - 1)] \in Fd
    <2> HIDE DEF place
    <2>1. PICK n \in Nat : n = used'
      BY <1>0
    <2>2. \A k \in 0 .. n - 1 : fd'[place(k)] \in Fd
      BY <1>1, <2>1
    <2>3. \A i \in 1 .. n : fd'[place(i - 1)] \in Fd
      BY <2>2
    <2> QED
      BY <2>1, <2>3
  <1>3. Contents' \in [1 .. used' -> Fd]
    BY <1>2 DEF Contents, Slot
  <1>4. Contents' \in Seq(Fd)
    BY <1>0, <1>3, SeqDef
  <1>5. Len(Contents') = used'
    BY <1>0, <1>3, <1>4, LenProperties
  <1> QED
    BY <1>0, <1>4, <1>5 DEF Contents, Slot

\* Storing at rear appends the pushed descriptor to the contents.
LEMMA StoreAppends ==
    ASSUME CoreInv, CoreInv', NEW p \in Producers, PushStore(p)
    PROVE  Contents' = Append(Contents, arg[p]) /\ Len(Contents) < Size
  <1>1. used \in 0 .. Size - 1 /\ used' = used + 1 /\ arg[p] \in Fd
    BY QueueAssumption DEF PushStore, Full, CoreInv, TypeOK, ArgKnown
  <1>2. Contents \in Seq(Fd) /\ Len(Contents) = used
    BY ContentsIsSeq
  <1>3. \A i \in 1 .. used : Contents[i] = fd[Slot(i - 1)]
    BY ContentsIsSeq
  <1>4. Contents' \in Seq(Fd) /\ Len(Contents') = used'
    BY ContentsIsSeqPrimed
  <1>5. \A i \in 1 .. used' : Contents'[i] = fd'[Slot(i - 1)']
    BY ContentsIsSeqPrimed
  <1> DEFINE longer == Append(Contents, arg[p])
  <1>6. /\ longer \in Seq(Fd) /\ Len(longer) = used + 1
        /\ \A i \in 1 .. used : longer[i] = Contents[i]
        /\ longer[used + 1] = arg[p]
    BY <1>1, <1>2, AppendProperties
  <1>7. /\ front \in 0 .. Size - 1 /\ Size \in Nat /\ rear = Slot(used)
        /\ fd \in [0 .. Size - 1 -> Fd \cup {NoFd}]
        /\ fd' = [fd EXCEPT ![rear] = arg[p]] /\ front' = front
    BY QueueAssumption DEF CoreInv, TypeOK, RingConsistent, PushStore
  <1>8. \A i \in 1 .. used + 1 :
           Slot(i - 1)' = Slot(i - 1) /\ Slot(i - 1) \in 0 .. Size - 1
    BY <1>1, <1>7 DEF Slot
  <1>9. \A i \in 1 .. used : Slot(i - 1) # rear
    BY <1>1, <1>7 DEF Slot
  <1>10. \A i \in 1 .. used + 1 : Contents'[i] = longer[i]
    <2> TAKE i \in 1 .. used + 1
    <2>1. Contents'[i] = fd'[Slot(i - 1)]
      BY <1>1, <1>5, <1>8
    <2>2. CASE i = used + 1
      <3>1. Slot(i - 1) = rear /\ rear \in 0 .. Size - 1
        BY <1>1, <1>7, <1>8, <2>2
      <3> QED
        BY <2>1, <2>2, <3>1, <1>6, <1>7
    <2>3. CASE i # used + 1
      <3>1. i \in 1 .. used /\ Slot(i - 1) \in 0 .. Size - 1
        BY <1>1, <1>8, <2>3
      <3> QED
        BY <2>1, <3>1, <1>3, <1>6, <1>7, <1>9
    <2> QED
      BY <2>2, <2>3
  <1>11. Contents' = longer
    BY <1>1, <1>4, <1>6, <1>10, SeqEqual
  <1> QED
    BY <1>1, <1>2, <1>7, <1>11

\* Taking the slot at front returns the head of the contents and leaves the tail.
LEMMA TakeRemovesHead ==
    ASSUME CoreInv, CoreInv', NEW c \in Consumers, PopTake(c)
    PROVE  /\ Contents # <<>> /\ Contents' = Tail(Contents)
           /\ fd[front] = Head(Contents)
  <1>1. used \in 1 .. Size /\ used' = used - 1
    BY QueueAssumption DEF PopTake, Empty, CoreInv, TypeOK
  <1>2. Contents \in Seq(Fd) /\ Len(Contents) = used
    BY ContentsIsSeq
  <1>3. \A i \in 1 .. used : Contents[i] = fd[Slot(i - 1)]
    BY ContentsIsSeq
  <1>4. Contents' \in Seq(Fd) /\ Len(Contents') = used'
    BY ContentsIsSeqPrimed
  <1>5. \A i \in 1 .. used' : Contents'[i] = fd'[Slot(i - 1)']
    BY ContentsIsSeqPrimed
  <1>6. Contents # <<>>
    BY <1>1, <1>2
  <1>7. /\ Tail(Contents) \in Seq(Fd) /\ Len(Tail(Contents)) = used - 1
        /\ \A i \in 1 .. used - 1 : Tail(Contents)[i] = Contents[i + 1]
        /\ Head(Contents) = Contents[1]
    BY <1>1, <1>2, <1>6, HeadTailProperties
  <1>8. /\ front \in 0 .. Size - 1 /\ Size \in Nat
        /\ fd' = fd /\ front' = Advance(front)
    BY QueueAssumption DEF CoreInv, TypeOK, PopTake
  <1>9. \A i \in 1 .. used - 1 : Slot(i - 1)' = Slot((i + 1) - 1)
    BY <1>1, <1>8 DEF Slot, Advance
  <1>10. \A i \in 1 .. used - 1 : Contents'[i] = Tail(Contents)[i]
    <2> TAKE i \in 1 .. used - 1
    <2>1. i + 1 \in 1 .. used /\ i \in 1 .. used'
      BY <1>1
    <2> QED
      BY <2>1, <1>3, <1>5, <1>7, <1>8, <1>9
  <1>11. Contents' = Tail(Contents)
    BY <1>1, <1>4, <1>7, <1>10, SeqEqual
  <1>12. Slot(0) = front /\ 1 \in 1 .. used
    BY <1>1, <1>8 DEF Slot
  <1> QED
    BY <1>3, <1>6, <1>7, <1>11, <1>12

\* A step that leaves the struct alone leaves the contents alone.
LEMMA ContentsUnchanged ==
    ASSUME UNCHANGED ring
    PROVE  Contents' = Contents
  BY DEF ring, Contents, Slot

\* Every step of the detailed queue is one of the abstract one, or invisible.
LEMMA FifoStep == CoreInv /\ CoreInv' /\ [Next]_vars => [Fifo!Next]_(Fifo!fifoVars)
  <1> SUFFICES ASSUME CoreInv, CoreInv', [Next]_vars PROVE [Fifo!Next]_(Fifo!fifoVars)
    OBVIOUS
  <1> USE DEF Fifo!Next, Fifo!fifoVars
  <1>1. ASSUME UNCHANGED <<ring, arg, result>> PROVE [Fifo!Next]_(Fifo!fifoVars)
    BY <1>1, ContentsUnchanged
  <1>2. ASSUME NEW p \in Producers, NEW x \in Fd, PushCall(p, x) PROVE Fifo!Next
    <2>1. Contents' = Contents
      BY <1>2, ContentsUnchanged DEF PushCall
    <2> QED
      BY <1>2, <2>1 DEF PushCall, Fifo!Request
  <1>3. ASSUME NEW c \in Consumers, PopCall(c) PROVE Fifo!Next
    <2>1. Contents' = Contents
      BY <1>3, ContentsUnchanged DEF PopCall
    <2> QED
      BY <1>3, <2>1 DEF PopCall, Fifo!Forget
  <1>4. ASSUME NEW p \in Producers, PushStore(p) PROVE Fifo!Next
    BY <1>4, StoreAppends DEF PushStore, Fifo!Put
  <1>5. ASSUME NEW c \in Consumers, PopTake(c) PROVE Fifo!Next
    BY <1>5, TakeRemovesHead DEF PopTake, Fifo!Get
  <1>6. ASSUME NEW t, NEW S, Lock(t) \/ Unlock(t) \/ SpuriousWake(t)
                             \/ CondWait(t) \/ CondSignal(t, S)
        PROVE  [Fifo!Next]_(Fifo!fifoVars)
    BY <1>1, <1>6 DEF Lock, Unlock, SpuriousWake, CondWait, CondSignal
  <1>7. CASE UNCHANGED vars
    BY <1>1, <1>7 DEF vars, ring
  <1> QED
    BY <1>2, <1>3, <1>4, <1>5, <1>6, <1>7
       DEF Next, PushStep, PopStep, PushWait, PopWait, PushSignal, PopSignal

\* Initially nothing is inside.
LEMMA FifoInit == Init => Fifo!Init
  <1> SUFFICES ASSUME Init PROVE Fifo!Init
    OBVIOUS
  <1>1. Contents = <<>>
    <2>1. Contents \in Seq(Fd) /\ Len(Contents) = 0
      BY CoreInit, ContentsIsSeq DEF Init
    <2> QED
      BY <2>1, EmptySeq
  <1> QED
    BY <1>1 DEF Init, Fifo!Init

\* The ring behind its mutex implements the bounded first-in first-out queue.
THEOREM QueueImplementsFifo == Spec => ImplementsFifo
  <1>1. Init => Fifo!Init
    BY FifoInit
  <1>2. CoreInv /\ CoreInv' /\ [Next]_vars => [Fifo!Next]_(Fifo!fifoVars)
    BY FifoStep
  <1>3. Spec => []CoreInv
    BY CoreInvariant
  <1> QED
    BY <1>1, <1>2, <1>3, PTL DEF Spec, ImplementsFifo, Fifo!Spec
=============================================================================
