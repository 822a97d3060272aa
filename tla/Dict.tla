--------------------------------- MODULE Dict ---------------------------------
(***************************************************************************)
(* lib/dict.c: a hash table with chaining and two tables, ht[0] and, while *)
(* rehashing, ht[1].  A chain is the sequence of its entries, head first;  *)
(* mask is size - 1 and sizes are powers of two, so h & mask is h % size.  *)
(*                                                                         *)
(* One call leaves C's defined behaviour: after it `broken' is set and the *)
(* model stops.                                                            *)
(***************************************************************************)
EXTENDS Integers, Sequences, FiniteSets, SequencesExt

CONSTANTS Key,          \* key pointers
          Text,         \* the string behind each pointer
          Hash,         \* _dictGenHash of each string
          Val, Absent,
          InitialSize,  \* DICT_HT_INITIAL_SIZE
          ExpandTo,     \* the sizes callers pass to dictExpand
          RehashBy      \* the n callers pass to dictRehash

DictAssumption ==
    /\ InitialSize \in {2 ^ k : k \in 0 .. 16}
    /\ \A k \in Key : Hash[Text[k]] \in Nat
    /\ Absent \notin Val \cup Key
    /\ ExpandTo \subseteq Nat /\ RehashBy \subseteq Nat \ {0}

VARIABLES d,       \* the dict: ht and rehashidx
          reply,   \* the last call and its answer
          broken   \* the last call had undefined behaviour

vars == <<d, reply, broken>>

NoTable == [size |-> 0, used |-> 0, table |-> [s \in {} |-> <<>>]]
Table(n) == [size |-> n, used |-> 0, table |-> [s \in 0 .. n - 1 |-> <<>>]]

IsRehashing(x) == x.rehashidx # -1
DictSize(x) == x.ht[0].used + x.ht[1].used

Slot(t, k) == Hash[Text[k]] % t.size
Chain(t, k) == t.table[Slot(t, k)]

\* The tables a lookup visits.
Visited(x) == IF IsRehashing(x) THEN {0, 1} ELSE {0}

Init ==
    /\ d = [ht |-> [i \in {0, 1} |-> NoTable], rehashidx |-> -1]
    /\ reply = [op |-> "none", key |-> Absent, result |-> Absent]
    /\ broken = FALSE

-----------------------------------------------------------------------------
(* Growing *)

NextPower(n) ==
    LET grow[i \in Nat] == IF i >= n THEN i ELSE grow[2 * i] IN grow[InitialSize]

\* dictExpand: the dict after it, and whether it returned DICT_OK.
Expand(x, n) ==
    LET real == NextPower(n) IN
    IF IsRehashing(x) THEN [dict |-> x, ok |-> TRUE]
    ELSE IF real = x.ht[0].size THEN [dict |-> x, ok |-> FALSE]
    ELSE IF x.ht[0].size = 0 THEN [dict |-> [x EXCEPT !.ht[0] = Table(real)], ok |-> TRUE]
    ELSE [dict |-> [x EXCEPT !.ht[1] = Table(real), !.rehashidx = 0], ok |-> TRUE]

ExpandIfNeeded(x) ==
    LET t == x.ht[0] IN
    IF IsRehashing(x) THEN [dict |-> x, ok |-> TRUE]
    ELSE IF t.size = 0 THEN Expand(x, InitialSize)
    ELSE IF t.used >= t.size THEN Expand(x, t.used * 2)
    ELSE [dict |-> x, ok |-> TRUE]

\* _dictKeyIndex: the dict after it and the slot for k in the last table
\* visited, -1 when an entry with the same string is there.
Found(x, k) ==
    \E i \in Visited(x) : \E e \in ToSet(Chain(x.ht[i], k)) : Text[e.key] = Text[k]

IndexAfter(r, k) ==
    [dict |-> r.dict,
     idx  |-> IF ~r.ok \/ Found(r.dict, k) THEN -1
              ELSE Slot(r.dict.ht[IF IsRehashing(r.dict) THEN 1 ELSE 0], k)]

KeyIndex(x, k) == IndexAfter(ExpandIfNeeded(x), k)

-----------------------------------------------------------------------------
(* Rehashing *)

\* The bucket's j-th entry e goes from ht[0] to the front of a chain of ht[1].
\* The bucket keeps its pointer to the first entry, whose next is changed
\* first: the lookup of the entries after it runs on into ht[1].
\* h & ht[0].mask is ht[0].mask when _dictKeyIndex finds the entry itself.
MoveTo(x, e, j, slot) ==
    LET moved == <<e>> \o x.ht[1].table[slot]
    IN [x EXCEPT !.ht[0].used = @ - 1,
                 !.ht[1].used = @ + 1,
                 !.ht[1].table[slot] = moved,
                 !.ht[0].table[x.rehashidx] = IF j = 1 THEN moved ELSE @]

MoveEntry(x, e, j) ==
    LET i == KeyIndex(x, e.key).idx
    IN MoveTo(x, e, j, IF i = -1 THEN x.ht[0].size - 1 ELSE i % x.ht[0].size)

\* What is left to do of dictRehash's loop: the dict, the empty slots it may
\* still skip, and whether it has returned already.
MoveBucket(s) ==
    LET x == s.dict
        full == CHOOSE i \in x.rehashidx .. x.ht[0].size - 1 :
                    /\ x.ht[0].table[i] # <<>>
                    /\ \A k \in x.rehashidx .. i - 1 : x.ht[0].table[k] = <<>>
        skipped == full - x.rehashidx
        at == [x EXCEPT !.rehashidx = full]
        bucket == x.ht[0].table[full]
        moved == FoldLeftDomain(LAMBDA y, j : MoveEntry(y, bucket[j], j), at, bucket)
    IN IF skipped >= s.visits
       THEN [dict |-> [x EXCEPT !.rehashidx = @ + s.visits], visits |-> 0, returned |-> TRUE]
       ELSE [dict |-> [moved EXCEPT !.ht[0].table[full] = <<>>, !.rehashidx = full + 1],
             visits |-> s.visits - skipped, returned |-> FALSE]

Finish_Early(x) == [ht |-> [i \in {0, 1} |-> IF i = 0 THEN x.ht[1] ELSE NoTable], rehashidx |-> -1]

Finish(x) ==
    IF x.ht[0].used = 0
    THEN [ht |-> [i \in {0, 1} |-> IF i = 0 THEN x.ht[1] ELSE NoTable], rehashidx |-> -1]
    ELSE x

Left(s) == IF s.returned THEN s.dict ELSE Finish(s.dict)

\* dictRehash(d, n): while (--n && ...) moves at most n - 1 buckets.
Rehash(x, n) ==
    LET after[k \in 0 .. n - 1] ==
            IF k = 0 THEN [dict |-> x, visits |-> n * 10, returned |-> FALSE]
            ELSE LET s == after[k - 1] IN
                 IF s.returned \/ s.dict.ht[0].used = 0 THEN s ELSE MoveBucket(s)
    IN IF ~IsRehashing(x) THEN x ELSE Left(after[n - 1])

RehashStep(x) == Rehash(x, 1)

-----------------------------------------------------------------------------
(* The calls *)

Answer(o, k, r) == reply' = [op |-> o, key |-> k, result |-> r]

AddAfter(r, k, v) ==
    LET i == IF IsRehashing(r.dict) THEN 1 ELSE 0
    IN /\ \/ /\ r.idx = -1
             /\ d' = r.dict
             /\ Answer("add", Text[k], "err")
          \/ /\ r.idx # -1
             /\ d' = [r.dict EXCEPT !.ht[i].table[r.idx] = <<[key |-> k, val |-> v]>> \o @,
                                    !.ht[i].used = @ + 1]
             /\ Answer("add", Text[k], "ok")
       /\ UNCHANGED broken

DictAdd(k, v) == AddAfter(KeyIndex(RehashStep(d), k), k, v)

\* Where dictGet finds the string of k in table i, 0 if it does not.
Hit(x, i, k) == SelectInSeq(Chain(x.ht[i], k), LAMBDA e : Text[e.key] = Text[k])

Lookup(x, k) ==
    LET found(i) == Chain(x.ht[i], k)[Hit(x, i, k)].val IN
    IF Hit(x, 0, k) # 0 THEN found(0)
    ELSE IF IsRehashing(x) /\ Hit(x, 1, k) # 0 THEN found(1)
    ELSE Absent

DictGet(k) ==
    LET x == RehashStep(d) IN
    /\ \/ DictSize(d) = 0 /\ UNCHANGED d /\ Answer("get", Text[k], Absent)
       \/ DictSize(d) # 0 /\ d' = x /\ Answer("get", Text[k], Lookup(x, k))
    /\ UNCHANGED broken

\* Where dictDel finds the pointer k in table i, 0 if it does not.
Position(x, i, k) == SelectInSeq(Chain(x.ht[i], k), LAMBDA e : e.key = k)

\* prevEntry still points to the last entry of ht[0]'s chain when k turns out
\* to be the first of ht[1]'s: the wrong next is changed and ht[1] keeps its
\* pointer to the entry that is freed.
Stale(x, k) ==
    /\ IsRehashing(x)
    /\ Position(x, 0, k) = 0 /\ Chain(x.ht[0], k) # <<>>
    /\ Position(x, 1, k) = 1

Unlink_Uncounted(x, i, k) ==
    [x EXCEPT !.ht[i].table[Slot(x.ht[i], k)] = RemoveAt(@, Position(x, i, k))]

Unlink(x, i, k) ==
    [x EXCEPT !.ht[i].table[Slot(x.ht[i], k)] = RemoveAt(@, Position(x, i, k)),
              !.ht[i].used = @ - 1]

UnlinkStale(x, k) ==
    [x EXCEPT !.ht[0].table[Slot(x.ht[0], k)] = @ \o Tail(Chain(x.ht[1], k)),
              !.ht[1].used = @ - 1]

DelIn(x, k) ==
    LET hits == {i \in Visited(x) : Position(x, i, k) # 0}
    IN \/ /\ DictSize(d) = 0
          /\ Answer("del", Text[k], Absent) /\ UNCHANGED <<d, broken>>
       \/ /\ DictSize(d) # 0 /\ hits = {}
          /\ d' = x
          /\ Answer("del", Text[k], Absent) /\ UNCHANGED broken
       \/ /\ DictSize(d) # 0 /\ hits # {}
          /\ \/ Stale(x, k) /\ d' = UnlinkStale(x, k) /\ broken' = TRUE
             \/ ~Stale(x, k) /\ d' = Unlink(x, Min(hits), k) /\ UNCHANGED broken
          /\ Answer("del", Text[k], "entry")

DictDel(k) == DelIn(RehashStep(d), k)

DictExpand(n) == d' = Expand(d, n).dict /\ UNCHANGED <<reply, broken>>

\* Slot ht[0].mask may lie outside of a smaller ht[1].
DictRehash(n) ==
    /\ d.ht[1].size >= d.ht[0].size \/ n = 1
    /\ d' = Rehash(d, n) /\ UNCHANGED <<reply, broken>>

-----------------------------------------------------------------------------

Next ==
    /\ ~broken
    /\ \/ \E k \in Key : DictGet(k) \/ DictDel(k) \/ \E v \in Val : DictAdd(k, v)
       \/ \E n \in ExpandTo : DictExpand(n)
       \/ \E n \in RehashBy : DictRehash(n)

Spec == Init /\ [][Next]_vars

-----------------------------------------------------------------------------
(* Properties *)

Texts == {Text[k] : k \in Key}
Entry == [key : Key, val : Val]

\* Both tables are arrays of chains, the second is there while rehashing only.
TypeOK ==
    /\ \A i \in {0, 1} :
         /\ d.ht[i].used \in Nat
         /\ DOMAIN d.ht[i].table = 0 .. d.ht[i].size - 1
         /\ \A s \in DOMAIN d.ht[i].table : d.ht[i].table[s] \in Seq(Entry)
    /\ d.rehashidx \in -1 .. d.ht[0].size
    /\ IsRehashing(d) <=> d.ht[1].size # 0
    /\ reply.op \in {"none", "add", "get", "del"}
    /\ broken \in BOOLEAN

\* The places of the entries that are linked from a table.
Linked(t) == UNION {{s} \X DOMAIN t.table[s] : s \in DOMAIN t.table}

\* Every entry is linked from the slot its string hashes to, and `used' of each
\* table is the number of entries linked from it: a lookup that starts at the
\* slot finds every entry, and dictSize and the end of a rehash are right.
TablesConsistent ==
    /\ TypeOK
    /\ ~broken => \A i \in {0, 1} :
           /\ \A s \in DOMAIN d.ht[i].table :
                \A e \in ToSet(d.ht[i].table[s]) : Slot(d.ht[i], e.key) = s
           /\ d.ht[i].used = Cardinality(Linked(d.ht[i]))

\* What callers see: the value of each string.
Contents ==
    [t \in Texts |->
        IF DictSize(d) = 0 THEN Absent ELSE Lookup(d, CHOOSE k \in Key : Text[k] = t)]

Map == INSTANCE KeyValueMap WITH Key <- Texts, map <- Contents

\* Through all expansions and half finished rehashes the dict answers every
\* call as a plain map does, as long as no call is undefined.
ImplementsMap == Map!Init /\ [][Map!Next \/ broken']_<<Contents, reply>>
=============================================================================
