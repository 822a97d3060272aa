------------------------------ MODULE KeyValueMap ------------------------------
(***************************************************************************)
(* What lib/dict.h promises: a map from strings to values, with the answer *)
(* of the last call.  Adding a string that is there is refused, deleting   *)
(* one that is there removes it.                                           *)
(***************************************************************************)
CONSTANTS Key, Val, Absent

VARIABLES map, reply

mapVars == <<map, reply>>

Answer(o, k, r) == reply' = [op |-> o, key |-> k, result |-> r]

Init ==
    /\ map = [k \in Key |-> Absent]
    /\ reply = [op |-> "none", key |-> Absent, result |-> Absent]

Add(k, v) ==
    \/ Answer("add", k, "ok") /\ map[k] = Absent /\ map' = [map EXCEPT ![k] = v]
    \/ Answer("add", k, "err") /\ map[k] # Absent /\ UNCHANGED map

Get(k) == Answer("get", k, map[k]) /\ UNCHANGED map

Delete(k) ==
    /\ Answer("del", k, IF map[k] = Absent THEN Absent ELSE "entry")
    /\ map' = [map EXCEPT ![k] = Absent]

Next == \E k \in Key : Get(k) \/ Delete(k) \/ \E v \in Val : Add(k, v)

Spec == Init /\ [][Next]_mapVars
=============================================================================
