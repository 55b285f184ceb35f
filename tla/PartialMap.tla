----------------------------- MODULE PartialMap -----------------------------
(***************************************************************************)
(* What a hash table promises: a map from keys to values, of which each    *)
(* call does its part at once.                                             *)
(***************************************************************************)
CONSTANTS Key, TextOf, Value, Absent, Null

VARIABLES
    map,
    call        \* the last call: what was asked and what was answered

vars == <<map, call>>

Init == map = [k \in Key |-> Absent] /\ call = <<>>

Set(k, v) ==
    /\ map' = [map EXCEPT ![k] = v]
    /\ call' = <<"set", k, map[k] = Absent>>

Delete(k) ==
    /\ map' = [map EXCEPT ![k] = Absent]
    /\ call' = <<"delete", k, map[k] # Absent>>

Get(k) == call' = <<"get", k, map[k]>> /\ UNCHANGED map

\* A key of the map with the given text, or none if there is none.
FindString(t) ==
    /\ \/ \E k \in Key : /\ map[k] # Absent /\ TextOf[k] = t
                        /\ call' = <<"find", t, k>>
       \/ /\ \A k \in Key : TextOf[k] = t => map[k] = Absent
          /\ call' = <<"find", t, Null>>
    /\ UNCHANGED map

Next ==
    \E k \in Key : Delete(k) \/ Get(k) \/ FindString(TextOf[k]) \/ \E v \in Value : Set(k, v)

Spec == Init /\ [][Next]_vars
=============================================================================
