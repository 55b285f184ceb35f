----------------------------- MODULE OrderedMap -----------------------------
(***************************************************************************)
(* What a Magnesium dict promises to a script: a map from string contents  *)
(* to values that enumerates its keys in the order of their insertion      *)
(* (dict.keys and dict.values walk dict->entries), and whose lookups see   *)
(* the last store, whichever opcode or native performs them.               *)
(***************************************************************************)
CONSTANTS Text, Value, Done, Absent

VARIABLES
    map,        \* the value of each text that is a key
    order,      \* the pairs of keys of which the first was inserted earlier
    call        \* the last call: what was asked and what was answered

vars == <<map, order, call>>

Keys == DOMAIN map

Init == map = [t \in {} |-> Absent] /\ order = {} /\ call = <<>>

Put(t, v) ==
    /\ call' = <<"put", t, v>>
    /\ map' = [u \in Keys \cup {t} |-> IF u = t THEN v ELSE map[u]]
    /\ order' = IF t \in Keys THEN order ELSE order \cup (Keys \X {t})

Remove(t) ==
    /\ call' = <<"remove", t, IF t \in Keys THEN Done ELSE Absent>>
    /\ map' = [u \in Keys \ {t} |-> map[u]]
    /\ order' = {p \in order : p[1] # t /\ p[2] # t}

RemoveAll ==
    /\ call' = <<"clear">>
    /\ map' = [t \in {} |-> Absent] /\ order' = {}

Lookup(t) ==
    /\ call' = <<"lookup", t, IF t \in Keys THEN map[t] ELSE Absent>>
    /\ UNCHANGED <<map, order>>

\* A step of a loop over the map.
Visit ==
    /\ \E t \in Keys : call' = <<"visit", t, map[t]>>
    /\ UNCHANGED <<map, order>>

Next ==
    \/ \E t \in Text : Remove(t) \/ Lookup(t) \/ \E v \in Value : Put(t, v)
    \/ RemoveAll
    \/ Visit

Spec == Init /\ [][Next]_vars
=============================================================================
