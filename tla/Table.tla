------------------------------- MODULE Table -------------------------------
(***************************************************************************)
(* The hash table of src/src/object.c:869-971: globals, interned strings,  *)
(* field indices.  Open addressing, linear probing, tombstones that count  *)
(* against the load, and a growth that moves the entries one by one.       *)
(***************************************************************************)
EXTENDS Integers, FiniteSets

CONSTANTS
    Key,            \* ObjString pointers
    TextOf, Hash,   \* the characters behind a pointer, and their hash
    Value,
    MinCapacity,    \* 8 in table_set
    MaxCapacity,    \* bound: the table does not grow beyond this
    Null, TOMBSTONE_KEY,
    Absent,         \* table_get returns false
    NoArg           \* no table_set is in progress

Text == {TextOf[k] : k \in Key}

ASSUME TableAssumption ==
    /\ \A k \in Key : Hash[TextOf[k]] \in Nat
    /\ MinCapacity \in Nat /\ MinCapacity > 1 /\ MaxCapacity \in Nat
    /\ Null \notin Key /\ TOMBSTONE_KEY \notin Key /\ Null # TOMBSTONE_KEY
    /\ Absent \notin Value

VARIABLES
    capacity, key, val,     \* table->capacity and the slots of table->entries
    count,                  \* table->count
    pc,                     \* where the call in progress is
    arg,                    \* its key and value
    newCapacity, newKey, newVal, next,  \* locals of table_adjust
    call                    \* the last call that returned, and its answer

tabVars == <<capacity, key, val>>
adjustVars == <<newCapacity, newKey, newVal, next>>
vars == <<tabVars, count, pc, arg, adjustVars, call>>

Slots(cap) == 0..(cap - 1)

\* The i-th slot a probe for text t visits.
Probe(t, cap, i) ==
    LET home == Hash[t] % cap
    IN  IF home + i < cap THEN home + i ELSE home + i - cap

\* The probe for k leaves its loop at step i: the first empty slot or k's own.
Leaves(ks, cap, k, i) ==
    /\ ks[Probe(TextOf[k], cap, i)] \in {Null, k}
    /\ \A j \in 0..(i - 1) : ks[Probe(TextOf[k], cap, j)] \notin {Null, k}

\* The loop of table_find ends.
ProbeEnds(ks, cap, k) ==
    \E i \in Slots(cap) : ks[Probe(TextOf[k], cap, i)] \in {Null, k}

\* Mutant of Dest: the first tombstone ends the probe.
DestAtTombstone(ks, cap, k, s) ==
    \E i \in Slots(cap) :
        /\ s = Probe(TextOf[k], cap, i)
        /\ ks[s] \in {Null, TOMBSTONE_KEY, k}
        /\ \A j \in 0..(i - 1) :
             ks[Probe(TextOf[k], cap, j)] \notin {Null, TOMBSTONE_KEY, k}

\* s is the slot table_find returns: k's own, else the first tombstone the
\* probe met, else the empty slot.
Dest(ks, cap, k, s) ==
    \E i \in Slots(cap) :
        /\ Leaves(ks, cap, k, i)
        /\ \/ ks[Probe(TextOf[k], cap, i)] = k /\ s = Probe(TextOf[k], cap, i)
           \/ /\ ks[Probe(TextOf[k], cap, i)] = Null
              /\ \E j \in 0..i :
                   /\ s = Probe(TextOf[k], cap, j)
                   /\ ks[s] = TOMBSTONE_KEY \/ j = i
                   /\ \A h \in 0..(j - 1) : ks[Probe(TextOf[k], cap, h)] # TOMBSTONE_KEY

\* s is the slot that ends table_find_string: text t, or empty.
TextAt(ks, cap, t, s) ==
    \E i \in Slots(cap) :
        /\ s = Probe(t, cap, i)
        /\ ks[s] = Null \/ (ks[s] \in Key /\ TextOf[ks[s]] = t)
        /\ \A j \in 0..(i - 1) :
             LET m == ks[Probe(t, cap, j)]
             IN  m # Null /\ ~(m \in Key /\ TextOf[m] = t)

\* Mutant of NeedsGrowth: the load factor is one.
FullOnly == count + 1 > capacity

\* The capacity check of table_set.
NeedsGrowth == count + 1 > (capacity * 3) \div 4

\* A store takes an empty slot, which then counts.
FreshSlot(m) == m = Null
-----------------------------------------------------------------------------
Init ==
    /\ capacity = 0 /\ key = [s \in {} |-> Null] /\ val = [s \in {} |-> Absent]
    /\ count = 0 /\ pc = "idle" /\ arg = NoArg
    /\ newCapacity = 0 /\ newKey = key /\ newVal = val /\ next = 0
    /\ call = <<>>

\* table_set up to its first probe: the start of table_adjust, or nothing.
Set(k, v) ==
    /\ pc = "idle"
    /\ arg' = [key |-> k, value |-> v]
    /\ IF NeedsGrowth
       THEN LET cap == IF capacity < MinCapacity THEN MinCapacity ELSE capacity * 2
            IN  /\ cap <= MaxCapacity
                /\ newCapacity' = cap
                /\ newKey' = [s \in Slots(cap) |-> Null]
                /\ newVal' = [s \in Slots(cap) |-> Absent]
                /\ next' = 0 /\ count' = 0 /\ pc' = "adjust"
       ELSE pc' = "store" /\ UNCHANGED <<count, adjustVars>>
    /\ UNCHANGED <<tabVars, call>>

\* The loop of table_adjust skips what is not an entry ...
Skip ==
    /\ pc = "adjust" /\ next < capacity /\ key[next] \notin Key
    /\ next' = next + 1
    /\ UNCHANGED <<tabVars, count, pc, arg, newCapacity, newKey, newVal, call>>

\* ... and moves what is.
Move ==
    /\ pc = "adjust" /\ next < capacity /\ key[next] \in Key
    /\ \E s \in Slots(newCapacity) :
         /\ Dest(newKey, newCapacity, key[next], s)
         /\ newKey' = [newKey EXCEPT ![s] = key[next]]
         /\ newVal' = [newVal EXCEPT ![s] = val[next]]
    /\ next' = next + 1
    /\ count' = count + 1
    /\ UNCHANGED <<tabVars, pc, arg, newCapacity, call>>

\* Mutant of Adopt: the capacity is left as it was.
AdoptEntries ==
    /\ pc = "adjust" /\ next = capacity
    /\ key' = newKey /\ val' = newVal
    /\ pc' = "store"
    /\ UNCHANGED <<capacity, count, arg, adjustVars, call>>

\* The new slots replace the old ones.
Adopt ==
    /\ pc = "adjust" /\ next = capacity
    /\ capacity' = newCapacity /\ key' = newKey /\ val' = newVal
    /\ pc' = "store"
    /\ UNCHANGED <<count, arg, adjustVars, call>>

\* The rest of table_set.
Store ==
    /\ pc = "store"
    /\ \E s \in Slots(capacity) :
         /\ Dest(key, capacity, arg.key, s)
         /\ key' = [key EXCEPT ![s] = arg.key]
         /\ val' = [val EXCEPT ![s] = arg.value]
         /\ count' = IF FreshSlot(key[s]) THEN count + 1 ELSE count
         /\ call' = <<"set", arg.key, key[s] \notin Key>>
    /\ pc' = "idle" /\ arg' = NoArg
    /\ UNCHANGED <<capacity, adjustVars>>

\* table_get
Get(k) ==
    /\ pc = "idle"
    /\ \/ count = 0 /\ call' = <<"get", k, Absent>>
       \/ count # 0 /\ \E s \in Slots(capacity) :
            /\ Dest(key, capacity, k, s)
            /\ call' = <<"get", k, IF key[s] \in Key THEN val[s] ELSE Absent>>
    /\ UNCHANGED <<tabVars, count, pc, arg, adjustVars>>

\* What a deletion leaves in the slot
Erased == TOMBSTONE_KEY

\* table_delete, also as the collector calls it for dead strings.
Delete(k) ==
    /\ pc = "idle"
    /\ \/ count = 0 /\ call' = <<"delete", k, FALSE>> /\ UNCHANGED key
       \/ count # 0 /\ \E s \in Slots(capacity) :
            /\ Dest(key, capacity, k, s)
            /\ call' = <<"delete", k, key[s] \in Key>>
            /\ key' = IF key[s] \in Key THEN [key EXCEPT ![s] = Erased] ELSE key
    /\ UNCHANGED <<capacity, val, count, pc, arg, adjustVars>>

\* table_find_string
FindString(t) ==
    /\ pc = "idle"
    /\ \/ count = 0 /\ call' = <<"find", t, Null>>
       \/ count # 0 /\ \E s \in Slots(capacity) :
            TextAt(key, capacity, t, s) /\ call' = <<"find", t, key[s]>>
    /\ UNCHANGED <<tabVars, count, pc, arg, adjustVars>>

Next ==
    \/ \E k \in Key : \/ Get(k) \/ Delete(k) \/ FindString(TextOf[k])
                      \/ \E v \in Value : Set(k, v)
    \/ Skip \/ Move \/ Adopt \/ Store

Spec == Init /\ [][Next]_vars
-----------------------------------------------------------------------------
Used(ks, cap) == {s \in Slots(cap) : ks[s] # Null}

\* Every variable has its type.
TypeOK ==
    /\ capacity \in Nat /\ newCapacity \in Nat /\ count \in Nat /\ next \in Nat
    /\ key \in [Slots(capacity) -> Key \cup {Null, TOMBSTONE_KEY}]
    /\ val \in [Slots(capacity) -> Value \cup {Absent}]
    /\ newKey \in [Slots(newCapacity) -> Key \cup {Null}]
    /\ newVal \in [Slots(newCapacity) -> Value \cup {Absent}]
    /\ pc \in {"idle", "adjust", "store"}
    /\ arg \in {NoArg} \cup [key : Key, value : Value]

\* No probe loops for ever: wherever a call is about to probe, in the table or
\* in the slots it is growing into, an empty slot stops it.
ProbesEnd ==
    \A k \in Key :
        /\ pc = "idle" /\ count # 0 => ProbeEnds(key, capacity, k)
        /\ pc = "store" => ProbeEnds(key, capacity, k)
        /\ pc = "adjust" /\ next < capacity => ProbeEnds(newKey, newCapacity, k)

\* count is the number of slots that are not empty, tombstones included, also
\* while table_adjust is building it up again.
CountExact ==
    IF pc = "adjust" THEN count = Cardinality(Used(newKey, newCapacity))
                     ELSE count = Cardinality(Used(key, capacity))

\* The value slots hold under k.
ValueIn(ks, vs, cap, k) ==
    IF \E s \in Slots(cap) : ks[s] = k
    THEN vs[CHOOSE s \in Slots(cap) : ks[s] = k] ELSE Absent

Map == INSTANCE PartialMap WITH map <- [k \in Key |-> ValueIn(key, val, capacity, k)]

\* Growth, tombstones and probing never show: the table is a map.
MapRefined == Map!Spec
=============================================================================
