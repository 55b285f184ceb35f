---------------------------- MODULE TableProofs ----------------------------
(***************************************************************************)
(* For every set of keys and every hash function: no probe of the hash     *)
(* table loops for ever, and the table implements a map.                   *)
(***************************************************************************)
EXTENDS Table, FiniteSetTheorems, TLAPS

USE TableAssumption

-----------------------------------------------------------------------------
(***************************************************************************)
(* Probe sequences visit every slot once.                                  *)
(***************************************************************************)
LEMMA HomeInRange ==
    ASSUME NEW k \in Key, NEW cap \in Nat \ {0}
    PROVE  Hash[TextOf[k]] % cap \in Slots(cap)
  BY DEF Slots

LEMMA ProbeInRange ==
    ASSUME NEW k \in Key, NEW cap \in Nat \ {0}, NEW i \in Slots(cap)
    PROVE  Probe(TextOf[k], cap, i) \in Slots(cap)
  <1> DEFINE home == Hash[TextOf[k]] % cap
  <1>1. home \in Slots(cap)
    BY HomeInRange
  <1> HIDE DEF home
  <1>2. (IF home + i < cap THEN home + i ELSE home + i - cap) \in Slots(cap)
    BY <1>1 DEF Slots
  <1>3. QED
    BY <1>2 DEF Probe, home

LEMMA ProbeInjective ==
    ASSUME NEW k \in Key, NEW cap \in Nat \ {0}, NEW i \in Slots(cap), NEW j \in Slots(cap),
           Probe(TextOf[k], cap, i) = Probe(TextOf[k], cap, j)
    PROVE  i = j
  <1> DEFINE home == Hash[TextOf[k]] % cap
  <1>1. home \in Slots(cap)
    BY HomeInRange
  <1>2. (IF home + i < cap THEN home + i ELSE home + i - cap) =
        (IF home + j < cap THEN home + j ELSE home + j - cap)
    BY DEF Probe
  <1> HIDE DEF home
  <1>3. QED
    BY <1>1, <1>2 DEF Slots

LEMMA ProbeReaches ==
    ASSUME NEW k \in Key, NEW cap \in Nat \ {0}, NEW s \in Slots(cap)
    PROVE  \E i \in Slots(cap) : Probe(TextOf[k], cap, i) = s
  <1> DEFINE home == Hash[TextOf[k]] % cap
             i == IF home <= s THEN s - home ELSE s + cap - home
  <1>1. home \in Slots(cap)
    BY HomeInRange
  <1> HIDE DEF home
  <1>2. i \in Slots(cap) /\ (IF home + i < cap THEN home + i ELSE home + i - cap) = s
    BY <1>1 DEF Slots
  <1> HIDE DEF i
  <1>3. QED
    BY <1>2 DEF Probe, home
-----------------------------------------------------------------------------
(***************************************************************************)
(* Slots that are well formed: a key is stored once, and no empty slot     *)
(* comes before it on its probe sequence.                                  *)
(***************************************************************************)
Content == Key \cup {Null, TOMBSTONE_KEY}

StoredOnce(ks, cap) ==
    \A s, r \in Slots(cap) : ks[s] \in Key /\ ks[s] = ks[r] => s = r

Chained(ks, cap) ==
    \A k \in Key : \A i \in Slots(cap) :
        ks[Probe(TextOf[k], cap, i)] = k =>
            \A j \in 0..(i - 1) : ks[Probe(TextOf[k], cap, j)] # Null

WellFormed(ks, cap) ==
    /\ ks \in [Slots(cap) -> Content]
    /\ StoredOnce(ks, cap)
    /\ Chained(ks, cap)

\* The slots used are finitely many, so fewer than all leave an empty one.
LEMMA UsedFinite ==
    ASSUME NEW cap \in Nat, NEW ks
    PROVE  /\ IsFiniteSet(Used(ks, cap))
           /\ Cardinality(Used(ks, cap)) \in Nat
           /\ Cardinality(Used(ks, cap)) <= cap
           /\ Cardinality(Used(ks, cap)) < cap => \E s \in Slots(cap) : ks[s] = Null
  <1>1. IsFiniteSet(Slots(cap)) /\ Cardinality(Slots(cap)) = cap
    BY FS_Interval DEF Slots
  <1>2. Used(ks, cap) \subseteq Slots(cap)
    BY DEF Used
  <1>3. /\ IsFiniteSet(Used(ks, cap))
        /\ Cardinality(Used(ks, cap)) <= Cardinality(Slots(cap))
        /\ Cardinality(Used(ks, cap)) = Cardinality(Slots(cap)) => Used(ks, cap) = Slots(cap)
    BY <1>1, <1>2, FS_Subset
  <1>4. Cardinality(Used(ks, cap)) \in Nat
    BY <1>3, FS_CardinalityType
  <1>5. ASSUME Cardinality(Used(ks, cap)) < cap
        PROVE  \E s \in Slots(cap) : ks[s] = Null
    <2>1. Used(ks, cap) # Slots(cap)
      BY <1>1, <1>4, <1>5
    <2>2. QED
      BY <2>1 DEF Used
  <1>6. QED
    BY <1>1, <1>3, <1>4, <1>5

LEMMA RoomEndsProbe ==
    ASSUME NEW cap \in Nat, NEW ks, NEW k \in Key, Cardinality(Used(ks, cap)) < cap
    PROVE  ProbeEnds(ks, cap, k)
  <1>1. PICK s \in Slots(cap) : ks[s] = Null
    BY UsedFinite
  <1>2. cap \in Nat \ {0}
    BY <1>1 DEF Slots
  <1>3. PICK i \in Slots(cap) : Probe(TextOf[k], cap, i) = s
    BY <1>1, <1>2, ProbeReaches
  <1>4. QED
    BY <1>1, <1>3 DEF ProbeEnds
-----------------------------------------------------------------------------
(***************************************************************************)
(* What table_find returns and what its callers write there.               *)
(***************************************************************************)
\* The slot is k's own, or the table does not hold k.
LEMMA DestFinds ==
    ASSUME NEW cap \in Nat, NEW ks, WellFormed(ks, cap),
           NEW k \in Key, NEW s, Dest(ks, cap, k, s)
    PROVE  /\ s \in Slots(cap)
           /\ \/ ks[s] = k
              \/ ks[s] \notin Key /\ \A r \in Slots(cap) : ks[r] # k
  <1>1. PICK i \in Slots(cap) :
          /\ Leaves(ks, cap, k, i)
          /\ \/ ks[Probe(TextOf[k], cap, i)] = k /\ s = Probe(TextOf[k], cap, i)
             \/ /\ ks[Probe(TextOf[k], cap, i)] = Null
                /\ \E j \in 0..i :
                     /\ s = Probe(TextOf[k], cap, j)
                     /\ ks[s] = TOMBSTONE_KEY \/ j = i
                     /\ \A h \in 0..(j - 1) : ks[Probe(TextOf[k], cap, h)] # TOMBSTONE_KEY
    BY DEF Dest
  <1>2. cap \in Nat \ {0}
    BY <1>1 DEF Slots
  <1>3. CASE ks[Probe(TextOf[k], cap, i)] = k /\ s = Probe(TextOf[k], cap, i)
    BY <1>2, <1>3, ProbeInRange
  <1>4. CASE ks[Probe(TextOf[k], cap, i)] = Null
    <2>1. ks[Probe(TextOf[k], cap, i)] = Null
      BY <1>4
    <2>2. Null # k
      OBVIOUS
    <2>3. PICK j \in 0..i : /\ s = Probe(TextOf[k], cap, j)
                            /\ ks[s] = TOMBSTONE_KEY \/ j = i
      BY <1>1, <2>1, <2>2
    <2>4. j \in Slots(cap)
      BY <1>2 DEF Slots
    <2>5. s \in Slots(cap) /\ ks[s] \notin Key
      BY <1>2, <2>1, <2>3, <2>4, ProbeInRange
    <2>6. ASSUME NEW r \in Slots(cap), ks[r] = k
          PROVE  FALSE
      <3>1. PICK h \in Slots(cap) : Probe(TextOf[k], cap, h) = r
        BY <1>2, ProbeReaches
      <3>2. \A g \in 0..(h - 1) : ks[Probe(TextOf[k], cap, g)] # Null
        BY <2>6, <3>1 DEF WellFormed, Chained
      <3>3. ~(i \in 0..(h - 1))
        BY <2>1, <3>2
      <3>4. ~(h \in 0..(i - 1))
        BY <1>1, <2>6, <3>1 DEF Leaves
      <3>5. h = i
        BY <3>3, <3>4 DEF Slots
      <3>6. QED
        BY <2>1, <2>2, <2>6, <3>1, <3>5
    <2>7. QED
      BY <2>5, <2>6
  <1>5. QED
    BY <1>1, <1>3, <1>4

\* Writing k there keeps the slots well formed.
LEMMA DestKeepsForm ==
    ASSUME NEW cap \in Nat, NEW ks, WellFormed(ks, cap),
           NEW k \in Key, NEW s, Dest(ks, cap, k, s)
    PROVE  /\ s \in Slots(cap)
           /\ WellFormed([ks EXCEPT ![s] = k], cap)
  <1> DEFINE new == [ks EXCEPT ![s] = k]
  <1>1. s \in Slots(cap) /\ (ks[s] = k \/ (ks[s] \notin Key /\ \A r \in Slots(cap) : ks[r] # k))
    BY DestFinds
  <1>2. cap \in Nat \ {0}
    BY <1>1 DEF Slots
  <1>3. ks \in [Slots(cap) -> Content]
    BY DEF WellFormed
  <1>4. new \in [Slots(cap) -> Content] /\ \A r \in Slots(cap) : new[r] = IF r = s THEN k ELSE ks[r]
    BY <1>1, <1>3 DEF Content
  <1>5. StoredOnce(new, cap)
    BY <1>1, <1>4 DEF StoredOnce, WellFormed
  <1>6. ASSUME NEW m \in Key, NEW i \in Slots(cap), new[Probe(TextOf[m], cap, i)] = m,
               NEW j \in 0..(i - 1)
        PROVE  new[Probe(TextOf[m], cap, j)] # Null
    <2>1. j \in Slots(cap) /\ Probe(TextOf[m], cap, i) \in Slots(cap)
                          /\ Probe(TextOf[m], cap, j) \in Slots(cap)
      <3>1. j \in Slots(cap)
        BY <1>2 DEF Slots
      <3>2. QED
        BY <1>2, <3>1, ProbeInRange
    <2>2. CASE ks[Probe(TextOf[m], cap, i)] = m
      <3>1. ks[Probe(TextOf[m], cap, j)] # Null
        BY <2>2 DEF WellFormed, Chained
      <3>2. QED
        BY <1>4, <2>1, <3>1
    <2>3. CASE ks[Probe(TextOf[m], cap, i)] # m
      <3>1. Probe(TextOf[m], cap, i) = s /\ m = k /\ ks[s] # k
        BY <1>4, <1>6, <2>1, <2>3
      <3>2. PICK e \in Slots(cap) :
              Leaves(ks, cap, k, e) /\ \E d \in 0..e : s = Probe(TextOf[k], cap, d)
        BY <3>1 DEF Dest
      <3> PICK d \in 0..e : s = Probe(TextOf[k], cap, d)
        BY <3>2
      <3>3. d \in Slots(cap)
        BY <1>2 DEF Slots
      <3>4. d = i
        BY <1>2, <3>1, <3>2, <3>3, ProbeInjective
      <3>5. j \in 0..(e - 1)
        BY <3>4 DEF Slots
      <3>6. ks[Probe(TextOf[k], cap, j)] # Null
        BY <3>2, <3>5 DEF Leaves
      <3>7. QED
        BY <1>4, <2>1, <3>1, <3>6
    <2>4. QED
      BY <2>2, <2>3
  <1>7. QED
    BY <1>1, <1>4, <1>5, <1>6 DEF WellFormed, Chained

\* So does a deletion.
LEMMA EraseKeepsForm ==
    ASSUME NEW cap \in Nat, NEW ks, WellFormed(ks, cap), NEW s \in Slots(cap)
    PROVE  WellFormed([ks EXCEPT ![s] = TOMBSTONE_KEY], cap)
  <1> DEFINE new == [ks EXCEPT ![s] = TOMBSTONE_KEY]
  <1>1. cap \in Nat \ {0}
    BY DEF Slots
  <1>2. /\ new \in [Slots(cap) -> Content]
        /\ \A r \in Slots(cap) : new[r] = IF r = s THEN TOMBSTONE_KEY ELSE ks[r]
    BY DEF WellFormed, Content
  <1>3. StoredOnce(new, cap)
    BY <1>2 DEF StoredOnce, WellFormed
  <1>4. ASSUME NEW m \in Key, NEW i \in Slots(cap), new[Probe(TextOf[m], cap, i)] = m,
               NEW j \in 0..(i - 1)
        PROVE  new[Probe(TextOf[m], cap, j)] # Null
    <2>1. j \in Slots(cap)
      BY <1>1 DEF Slots
    <2>2. Probe(TextOf[m], cap, i) \in Slots(cap) /\ Probe(TextOf[m], cap, j) \in Slots(cap)
      BY <1>1, <2>1, ProbeInRange
    <2>3. ks[Probe(TextOf[m], cap, i)] = m
      BY <1>2, <1>4, <2>2
    <2>4. ks[Probe(TextOf[m], cap, j)] # Null
      BY <2>3 DEF WellFormed, Chained
    <2>5. QED
      BY <1>2, <2>2, <2>4
  <1>5. QED
    BY <1>2, <1>3, <1>4 DEF WellFormed, Chained

\* A write makes a slot used; a deletion leaves the same slots used.
LEMMA WriteUses ==
    ASSUME NEW cap \in Nat, NEW ks \in [Slots(cap) -> Content], NEW s \in Slots(cap),
           NEW m \in Content \ {Null}
    PROVE  Cardinality(Used([ks EXCEPT ![s] = m], cap)) =
             IF ks[s] = Null THEN Cardinality(Used(ks, cap)) + 1 ELSE Cardinality(Used(ks, cap))
  <1>1. Used([ks EXCEPT ![s] = m], cap) = Used(ks, cap) \cup {s}
    BY DEF Used
  <1>2. s \in Used(ks, cap) <=> ks[s] # Null
    BY DEF Used
  <1>3. IsFiniteSet(Used(ks, cap))
    BY UsedFinite
  <1>4. Cardinality(Used(ks, cap) \cup {s}) =
          IF s \in Used(ks, cap) THEN Cardinality(Used(ks, cap)) ELSE Cardinality(Used(ks, cap)) + 1
    BY <1>3, FS_AddElement
  <1>5. QED
    BY <1>1, <1>2, <1>4
-----------------------------------------------------------------------------
(***************************************************************************)
(* The inductive invariant.  ProbesEnd needs an empty slot, so a bound on  *)
(* the count of used slots; while the table grows that bound follows from  *)
(* the old slots, of which the new ones hold the part already moved.       *)
(***************************************************************************)
HoldsValues(ks, vs, cap) == \A s \in Slots(cap) : ks[s] \in Key => vs[s] \in Value

Limit(cap) == (cap * 3) \div 4

MovedSlots == {s \in Used(key, capacity) : s < next}

Calling == pc # "idle" => arg \in [key : Key, value : Value]

LoadBounded ==
    /\ capacity = 0 \/ capacity >= MinCapacity
    /\ pc = "idle" => count <= Limit(capacity)
    /\ pc = "store" => count + 1 <= Limit(capacity)
    /\ pc = "adjust" =>
         /\ newCapacity >= MinCapacity
         /\ Cardinality(Used(key, capacity)) + 1 <= Limit(newCapacity)
         /\ count <= Cardinality(MovedSlots)

\* The new slots hold what the loop has passed, and nothing else.
Moved ==
    /\ next <= capacity
    /\ WellFormed(newKey, newCapacity)
    /\ HoldsValues(newKey, newVal, newCapacity)
    /\ \A s \in Slots(newCapacity) : newKey[s] \in Key =>
         \E r \in Slots(capacity) : r < next /\ key[r] = newKey[s] /\ val[r] = newVal[s]
    /\ \A r \in Slots(capacity) : r < next /\ key[r] \in Key =>
         \E s \in Slots(newCapacity) : newKey[s] = key[r] /\ newVal[s] = val[r]

IInv ==
    /\ TypeOK
    /\ CountExact
    /\ WellFormed(key, capacity)
    /\ HoldsValues(key, val, capacity)
    /\ Calling
    /\ LoadBounded
    /\ pc = "adjust" => Moved
-----------------------------------------------------------------------------
LEMMA InitInvariant == Init => IInv
  <1> SUFFICES ASSUME Init PROVE IInv
    OBVIOUS
  <1>1. Slots(0) = {} /\ Slots(capacity) = {} /\ Slots(newCapacity) = {}
    BY DEF Init, Slots
  <1>2. TypeOK
    BY <1>1 DEF Init, TypeOK
  <1>3. Used(key, capacity) = {}
    BY <1>1 DEF Used
  <1>4. CountExact
    BY <1>3, FS_EmptySet DEF Init, CountExact
  <1>5. WellFormed(key, capacity) /\ HoldsValues(key, val, capacity)
    BY <1>1, <1>2 DEF WellFormed, StoredOnce, Chained, HoldsValues, TypeOK, Content
  <1>6. LoadBounded
    BY DEF Init, LoadBounded, Limit
  <1>7. QED
    BY <1>2, <1>4, <1>5, <1>6 DEF Init, IInv, Calling

\* table_set starts.
LEMMA SetPreserves ==
    ASSUME IInv, NEW k \in Key, NEW v \in Value, Set(k, v)
    PROVE  IInv'
  <1> USE DEF IInv
  <1>1. pc = "idle" /\ arg' \in [key : Key, value : Value] /\ UNCHANGED tabVars
    BY DEF Set
  <1>2. CASE ~NeedsGrowth
    <2>1. pc' = "store" /\ UNCHANGED <<count, adjustVars>>
      BY <1>2 DEF Set
    <2>2. TypeOK'
      BY <1>1, <2>1 DEF TypeOK, tabVars, adjustVars
    <2>3. LoadBounded'
      BY <1>1, <1>2, <2>1 DEF LoadBounded, NeedsGrowth, Limit, TypeOK, tabVars
    <2>4. QED
      BY <1>1, <2>1, <2>2, <2>3 DEF CountExact, Calling, tabVars
  <1>3. CASE NeedsGrowth
    <2> DEFINE cap == IF capacity < MinCapacity THEN MinCapacity ELSE capacity * 2
    <2>1. /\ newCapacity' = cap
          /\ newKey' = [s \in Slots(cap) |-> Null]
          /\ newVal' = [s \in Slots(cap) |-> Absent]
          /\ next' = 0 /\ count' = 0 /\ pc' = "adjust"
      BY <1>3 DEF Set
    <2>2. cap \in Nat /\ cap >= MinCapacity
      BY DEF TypeOK
    <2>3. count + 1 <= Limit(cap)
      BY <1>1 DEF LoadBounded, Limit, TypeOK
    <2> HIDE DEF cap
    <2>4. TypeOK'
      BY <1>1, <2>1, <2>2 DEF TypeOK, tabVars
    <2>5. Used(newKey, newCapacity)' = {} /\ MovedSlots' = {}
      BY <1>1, <2>1 DEF Used, MovedSlots, Slots, TypeOK, tabVars
    <2>6. CountExact'
      BY <2>1, <2>5, FS_EmptySet DEF CountExact
    <2>7. LoadBounded'
      <3>1. Cardinality(Used(key, capacity))' = count
        BY <1>1 DEF CountExact, tabVars
      <3>2. Cardinality(MovedSlots') = 0
        BY <2>5, FS_EmptySet
      <3>3. QED
        BY <1>1, <2>1, <2>2, <2>3, <3>1, <3>2 DEF LoadBounded, tabVars
    <2>8. Moved'
      <3>1. \A s \in Slots(newCapacity') : newKey'[s] = Null
        BY <2>1
      <3>2. WellFormed(newKey, newCapacity)'
        <4>1. Chained(newKey, newCapacity)'
          <5>1. SUFFICES ASSUME NEW m \in Key, NEW i \in Slots(newCapacity'),
                                newKey'[Probe(TextOf[m], newCapacity', i)] = m
                         PROVE  FALSE
            BY DEF Chained
          <5>2. newCapacity' \in Nat \ {0}
            BY <2>1, <2>2
          <5>3. Probe(TextOf[m], newCapacity', i) \in Slots(newCapacity')
            BY <5>2, ProbeInRange
          <5>4. QED
            BY <3>1, <5>1, <5>3
        <4>2. QED
          BY <2>1, <3>1, <4>1 DEF WellFormed, StoredOnce, Content
      <3>3. QED
        BY <1>1, <2>1, <3>1, <3>2 DEF Moved, HoldsValues, TypeOK, tabVars, Slots
    <2>9. QED
      BY <1>1, <2>1, <2>4, <2>6, <2>7, <2>8 DEF Calling, tabVars
  <1>4. QED
    BY <1>2, <1>3

\* table_adjust passes a slot without an entry.
LEMMA SkipPreserves ==
    ASSUME IInv, Skip
    PROVE  IInv'
  <1> USE DEF IInv
  <1>1. /\ pc = "adjust" /\ next < capacity /\ key[next] \notin Key
        /\ next' = next + 1
        /\ UNCHANGED <<tabVars, count, pc, arg, newCapacity, newKey, newVal, call>>
    BY DEF Skip
  <1>2. TypeOK'
    BY <1>1 DEF TypeOK, tabVars
  <1>3. Cardinality(MovedSlots) <= Cardinality(MovedSlots')
    <2>1. MovedSlots \subseteq MovedSlots' /\ MovedSlots' \subseteq Used(key, capacity)
      BY <1>1 DEF MovedSlots, TypeOK, tabVars, Used, Slots
    <2>2. IsFiniteSet(MovedSlots')
      BY <2>1, UsedFinite, FS_Subset DEF TypeOK
    <2>3. QED
      BY <2>1, <2>2, FS_Subset
  <1>4. LoadBounded'
    <2>1. IsFiniteSet(MovedSlots) /\ IsFiniteSet(MovedSlots')
      <3>1. MovedSlots \subseteq Used(key, capacity) /\ MovedSlots' \subseteq Used(key, capacity)
        BY <1>1 DEF MovedSlots, tabVars
      <3>2. QED
        BY <3>1, UsedFinite, FS_Subset DEF TypeOK
    <2>2. Cardinality(MovedSlots) \in Nat /\ Cardinality(MovedSlots') \in Nat
      BY <2>1, FS_CardinalityType
    <2>3. QED
      BY <1>1, <1>3, <2>2 DEF LoadBounded, tabVars, TypeOK
  <1>5. Moved'
    <2>1. \A r \in Slots(capacity) : r < next' /\ key[r] \in Key => r < next
      BY <1>1 DEF TypeOK, Slots
    <2>2. \A r \in Slots(capacity) : r < next => r < next'
      BY <1>1 DEF TypeOK, Slots
    <2>3. next' <= capacity
      BY <1>1 DEF TypeOK
    <2>4. QED
      BY <1>1, <2>1, <2>2, <2>3 DEF Moved, tabVars
  <1>6. QED
    BY <1>1, <1>2, <1>4, <1>5 DEF CountExact, Calling, tabVars

\* The slots read are slots of the table.
LEMMA NextSlot ==
    ASSUME IInv, pc = "adjust", next < capacity
    PROVE  next \in Slots(capacity)
  BY DEF IInv, TypeOK, Slots

\* table_adjust moves an entry.
LEMMA MovePreserves ==
    ASSUME IInv, Move
    PROVE  IInv'
  <1> USE DEF IInv
  <1>1. PICK s \in Slots(newCapacity) :
          /\ Dest(newKey, newCapacity, key[next], s)
          /\ newKey' = [newKey EXCEPT ![s] = key[next]]
          /\ newVal' = [newVal EXCEPT ![s] = val[next]]
    BY DEF Move
  <1>2. /\ pc = "adjust" /\ next < capacity /\ key[next] \in Key
        /\ next' = next + 1 /\ count' = count + 1
        /\ UNCHANGED <<tabVars, pc, arg, newCapacity, call>>
    BY DEF Move
  <1>3. next \in Slots(capacity) /\ Moved /\ newCapacity \in Nat /\ val[next] \in Value
    BY <1>2, NextSlot DEF TypeOK, HoldsValues
  <1>4. \A r \in Slots(newCapacity) : newKey[r] # key[next]
    <2>1. SUFFICES ASSUME NEW r \in Slots(newCapacity), newKey[r] = key[next] PROVE FALSE
      OBVIOUS
    <2>2. PICK q \in Slots(capacity) : q < next /\ key[q] = key[next]
      BY <1>2, <1>3, <2>1 DEF Moved
    <2>3. q = next
      BY <1>2, <1>3, <2>2 DEF WellFormed, StoredOnce
    <2>4. QED
      BY <2>2, <2>3, <1>3 DEF Slots
  <1>5. WellFormed(newKey', newCapacity)
    BY <1>1, <1>2, <1>3, DestKeepsForm DEF Moved
  <1>6. newKey[s] = Null
    BY <1>1, <1>2, <1>3, <1>4, DestFinds DEF Moved, TypeOK
  <1>7. TypeOK'
    BY <1>1, <1>2, <1>3 DEF TypeOK, tabVars
  <1>8. CountExact'
    <2>1. newKey \in [Slots(newCapacity) -> Content] /\ key[next] \in Content \ {Null}
      BY <1>2 DEF TypeOK, Content
    <2>2. Cardinality(Used(newKey', newCapacity)) = Cardinality(Used(newKey, newCapacity)) + 1
      BY <1>1, <1>3, <1>6, <2>1, WriteUses
    <2>3. QED
      BY <1>2, <2>2 DEF CountExact
  <1>9. LoadBounded'
    <2>1. MovedSlots \subseteq Used(key, capacity) /\ IsFiniteSet(MovedSlots)
      <3>1. MovedSlots \subseteq Used(key, capacity)
        BY DEF MovedSlots
      <3>2. QED
        BY <3>1, UsedFinite, FS_Subset DEF TypeOK
    <2>2. MovedSlots' = MovedSlots \cup {next}
      <3>1. next \in Used(key, capacity)
        BY <1>2, <1>3 DEF Used
      <3>2. \A r \in Slots(capacity) : r < next' <=> r < next \/ r = next
        BY <1>2, <1>3 DEF Slots, TypeOK
      <3>3. QED
        BY <1>2, <3>1, <3>2 DEF MovedSlots, Used, tabVars
    <2>3. next \notin MovedSlots
      BY <1>3 DEF MovedSlots, Slots
    <2>4. Cardinality(MovedSlots') = Cardinality(MovedSlots) + 1
      BY <2>1, <2>2, <2>3, FS_AddElement
    <2>5. Cardinality(MovedSlots) \in Nat
      BY <2>1, FS_CardinalityType
    <2>6. QED
      BY <1>2, <2>4, <2>5 DEF LoadBounded, tabVars, TypeOK
  <1>10. Moved'
    <2>1. /\ \A r \in Slots(newCapacity) :
               /\ newKey'[r] = IF r = s THEN key[next] ELSE newKey[r]
               /\ newVal'[r] = IF r = s THEN val[next] ELSE newVal[r]
      BY <1>1 DEF TypeOK
    <2>2. /\ \A r \in Slots(capacity) : r < next' <=> r < next \/ r = next
          /\ next' <= capacity
      BY <1>2, <1>3 DEF Slots, TypeOK
    <2>3. HoldsValues(newKey', newVal', newCapacity)
      BY <1>3, <2>1 DEF HoldsValues, Moved
    <2>4. ASSUME NEW q \in Slots(newCapacity), newKey'[q] \in Key
          PROVE  \E r \in Slots(capacity) : r < next' /\ key[r] = newKey'[q] /\ val[r] = newVal'[q]
      <3>1. CASE q = s
        BY <1>3, <2>1, <2>2, <3>1
      <3>2. CASE q # s
        <4>1. PICK r \in Slots(capacity) : r < next /\ key[r] = newKey[q] /\ val[r] = newVal[q]
          BY <1>3, <2>1, <2>4, <3>2 DEF Moved
        <4>2. QED
          BY <2>1, <2>2, <3>2, <4>1
      <3>3. QED
        BY <3>1, <3>2
    <2>5. ASSUME NEW r \in Slots(capacity), r < next', key[r] \in Key
          PROVE  \E q \in Slots(newCapacity) : newKey'[q] = key[r] /\ newVal'[q] = val[r]
      <3>1. CASE r = next
        BY <2>1, <3>1
      <3>2. CASE r < next
        <4>1. PICK q \in Slots(newCapacity) : newKey[q] = key[r] /\ newVal[q] = val[r]
          BY <1>3, <2>5, <3>2 DEF Moved
        <4>2. q # s
          BY <1>6, <2>5, <4>1
        <4>3. QED
          BY <2>1, <4>1, <4>2
      <3>3. QED
        BY <2>2, <2>5, <3>1, <3>2
    <2>6. QED
      BY <1>2, <1>5, <2>2, <2>3, <2>4, <2>5 DEF Moved, tabVars
  <1>11. QED
    BY <1>2, <1>7, <1>8, <1>9, <1>10 DEF Calling, tabVars

\* The new slots become the table.
LEMMA AdoptPreserves ==
    ASSUME IInv, Adopt
    PROVE  IInv'
  <1> USE DEF IInv
  <1>1. /\ pc = "adjust" /\ next = capacity /\ Moved
        /\ capacity' = newCapacity /\ key' = newKey /\ val' = newVal /\ pc' = "store"
        /\ UNCHANGED <<count, arg, adjustVars, call>>
    BY DEF Adopt
  <1>2. TypeOK'
    BY <1>1 DEF TypeOK, adjustVars
  <1>3. count <= Cardinality(Used(key, capacity))
    <2>1. MovedSlots \subseteq Used(key, capacity)
      BY DEF MovedSlots
    <2>2. /\ IsFiniteSet(MovedSlots)
          /\ Cardinality(MovedSlots) <= Cardinality(Used(key, capacity))
      BY <2>1, UsedFinite, FS_Subset DEF TypeOK
    <2>3. Cardinality(MovedSlots) \in Nat /\ Cardinality(Used(key, capacity)) \in Nat
      BY <2>2, UsedFinite, FS_CardinalityType DEF TypeOK
    <2>4. QED
      BY <1>1, <2>2, <2>3 DEF LoadBounded, TypeOK
  <1>4. LoadBounded'
    <2>1. Cardinality(Used(key, capacity)) \in Nat
      BY UsedFinite DEF TypeOK
    <2>2. QED
      BY <1>1, <1>3, <2>1 DEF LoadBounded, Limit, TypeOK
  <1>5. CountExact'
    BY <1>1 DEF CountExact
  <1>6. QED
    BY <1>1, <1>2, <1>4, <1>5 DEF Moved, Calling

\* table_set ends.
LEMMA StorePreserves ==
    ASSUME IInv, Store
    PROVE  IInv'
  <1> USE DEF IInv
  <1>1. PICK s \in Slots(capacity) :
          /\ Dest(key, capacity, arg.key, s)
          /\ key' = [key EXCEPT ![s] = arg.key]
          /\ val' = [val EXCEPT ![s] = arg.value]
          /\ count' = IF key[s] = Null THEN count + 1 ELSE count
    BY DEF Store, FreshSlot
  <1>2. /\ pc = "store" /\ pc' = "idle" /\ arg' = NoArg
        /\ UNCHANGED <<capacity, adjustVars>>
    BY DEF Store
  <1>3. arg.key \in Key /\ arg.value \in Value /\ capacity \in Nat
    BY <1>2 DEF Calling, TypeOK
  <1>4. TypeOK'
    BY <1>1, <1>2, <1>3 DEF TypeOK, adjustVars
  <1>5. WellFormed(key, capacity)'
    BY <1>1, <1>2, <1>3, DestKeepsForm
  <1>6. CountExact'
    <2>1. key \in [Slots(capacity) -> Content] /\ arg.key \in Content \ {Null}
      BY <1>3 DEF TypeOK, Content
    <2>2. Cardinality(Used(key', capacity)) =
            IF key[s] = Null THEN Cardinality(Used(key, capacity)) + 1
                             ELSE Cardinality(Used(key, capacity))
      BY <1>1, <1>3, <2>1, WriteUses
    <2>3. QED
      BY <1>1, <1>2, <2>2 DEF CountExact
  <1>7. HoldsValues(key, val, capacity)'
    BY <1>1, <1>2, <1>3 DEF HoldsValues, TypeOK
  <1>8. LoadBounded'
    BY <1>1, <1>2 DEF LoadBounded, Limit, TypeOK
  <1>9. QED
    BY <1>2, <1>4, <1>5, <1>6, <1>7, <1>8 DEF Calling

\* A deletion, of a key or of nothing.
LEMMA DeletePreserves ==
    ASSUME IInv, NEW k \in Key, Delete(k)
    PROVE  IInv'
  <1> USE DEF IInv
  <1>1. pc = "idle" /\ UNCHANGED <<capacity, val, count, pc, arg, adjustVars>>
    BY DEF Delete
  <1>2. CASE UNCHANGED key
    BY <1>1, <1>2 DEF TypeOK, CountExact, Calling, LoadBounded, adjustVars
  <1>3. CASE ~UNCHANGED key
    <2>1. PICK s \in Slots(capacity) : /\ key[s] \in Key
                                       /\ key' = [key EXCEPT ![s] = TOMBSTONE_KEY]
      BY <1>3 DEF Delete, Erased
    <2>2. TypeOK'
      BY <1>1, <2>1 DEF TypeOK, adjustVars
    <2>3. WellFormed(key, capacity)'
      BY <1>1, <2>1, EraseKeepsForm DEF TypeOK
    <2>4. HoldsValues(key, val, capacity)'
      BY <1>1, <2>1 DEF HoldsValues, TypeOK
    <2>5. CountExact'
      <3>1. key \in [Slots(capacity) -> Content] /\ TOMBSTONE_KEY \in Content \ {Null}
        BY DEF TypeOK, Content
      <3>2. Cardinality(Used(key', capacity)) = Cardinality(Used(key, capacity))
        BY <2>1, <3>1, WriteUses DEF TypeOK
      <3>3. QED
        BY <1>1, <3>2 DEF CountExact
    <2>6. QED
      BY <1>1, <2>2, <2>3, <2>4, <2>5 DEF Calling, LoadBounded
  <1>4. QED
    BY <1>2, <1>3

LEMMA NextPreserves == IInv /\ [Next]_vars => IInv'
  <1> SUFFICES ASSUME IInv, [Next]_vars PROVE IInv'
    OBVIOUS
  <1>1. ASSUME UNCHANGED <<tabVars, count, pc, arg, adjustVars>> PROVE IInv'
    BY <1>1 DEF IInv, TypeOK, CountExact, Calling, LoadBounded, Moved, MovedSlots,
                tabVars, adjustVars
  <1>2. ASSUME NEW k \in Key, Get(k) \/ FindString(TextOf[k]) PROVE IInv'
    BY <1>1, <1>2 DEF Get, FindString
  <1>3. QED
    BY <1>1, <1>2, SetPreserves, SkipPreserves, MovePreserves, AdoptPreserves,
       StorePreserves, DeletePreserves DEF Next, vars

\* Where a call is about to probe, there is room.
LEMMA InvariantEndsProbes == IInv => ProbesEnd
  <1> SUFFICES ASSUME IInv, NEW k \in Key
               PROVE  /\ pc = "idle" /\ count # 0 => ProbeEnds(key, capacity, k)
                      /\ pc = "store" => ProbeEnds(key, capacity, k)
                      /\ pc = "adjust" /\ next < capacity => ProbeEnds(newKey, newCapacity, k)
    BY DEF ProbesEnd
  <1> USE DEF IInv
  <1>1. CASE pc # "adjust" /\ (pc = "idle" => count # 0)
    <2>1. Cardinality(Used(key, capacity)) < capacity
      BY <1>1 DEF CountExact, LoadBounded, Limit, TypeOK
    <2>2. QED
      BY <1>1, <2>1, RoomEndsProbe DEF TypeOK
  <1>2. CASE pc = "adjust"
    <2>1. MovedSlots \subseteq Used(key, capacity)
      BY DEF MovedSlots
    <2>2. /\ Cardinality(MovedSlots) <= Cardinality(Used(key, capacity))
          /\ IsFiniteSet(MovedSlots)
      BY <2>1, UsedFinite, FS_Subset DEF TypeOK
    <2>3. Cardinality(MovedSlots) \in Nat /\ Cardinality(Used(key, capacity)) \in Nat
      BY <2>2, UsedFinite, FS_CardinalityType DEF TypeOK
    <2>4. Cardinality(Used(newKey, newCapacity)) < newCapacity
      BY <1>2, <2>2, <2>3 DEF CountExact, LoadBounded, Limit, TypeOK
    <2>5. QED
      BY <1>2, <2>4, RoomEndsProbe DEF TypeOK
  <1>3. QED
    BY <1>1, <1>2

\* For every set of keys and every hash: no probe of table_find loops for ever
\* and table->count is exact.
THEOREM TableSafe == Spec => [](TypeOK /\ ProbesEnd /\ CountExact)
  <1>1. IInv => TypeOK /\ ProbesEnd /\ CountExact
    BY InvariantEndsProbes DEF IInv
  <1>2. QED
    BY InitInvariant, NextPreserves, <1>1, PTL DEF Spec
-----------------------------------------------------------------------------
(***************************************************************************)
(* Refinement: what the slots mean, and what each call does to it.         *)
(***************************************************************************)
LEMMA ValueOfSlot ==
    ASSUME NEW cap, NEW ks, NEW vs, StoredOnce(ks, cap),
           NEW s \in Slots(cap), ks[s] \in Key
    PROVE  ValueIn(ks, vs, cap, ks[s]) = vs[s]
  <1>1. \A r \in Slots(cap) : ks[r] = ks[s] => r = s
    BY DEF StoredOnce
  <1>2. (CHOOSE r \in Slots(cap) : ks[r] = ks[s]) = s
    BY <1>1
  <1>3. QED
    BY <1>2 DEF ValueIn

LEMMA ValueOfNone ==
    ASSUME NEW cap, NEW ks, NEW vs, NEW k, \A r \in Slots(cap) : ks[r] # k
    PROVE  ValueIn(ks, vs, cap, k) = Absent
  BY DEF ValueIn

\* Two tables with the same pairs have the same values.
LEMMA SamePairsSameValues ==
    ASSUME NEW cap1, NEW ks1, NEW vs1, NEW cap2, NEW ks2, NEW vs2, NEW k \in Key,
           StoredOnce(ks1, cap1), StoredOnce(ks2, cap2),
           \A s \in Slots(cap1) : ks1[s] = k =>
               \E r \in Slots(cap2) : ks2[r] = ks1[s] /\ vs2[r] = vs1[s],
           \A r \in Slots(cap2) : ks2[r] = k => \E s \in Slots(cap1) : ks1[s] = ks2[r]
    PROVE  ValueIn(ks1, vs1, cap1, k) = ValueIn(ks2, vs2, cap2, k)
  <1>1. CASE \E s \in Slots(cap1) : ks1[s] = k
    <2>1. PICK s \in Slots(cap1) : ks1[s] = k
      BY <1>1
    <2>2. PICK r \in Slots(cap2) : ks2[r] = k /\ vs2[r] = vs1[s]
      BY <2>1
    <2>3. QED
      BY <2>1, <2>2, ValueOfSlot
  <1>2. CASE \A s \in Slots(cap1) : ks1[s] # k
    <2>1. \A r \in Slots(cap2) : ks2[r] # k
      BY <1>2
    <2>2. QED
      BY <1>2, <2>1, ValueOfNone
  <1>3. QED
    BY <1>1, <1>2

Written(ks, vs, cap, s, k, v, ks2, vs2) ==
    \A r \in Slots(cap) : /\ ks2[r] = IF r = s THEN k ELSE ks[r]
                         /\ vs2[r] = IF r = s THEN v ELSE vs[r]

\* Writing the pair (k, v) where k belongs changes the value of k only.
LEMMA ValueAfterStore ==
    ASSUME NEW cap \in Nat, NEW ks, WellFormed(ks, cap), NEW vs,
           NEW k \in Key, NEW v, NEW s, Dest(ks, cap, k, s), NEW ks2, NEW vs2,
           Written(ks, vs, cap, s, k, v, ks2, vs2), NEW m \in Key
    PROVE  ValueIn(ks2, vs2, cap, m) = IF m = k THEN v ELSE ValueIn(ks, vs, cap, m)
  <1>1. s \in Slots(cap) /\ (ks[s] = k \/ (ks[s] \notin Key /\ \A r \in Slots(cap) : ks[r] # k))
    BY DestFinds
  <1>2. StoredOnce(ks, cap)
    BY DEF WellFormed
  <1>3. StoredOnce(ks2, cap)
    BY <1>1, <1>2 DEF StoredOnce, Written
  <1>4. CASE m = k
    <2>1. ks2[s] = m /\ vs2[s] = v
      BY <1>1, <1>4 DEF Written
    <2>2. ValueIn(ks2, vs2, cap, m) = v
      BY <1>1, <1>3, <2>1, ValueOfSlot
    <2>3. QED
      BY <1>4, <2>2
  <1>5. CASE m # k
    <2>1. \A r \in Slots(cap) : ks2[r] = m => ks[r] = m /\ vs[r] = vs2[r]
      BY <1>5 DEF Written
    <2>2. \A r \in Slots(cap) : ks[r] = m => ks2[r] = m
      BY <1>1, <1>5 DEF Written
    <2>3. ValueIn(ks2, vs2, cap, m) = ValueIn(ks, vs, cap, m)
      BY <1>2, <1>3, <2>1, <2>2, SamePairsSameValues
    <2>4. QED
      BY <1>5, <2>3
  <1>6. QED
    BY <1>4, <1>5

\* Erasing the slot of k removes k only.
LEMMA ValueAfterErase ==
    ASSUME NEW cap \in Nat, NEW ks, WellFormed(ks, cap), NEW vs,
           NEW s \in Slots(cap), ks[s] \in Key, NEW m \in Key
    PROVE  ValueIn([ks EXCEPT ![s] = TOMBSTONE_KEY], vs, cap, m) =
             IF m = ks[s] THEN Absent ELSE ValueIn(ks, vs, cap, m)
  <1> DEFINE ks2 == [ks EXCEPT ![s] = TOMBSTONE_KEY]
  <1>1. WellFormed(ks2, cap)
    BY EraseKeepsForm
  <1>2. \A r \in Slots(cap) : ks2[r] = IF r = s THEN TOMBSTONE_KEY ELSE ks[r]
    BY DEF WellFormed
  <1>3. StoredOnce(ks, cap) /\ StoredOnce(ks2, cap)
    BY <1>1 DEF WellFormed
  <1> HIDE DEF ks2
  <1>4. CASE m = ks[s]
    <2>1. \A r \in Slots(cap) : ks2[r] # m
      BY <1>2, <1>3, <1>4 DEF StoredOnce
    <2>2. ValueIn(ks2, vs, cap, m) = Absent
      BY <2>1, ValueOfNone
    <2>3. QED
      BY <1>4, <2>2 DEF ks2
  <1>5. CASE m # ks[s]
    <2>1. \A r \in Slots(cap) : ks2[r] = m <=> ks[r] = m
      BY <1>2, <1>5
    <2>2. ValueIn(ks2, vs, cap, m) = ValueIn(ks, vs, cap, m)
      BY <1>3, <2>1, SamePairsSameValues
    <2>3. QED
      BY <1>5, <2>2 DEF ks2
  <1>6. QED
    BY <1>4, <1>5

\* A used table is not empty of slots; an unused one holds nothing.
LEMMA CountZero ==
    ASSUME IInv, pc = "idle", count = 0
    PROVE  \A s \in Slots(capacity) : key[s] = Null
  <1>1. Used(key, capacity) = {}
    BY UsedFinite, FS_EmptySet DEF IInv, CountExact, TypeOK
  <1>2. QED
    BY <1>1 DEF Used

MapNow == [k \in Key |-> ValueIn(key, val, capacity, k)]

LEMMA UnchangedMap ==
    ASSUME UNCHANGED tabVars
    PROVE  MapNow' = MapNow
  BY DEF MapNow, tabVars

\* The last step of table_adjust changes the slots, not the map.
LEMMA AdoptStutters ==
    ASSUME IInv, Adopt
    PROVE  MapNow' = MapNow
  <1>1. /\ Moved /\ next = capacity /\ capacity \in Nat
        /\ capacity' = newCapacity /\ key' = newKey /\ val' = newVal
    BY DEF IInv, Adopt, TypeOK
  <1>2. \A s \in Slots(capacity) : s < next
    BY <1>1 DEF Slots
  <1>3. ASSUME NEW k \in Key
        PROVE  ValueIn(key, val, capacity, k) = ValueIn(newKey, newVal, newCapacity, k)
    <2>1. StoredOnce(key, capacity) /\ StoredOnce(newKey, newCapacity)
      BY <1>1 DEF IInv, Moved, WellFormed
    <2>2. \A s \in Slots(capacity) : key[s] = k =>
            \E r \in Slots(newCapacity) : newKey[r] = key[s] /\ newVal[r] = val[s]
      BY <1>1, <1>2 DEF Moved
    <2>3. \A r \in Slots(newCapacity) : newKey[r] = k =>
            \E s \in Slots(capacity) : key[s] = newKey[r]
      BY <1>1 DEF Moved
    <2>4. QED
      BY <2>1, <2>2, <2>3, SamePairsSameValues
  <1>4. QED
    BY <1>1, <1>3 DEF MapNow

LEMMA StoreIsSet ==
    ASSUME IInv, Store
    PROVE  \E k \in Key, v \in Value :
             MapNow' = [MapNow EXCEPT ![k] = v] /\ call' = <<"set", k, MapNow[k] = Absent>>
  <1>1. arg.key \in Key /\ arg.value \in Value
    BY DEF IInv, Store, Calling
  <1>2. PICK k \in Key, v \in Value : k = arg.key /\ v = arg.value
    BY <1>1
  <1>3. PICK s \in Slots(capacity) :
          /\ Dest(key, capacity, k, s)
          /\ key' = [key EXCEPT ![s] = k]
          /\ val' = [val EXCEPT ![s] = v]
          /\ call' = <<"set", k, key[s] \notin Key>>
    BY <1>2 DEF Store
  <1>4. /\ capacity' = capacity /\ capacity \in Nat /\ WellFormed(key, capacity)
        /\ HoldsValues(key, val, capacity)
        /\ val \in [Slots(capacity) -> Value \cup {Absent}]
    BY DEF IInv, Store, TypeOK
  <1>5. MapNow' = [MapNow EXCEPT ![k] = v]
    <2>1. ASSUME NEW m \in Key
          PROVE  ValueIn(key', val', capacity, m) =
                   IF m = k THEN v ELSE ValueIn(key, val, capacity, m)
      <3>1. Written(key, val, capacity, s, k, v, key', val')
        BY <1>3, <1>4 DEF WellFormed, Written
      <3>2. Dest(key, capacity, k, s) /\ capacity \in Nat /\ WellFormed(key, capacity)
        BY <1>3, <1>4
      <3>3. QED
        BY <3>1, <3>2, ValueAfterStore
    <2>2. QED
      BY <1>4, <2>1 DEF MapNow
  <1>6. key[s] \notin Key <=> ValueIn(key, val, capacity, k) = Absent
    <2>1. CASE key[s] = k
      <3>1. ValueIn(key, val, capacity, k) = val[s]
        BY <1>4, <2>1, ValueOfSlot DEF WellFormed
      <3>2. QED
        BY <1>4, <2>1, <3>1 DEF HoldsValues
    <2>2. CASE key[s] \notin Key /\ \A r \in Slots(capacity) : key[r] # k
      BY <2>2, ValueOfNone
    <2>3. QED
      BY <1>3, <1>4, <2>1, <2>2, DestFinds
  <1>7. MapNow[k] = ValueIn(key, val, capacity, k)
    BY DEF MapNow
  <1>8. call' = <<"set", k, MapNow[k] = Absent>>
    BY <1>3, <1>6, <1>7
  <1>9. QED
    BY <1>5, <1>8

LEMMA DeleteIsDelete ==
    ASSUME IInv, NEW k \in Key, Delete(k)
    PROVE  /\ MapNow' = [MapNow EXCEPT ![k] = Absent]
           /\ call' = <<"delete", k, MapNow[k] # Absent>>
  <1>1. /\ pc = "idle" /\ capacity' = capacity /\ val' = val /\ capacity \in Nat
        /\ WellFormed(key, capacity) /\ HoldsValues(key, val, capacity)
    BY DEF Delete, IInv, TypeOK
  <1>2. MapNow[k] = ValueIn(key, val, capacity, k) /\ DOMAIN MapNow = Key
    BY DEF MapNow
  <1>3. ASSUME UNCHANGED key, \A r \in Slots(capacity) : key[r] # k, call' = <<"delete", k, FALSE>>
        PROVE  /\ MapNow' = [MapNow EXCEPT ![k] = Absent]
               /\ call' = <<"delete", k, MapNow[k] # Absent>>
    <2>1. ValueIn(key, val, capacity, k) = Absent
      BY <1>3, ValueOfNone
    <2>2. MapNow' = MapNow
      BY <1>1, <1>3 DEF MapNow
    <2>3. MapNow = [MapNow EXCEPT ![k] = Absent]
      BY <1>2, <2>1 DEF MapNow
    <2>4. QED
      BY <1>2, <1>3, <2>1, <2>2, <2>3
  <1>4. CASE count = 0
    <2>1. \A r \in Slots(capacity) : key[r] # k
      BY <1>1, <1>4, CountZero
    <2>2. UNCHANGED key /\ call' = <<"delete", k, FALSE>>
      BY <1>4 DEF Delete
    <2>3. QED
      BY <1>3, <2>1, <2>2
  <1>5. CASE count # 0
    <2>1. PICK s \in Slots(capacity) :
            /\ Dest(key, capacity, k, s)
            /\ call' = <<"delete", k, key[s] \in Key>>
            /\ key' = IF key[s] \in Key THEN [key EXCEPT ![s] = TOMBSTONE_KEY] ELSE key
      BY <1>5 DEF Delete, Erased
    <2>2. CASE key[s] = k
      <3>1. ValueIn(key, val, capacity, k) = val[s] /\ val[s] \in Value
        BY <1>1, <2>2, ValueOfSlot DEF WellFormed, HoldsValues
      <3>2. \A m \in Key : ValueIn(key', val', capacity', m) =
                             IF m = k THEN Absent ELSE ValueIn(key, val, capacity, m)
        <4>1. ASSUME NEW m \in Key
              PROVE  ValueIn([key EXCEPT ![s] = TOMBSTONE_KEY], val, capacity, m) =
                       IF m = key[s] THEN Absent ELSE ValueIn(key, val, capacity, m)
          BY <1>1, <2>2, ValueAfterErase
        <4>2. QED
          BY <1>1, <2>1, <2>2, <4>1
      <3>3. MapNow' = [MapNow EXCEPT ![k] = Absent]
        BY <3>2 DEF MapNow
      <3>4. call' = <<"delete", k, TRUE>> /\ MapNow[k] # Absent
        BY <1>2, <2>1, <2>2, <3>1
      <3>5. QED
        BY <3>3, <3>4
    <2>3. CASE key[s] \notin Key /\ \A r \in Slots(capacity) : key[r] # k
      <3>1. (key[s] \in Key) = FALSE
        BY <2>3
      <3>2. UNCHANGED key /\ call' = <<"delete", k, FALSE>>
        BY <2>1, <3>1
      <3>3. QED
        BY <1>3, <2>3, <3>2
    <2>4. QED
      BY <1>1, <2>1, <2>2, <2>3, DestFinds
  <1>6. QED
    BY <1>4, <1>5

LEMMA GetIsGet ==
    ASSUME IInv, NEW k \in Key, Get(k)
    PROVE  call' = <<"get", k, MapNow[k]>>
  <1>1. /\ pc = "idle" /\ capacity \in Nat /\ WellFormed(key, capacity)
        /\ HoldsValues(key, val, capacity)
    BY DEF Get, IInv, TypeOK
  <1>2. MapNow[k] = ValueIn(key, val, capacity, k)
    BY DEF MapNow
  <1>3. CASE count = 0
    <2>1. ValueIn(key, val, capacity, k) = Absent
      BY <1>1, <1>3, CountZero, ValueOfNone
    <2>2. QED
      BY <1>2, <1>3, <2>1 DEF Get
  <1>4. CASE count # 0
    <2>1. PICK s \in Slots(capacity) :
            /\ Dest(key, capacity, k, s)
            /\ call' = <<"get", k, IF key[s] \in Key THEN val[s] ELSE Absent>>
      BY <1>4 DEF Get
    <2>2. CASE key[s] = k
      BY <1>1, <1>2, <2>1, <2>2, ValueOfSlot DEF WellFormed
    <2>3. CASE key[s] \notin Key /\ \A r \in Slots(capacity) : key[r] # k
      BY <1>2, <2>1, <2>3, ValueOfNone
    <2>4. QED
      BY <1>1, <2>1, <2>2, <2>3, DestFinds
  <1>5. QED
    BY <1>3, <1>4

LEMMA FindIsFind ==
    ASSUME IInv, NEW q \in Key, FindString(TextOf[q])
    PROVE  \/ \E k \in Key : /\ MapNow[k] # Absent /\ TextOf[k] = TextOf[q]
                             /\ call' = <<"find", TextOf[q], k>>
           \/ /\ \A k \in Key : TextOf[k] = TextOf[q] => MapNow[k] = Absent
              /\ call' = <<"find", TextOf[q], Null>>
  <1>1. /\ pc = "idle" /\ capacity \in Nat /\ WellFormed(key, capacity)
        /\ HoldsValues(key, val, capacity)
    BY DEF FindString, IInv, TypeOK
  <1>2. \A k \in Key : MapNow[k] = ValueIn(key, val, capacity, k)
    BY DEF MapNow
  <1>3. CASE count = 0
    <2>1. \A k \in Key : ValueIn(key, val, capacity, k) = Absent
      BY <1>1, <1>3, CountZero, ValueOfNone
    <2>2. QED
      BY <1>2, <1>3, <2>1 DEF FindString
  <1>4. CASE count # 0
    <2>1. PICK s \in Slots(capacity) :
            TextAt(key, capacity, TextOf[q], s) /\ call' = <<"find", TextOf[q], key[s]>>
      BY <1>4 DEF FindString
    <2>2. capacity \in Nat \ {0}
      BY <1>1, <2>1 DEF Slots
    <2>3. PICK i \in Slots(capacity) :
            /\ s = Probe(TextOf[q], capacity, i)
            /\ key[s] = Null \/ (key[s] \in Key /\ TextOf[key[s]] = TextOf[q])
            /\ \A j \in 0..(i - 1) :
                 LET m == key[Probe(TextOf[q], capacity, j)]
                 IN  m # Null /\ ~(m \in Key /\ TextOf[m] = TextOf[q])
      BY <2>1 DEF TextAt
    <2>4. CASE key[s] \in Key /\ TextOf[key[s]] = TextOf[q]
      <3>1. ValueIn(key, val, capacity, key[s]) = val[s] /\ val[s] \in Value
        BY <1>1, <2>4, ValueOfSlot DEF WellFormed, HoldsValues
      <3>2. QED
        BY <1>2, <2>1, <2>4, <3>1
    <2>5. CASE key[s] = Null
      <3>1. ASSUME NEW k \in Key, TextOf[k] = TextOf[q], NEW r \in Slots(capacity), key[r] = k
            PROVE  FALSE
        <4>1. PICK h \in Slots(capacity) : Probe(TextOf[q], capacity, h) = r
          BY <2>2, ProbeReaches
        <4>2. \A g \in 0..(h - 1) : key[Probe(TextOf[q], capacity, g)] # Null
          BY <1>1, <3>1, <4>1 DEF WellFormed, Chained
        <4>3. ~(i \in 0..(h - 1))
          BY <2>3, <2>5, <4>2
        <4>4. ~(h \in 0..(i - 1))
          BY <2>3, <3>1, <4>1
        <4>5. h = i
          BY <4>3, <4>4 DEF Slots
        <4>6. QED
          BY <2>3, <2>5, <3>1, <4>1, <4>5
      <3>2. \A k \in Key : TextOf[k] = TextOf[q] => ValueIn(key, val, capacity, k) = Absent
        BY <3>1, ValueOfNone
      <3>3. QED
        BY <1>2, <2>1, <2>5, <3>2
    <2>6. QED
      BY <2>3, <2>4, <2>5
  <1>5. QED
    BY <1>3, <1>4

\* Every step of a call is the step of a map, or no step of it.
LEMMA StepRefines == IInv /\ [Next]_vars => [Map!Next]_(Map!vars)
  <1> SUFFICES ASSUME IInv, [Next]_vars PROVE [Map!Next]_(Map!vars)
    OBVIOUS
  <1> USE DEF Map!vars, MapNow
  <1>1. ASSUME MapNow' = MapNow, UNCHANGED call PROVE UNCHANGED Map!vars
    BY <1>1
  <1>2. CASE Store
    <2>1. PICK k \in Key, v \in Value :
            MapNow' = [MapNow EXCEPT ![k] = v] /\ call' = <<"set", k, MapNow[k] = Absent>>
      BY <1>2, StoreIsSet
    <2>2. Map!Set(k, v)
      BY <2>1 DEF Map!Set
    <2>3. QED
      BY <2>2 DEF Map!Next
  <1>3. ASSUME NEW k \in Key, Delete(k) PROVE Map!Next
    <2>1. Map!Delete(k)
      BY <1>3, DeleteIsDelete DEF Map!Delete
    <2>2. QED
      BY <2>1 DEF Map!Next
  <1>4. ASSUME NEW k \in Key, Get(k) PROVE Map!Next
    <2>1. Map!Get(k)
      BY <1>4, GetIsGet, UnchangedMap DEF Map!Get, Get
    <2>2. QED
      BY <2>1 DEF Map!Next
  <1>5. ASSUME NEW k \in Key, FindString(TextOf[k]) PROVE Map!Next
    <2>1. Map!FindString(TextOf[k])
      BY <1>5, FindIsFind, UnchangedMap DEF Map!FindString, FindString
    <2>2. QED
      BY <2>1 DEF Map!Next
  <1>6. ASSUME NEW k \in Key, NEW v \in Value, Set(k, v) PROVE UNCHANGED Map!vars
    BY <1>1, <1>6, UnchangedMap DEF Set
  <1>7. CASE Skip \/ Move
    BY <1>1, <1>7, UnchangedMap DEF Skip, Move
  <1>8. CASE Adopt
    BY <1>1, <1>8, AdoptStutters DEF Adopt
  <1>9. CASE UNCHANGED vars
    BY <1>1, <1>9, UnchangedMap DEF vars
  <1>10. QED
    BY <1>2, <1>3, <1>4, <1>5, <1>6, <1>7, <1>8, <1>9 DEF Next

\* For every set of keys and every hash function the table, with its growth
\* and its tombstones, implements a map: table_set, table_get, table_delete
\* and table_find_string answer what a map would.
THEOREM TableIsMap == Spec => MapRefined
  <1>1. Init => Map!Init
    <2>1. Init => Slots(capacity) = {} /\ call = <<>>
      BY DEF Init, Slots
    <2>2. QED
      BY <2>1, ValueOfNone DEF Map!Init
  <1>2. QED
    BY <1>1, InitInvariant, NextPreserves, StepRefines, PTL DEF Spec, MapRefined, Map!Spec
=============================================================================
