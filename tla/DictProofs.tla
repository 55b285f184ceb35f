----------------------------- MODULE DictProofs -----------------------------
(***************************************************************************)
(* For every set of keys and every hash function: the index table, the     *)
(* entry array and the two caches of a dict agree, a store always finds a  *)
(* slot, a loop over a dict that changes meets each key once, and the dict *)
(* is an insertion-ordered map.                                            *)
(***************************************************************************)
EXTENDS Dict, FiniteSetTheorems, TLAPS

USE DictAssumption
-----------------------------------------------------------------------------
(***************************************************************************)
(* Probe sequences visit every slot once.                                  *)
(***************************************************************************)
LEMMA HomeInRange ==
    ASSUME NEW t \in Text, NEW cap \in Nat \ {0}
    PROVE  Hash[t] % cap \in Slots(cap)
  BY DEF Slots

LEMMA ProbeInRange ==
    ASSUME NEW t \in Text, NEW cap \in Nat \ {0}, NEW i \in Slots(cap)
    PROVE  Probe(cap, t, i) \in Slots(cap)
  <1> DEFINE home == Hash[t] % cap
  <1>1. home \in Slots(cap)
    BY HomeInRange
  <1> HIDE DEF home
  <1>2. (IF home + i < cap THEN home + i ELSE home + i - cap) \in Slots(cap)
    BY <1>1 DEF Slots
  <1>3. QED
    BY <1>2 DEF Probe, home

LEMMA ProbeInjective ==
    ASSUME NEW t \in Text, NEW cap \in Nat \ {0}, NEW i \in Slots(cap), NEW j \in Slots(cap),
           Probe(cap, t, i) = Probe(cap, t, j)
    PROVE  i = j
  <1> DEFINE home == Hash[t] % cap
  <1>1. home \in Slots(cap)
    BY HomeInRange
  <1>2. (IF home + i < cap THEN home + i ELSE home + i - cap) =
        (IF home + j < cap THEN home + j ELSE home + j - cap)
    BY DEF Probe
  <1> HIDE DEF home
  <1>3. QED
    BY <1>1, <1>2 DEF Slots

LEMMA ProbeReaches ==
    ASSUME NEW t \in Text, NEW cap \in Nat \ {0}, NEW s \in Slots(cap)
    PROVE  \E i \in Slots(cap) : Probe(cap, t, i) = s
  <1> DEFINE home == Hash[t] % cap
             i == IF home <= s THEN s - home ELSE s + cap - home
  <1>1. home \in Slots(cap)
    BY HomeInRange
  <1> HIDE DEF home
  <1>2. i \in Slots(cap) /\ (IF home + i < cap THEN home + i ELSE home + i - cap) = s
    BY <1>1 DEF Slots
  <1> HIDE DEF i
  <1>3. QED
    BY <1>2 DEF Probe, home
-----------------------------------------------------------------------------
(***************************************************************************)
(* An index table and an entry array that fit: every index leads to a live *)
(* entry of its own, every live entry is reached by its probe sequence     *)
(* with no empty slot on the way, and no text is stored twice.             *)
(***************************************************************************)
Alive(es) == {i \in DOMAIN es : IsLive(es[i])}
TextAt(es, i) == TextOf[es[i].key]

\* A probe for t comes to slot s before it meets an empty slot.
Reaches(cap, ix, t, s) ==
    \E p \in Slots(cap) :
        s = Probe(cap, t, p) /\ \A q \in 0..(p - 1) : ix[Probe(cap, t, q)] # 0

WellFormed(cap, ix, es) ==
    /\ ix \in [Slots(cap) -> {TOMBSTONE_IDX} \cup 0..Len(es)]
    /\ \A s \in Slots(cap) : ix[s] > 0 => ix[s] \in Alive(es)
    /\ \A s, r \in Slots(cap) : ix[s] > 0 /\ ix[s] = ix[r] => s = r
    /\ \A i \in Alive(es) : \E s \in Slots(cap) : ix[s] = i /\ Reaches(cap, ix, TextAt(es, i), s)
    /\ \A i, j \in Alive(es) : TextAt(es, i) = TextAt(es, j) => i = j

LEMMA AliveText ==
    ASSUME NEW es \in Seq(Entry), NEW i \in Alive(es)
    PROVE  /\ i \in 1..Len(es) /\ es[i] \in [key : Key, value : Value]
           /\ es[i].key \in Key /\ TextAt(es, i) \in Text
  <1>1. i \in 1..Len(es) /\ es[i] \in Entry /\ es[i].key # Deleted
    BY DEF Alive, IsLive
  <1>2. es[i] \in [key : Key, value : Value]
    BY <1>1 DEF Entry
  <1>3. es[i].key \in Key
    BY <1>2
  <1>4. QED
    BY <1>1, <1>2, <1>3 DEF TextAt, Text

\* What the probe of a lookup finds is the entry of its text ...
LEMMA FoundHolds ==
    ASSUME NEW cap \in Nat, NEW es \in Seq(Entry), NEW ix, WellFormed(cap, ix, es),
           NEW t \in Text, NEW s \in Found(cap, ix, es, t)
    PROVE  /\ s \in Slots(cap) /\ ix[s] \in Alive(es) /\ ix[s] \in 1..Len(es)
           /\ TextAt(es, ix[s]) = t
  <1>1. s \in Slots(cap) /\ ix[s] > 0
    BY DEF Found
  <1>2. PICK i \in Slots(cap) : s = Probe(cap, t, i) /\ Leaves(cap, ix, es, t, i)
    BY DEF Found
  <1>3. Matches(ix, es, s, t)
    BY <1>1, <1>2 DEF Leaves, Stops
  <1>4. ix[s] \in Alive(es)
    BY <1>1 DEF WellFormed
  <1>5. QED
    BY <1>1, <1>3, <1>4, AliveText DEF Matches, TextAt

\* ... and if there is one, it is found.
LEMMA HeldIsFound ==
    ASSUME NEW cap \in Nat, NEW es \in Seq(Entry), NEW ix, WellFormed(cap, ix, es),
           NEW e \in Alive(es)
    PROVE  \E s \in Found(cap, ix, es, TextAt(es, e)) : ix[s] = e
  <1> DEFINE t == TextAt(es, e)
  <1>1. PICK s \in Slots(cap) : ix[s] = e /\ Reaches(cap, ix, t, s)
    BY DEF WellFormed
  <1>2. PICK p \in Slots(cap) :
          s = Probe(cap, t, p) /\ \A q \in 0..(p - 1) : ix[Probe(cap, t, q)] # 0
    BY <1>1 DEF Reaches
  <1>3. cap \in Nat \ {0} /\ t \in Text /\ e \in 1..Len(es)
    BY AliveText DEF Slots
  <1>4. Matches(ix, es, s, t)
    BY <1>1, <1>3 DEF Matches, Alive, TextAt
  <1>5. ASSUME NEW q \in 0..(p - 1)
        PROVE  ~Stops(ix, es, Probe(cap, t, q), t)
    <2>1. q \in Slots(cap) /\ q # p
      BY <1>2 DEF Slots
    <2>2. Probe(cap, t, q) \in Slots(cap) /\ Probe(cap, t, q) # s
      BY <1>2, <1>3, <2>1, ProbeInRange, ProbeInjective
    <2>3. ASSUME Matches(ix, es, Probe(cap, t, q), t)
          PROVE  FALSE
      <3>1. ix[Probe(cap, t, q)] \in Alive(es) /\ TextAt(es, ix[Probe(cap, t, q)]) = t
        BY <2>2, <2>3 DEF Matches, WellFormed, TextAt
      <3>2. ix[Probe(cap, t, q)] = e
        BY <3>1 DEF WellFormed
      <3>3. QED
        BY <1>1, <1>3, <2>2, <3>2 DEF WellFormed
    <2>4. QED
      BY <1>2, <2>3 DEF Stops
  <1>6. Leaves(cap, ix, es, t, p)
    BY <1>2, <1>4, <1>5 DEF Leaves, Stops
  <1>7. s \in Found(cap, ix, es, t)
    BY <1>1, <1>2, <1>3, <1>6 DEF Found
  <1>8. QED
    BY <1>1, <1>7

\* Where a probe that finds nothing says that the text belongs.
LEMMA InsertAt ==
    ASSUME NEW cap \in Nat, NEW es \in Seq(Entry), NEW ix, WellFormed(cap, ix, es),
           NEW t \in Text, Found(cap, ix, es, t) = {},
           NEW s, InsertSlot(cap, ix, es, t, s)
    PROVE  s \in Slots(cap) /\ ~(ix[s] > 0) /\ Reaches(cap, ix, t, s)
  <1>1. PICK i \in Slots(cap) :
          /\ Leaves(cap, ix, es, t, i)
          /\ \E j \in 0..i :
               /\ s = Probe(cap, t, j)
               /\ ix[s] = TOMBSTONE_IDX \/ j = i
               /\ \A h \in 0..(j - 1) : ix[Probe(cap, t, h)] # TOMBSTONE_IDX
    BY DEF InsertSlot
  <1>2. PICK j \in 0..i : s = Probe(cap, t, j) /\ (ix[s] = TOMBSTONE_IDX \/ j = i)
    BY <1>1
  <1>3. cap \in Nat \ {0} /\ j \in Slots(cap)
    BY <1>2 DEF Slots
  <1>4. s \in Slots(cap)
    BY <1>2, <1>3, ProbeInRange
  <1>5. ~(ix[s] > 0)
    <2>1. CASE j = i
      BY <1>1, <1>2, <1>4, <2>1 DEF Found
    <2>2. CASE ix[s] = TOMBSTONE_IDX
      BY <2>2 DEF TOMBSTONE_IDX
    <2>3. QED
      BY <1>2, <2>1, <2>2
  <1>6. \A q \in 0..(j - 1) : ix[Probe(cap, t, q)] # 0
    <2>1. \A q \in 0..(j - 1) : q \in 0..(i - 1)
      BY <1>2 DEF Slots
    <2>2. QED
      BY <1>1, <2>1 DEF Leaves, Stops
  <1>7. QED
    BY <1>2, <1>3, <1>4, <1>5, <1>6 DEF Reaches
-----------------------------------------------------------------------------
(***************************************************************************)
(* The writes to the two arrays keep them well formed.                     *)
(***************************************************************************)
LEMMA ReachStays ==
    ASSUME NEW cap \in Nat, NEW ix, NEW ix2, NEW t \in Text, NEW r, Reaches(cap, ix, t, r),
           \A s \in Slots(cap) : ix[s] # 0 => ix2[s] # 0
    PROVE  Reaches(cap, ix2, t, r)
  <1>1. PICK p \in Slots(cap) :
          r = Probe(cap, t, p) /\ \A q \in 0..(p - 1) : ix[Probe(cap, t, q)] # 0
    BY DEF Reaches
  <1>2. cap \in Nat \ {0}
    BY DEF Slots
  <1>3. ASSUME NEW q \in 0..(p - 1)
        PROVE  ix2[Probe(cap, t, q)] # 0
    <2>1. q \in Slots(cap)
      BY DEF Slots
    <2>2. Probe(cap, t, q) \in Slots(cap)
      BY <1>2, <2>1, ProbeInRange
    <2>3. QED
      BY <1>1, <2>2
  <1>4. QED
    BY <1>1, <1>3 DEF Reaches

LEMMA EmptyWellFormed ==
    ASSUME NEW cap \in Nat
    PROVE  WellFormed(cap, [s \in Slots(cap) |-> 0], <<>>)
  BY DEF WellFormed, Alive, TOMBSTONE_IDX

\* A new entry e, at slot s: (ix, es) becomes (ix2, es2).
Appends(cap, ix, es, s, e, ix2, es2) ==
    /\ e \in [key : Key, value : Value]
    /\ \A i \in Alive(es) : TextAt(es, i) # TextOf[e.key]
    /\ s \in Slots(cap) /\ ~(ix[s] > 0) /\ Reaches(cap, ix, TextOf[e.key], s)
    /\ es2 = Append(es, e)
    /\ ix2 \in [Slots(cap) -> {TOMBSTONE_IDX} \cup 0..Len(es2)]
    /\ \A r \in Slots(cap) : ix2[r] = IF r = s THEN Len(es2) ELSE ix[r]

LEMMA AppendKeepsForm ==
    ASSUME NEW cap \in Nat, NEW es \in Seq(Entry), NEW ix, WellFormed(cap, ix, es),
           NEW s, NEW e, NEW ix2, NEW es2, Appends(cap, ix, es, s, e, ix2, es2)
    PROVE  /\ WellFormed(cap, ix2, es2)
           /\ Alive(es2) = Alive(es) \cup {Len(es) + 1}
           /\ Len(es) + 1 \notin Alive(es)
           /\ \A i \in 1..Len(es) : es2[i] = es[i]
           /\ es2[Len(es) + 1] = e
           /\ es2 \in Seq(Entry) /\ Len(es2) = Len(es) + 1
  <1> USE DEF Appends
  <1> DEFINE n == Len(es) + 1
  <1>1. e \in Entry /\ e.key # Deleted /\ TextOf[e.key] \in Text
    <2>1. e \in Entry
      BY DEF Entry
    <2>2. e.key \in Key
      OBVIOUS
    <2>3. QED
      BY <2>1, <2>2 DEF Text
  <1>2. /\ es2 \in Seq(Entry) /\ Len(es2) = n /\ n \in Nat \ {0} /\ Len(es) \in Nat
        /\ \A i \in 1..Len(es) : es2[i] = es[i]
        /\ es2[n] = e
    BY <1>1
  <1>3. DOMAIN es = 1..Len(es) /\ DOMAIN es2 = 1..n
    BY <1>2
  <1>4. Alive(es2) = Alive(es) \cup {n} /\ n \notin Alive(es) /\ Alive(es) \subseteq 1..Len(es)
    BY <1>1, <1>2, <1>3 DEF Alive, IsLive
  <1>5. /\ \A i \in Alive(es) : es2[i] = es[i] /\ TextAt(es2, i) = TextAt(es, i)
        /\ TextAt(es2, n) = TextOf[e.key]
    BY <1>2, <1>4 DEF TextAt
  <1>6. ix \in [Slots(cap) -> {TOMBSTONE_IDX} \cup 0..Len(es)]
    BY DEF WellFormed
  <1>7. /\ ix2 \in [Slots(cap) -> {TOMBSTONE_IDX} \cup 0..n]
        /\ \A r \in Slots(cap) : ix2[r] = IF r = s THEN n ELSE ix[r]
    BY <1>2
  <1>8. \A r \in Slots(cap) : ix[r] <= Len(es)
    BY <1>2, <1>6 DEF TOMBSTONE_IDX
  <1> HIDE DEF n
  <1>9. \A r \in Slots(cap) : ix2[r] > 0 => ix2[r] \in Alive(es2)
    BY <1>4, <1>7 DEF WellFormed
  <1>10. \A r, q \in Slots(cap) : ix2[r] > 0 /\ ix2[r] = ix2[q] => r = q
    BY <1>2, <1>7, <1>8 DEF WellFormed, n
  <1>11. ASSUME NEW i \in Alive(es2)
         PROVE  \E r \in Slots(cap) : ix2[r] = i /\ Reaches(cap, ix2, TextAt(es2, i), r)
    <2>1. \A r \in Slots(cap) : ix[r] # 0 => ix2[r] # 0
      BY <1>2, <1>7
    <2>2. CASE i = n
      <3>1. Reaches(cap, ix2, TextOf[e.key], s)
        BY <1>1, <2>1, ReachStays
      <3>2. QED
        BY <1>5, <1>7, <2>2, <3>1
    <2>3. CASE i \in Alive(es)
      <3>1. PICK r \in Slots(cap) : ix[r] = i /\ Reaches(cap, ix, TextAt(es, i), r)
        BY <2>3 DEF WellFormed
      <3>2. TextAt(es, i) \in Text /\ i > 0
        BY <2>3, AliveText
      <3>3. Reaches(cap, ix2, TextAt(es, i), r)
        BY <2>1, <3>1, <3>2, ReachStays
      <3>4. r # s
        BY <3>1, <3>2
      <3>5. QED
        BY <1>5, <1>7, <2>3, <3>1, <3>3, <3>4
    <2>4. QED
      BY <1>4, <2>2, <2>3
  <1>12. \A i, j \in Alive(es2) : TextAt(es2, i) = TextAt(es2, j) => i = j
    BY <1>4, <1>5 DEF WellFormed
  <1>13. WellFormed(cap, ix2, es2)
    BY <1>2, <1>7, <1>9, <1>10, <1>11, <1>12 DEF WellFormed
  <1>14. QED
    BY <1>2, <1>4, <1>5, <1>13 DEF n

\* A new value of an entry.
LEMMA OverwriteKeepsForm ==
    ASSUME NEW cap \in Nat, NEW es \in Seq(Entry), NEW ix, WellFormed(cap, ix, es),
           NEW es2 \in Seq(Entry), Len(es2) = Len(es),
           \A i \in 1..Len(es) : es2[i].key = es[i].key
    PROVE  WellFormed(cap, ix, es2) /\ Alive(es2) = Alive(es)
  <1>1. DOMAIN es2 = 1..Len(es) /\ DOMAIN es = 1..Len(es)
    OBVIOUS
  <1>2. Alive(es2) = Alive(es)
    BY <1>1 DEF Alive, IsLive
  <1>3. \A i \in Alive(es) : TextAt(es2, i) = TextAt(es, i)
    BY <1>1 DEF Alive, TextAt
  <1>4. QED
    BY <1>2, <1>3 DEF WellFormed

\* The entry n of slot s deleted.
Erases(cap, ix, es, s, n, ix2, es2) ==
    /\ s \in Slots(cap) /\ n \in Alive(es) /\ ix[s] = n
    /\ es2 \in Seq(Entry) /\ Len(es2) = Len(es) /\ es2[n].key = Deleted
    /\ \A i \in 1..Len(es) : i # n => es2[i] = es[i]
    /\ ix2 \in [Slots(cap) -> {TOMBSTONE_IDX} \cup 0..Len(es)]
    /\ \A r \in Slots(cap) : ix2[r] = IF r = s THEN TOMBSTONE_IDX ELSE ix[r]

LEMMA EraseKeepsForm ==
    ASSUME NEW cap \in Nat, NEW es \in Seq(Entry), NEW ix, WellFormed(cap, ix, es),
           NEW s, NEW n, NEW ix2, NEW es2, Erases(cap, ix, es, s, n, ix2, es2)
    PROVE  WellFormed(cap, ix2, es2) /\ Alive(es2) = Alive(es) \ {n}
  <1> USE DEF Erases
  <1>1. n \in 1..Len(es)
    BY AliveText
  <1>3. DOMAIN es2 = 1..Len(es) /\ DOMAIN es = 1..Len(es)
    OBVIOUS
  <1>6. Alive(es2) = Alive(es) \ {n}
    BY <1>1, <1>3 DEF Alive, IsLive
  <1>7. \A i \in Alive(es2) : es2[i] = es[i] /\ TextAt(es2, i) = TextAt(es, i)
    BY <1>3, <1>6 DEF Alive, TextAt
  <1>8. \A r \in Slots(cap) : ix2[r] > 0 => r # s /\ ix2[r] = ix[r]
    BY DEF TOMBSTONE_IDX
  <1>9. \A r \in Slots(cap) : ix2[r] > 0 => ix2[r] \in Alive(es2)
    <2>1. SUFFICES ASSUME NEW r \in Slots(cap), ix2[r] > 0 PROVE ix2[r] \in Alive(es2)
      OBVIOUS
    <2>2. ix[r] \in Alive(es) /\ ix[r] > 0 /\ r # s /\ ix2[r] = ix[r]
      BY <1>8, <2>1 DEF WellFormed
    <2>3. ix[r] # n
      BY <2>2 DEF WellFormed
    <2>4. QED
      BY <1>6, <2>2, <2>3
  <1>10. \A r, q \in Slots(cap) : ix2[r] > 0 /\ ix2[r] = ix2[q] => r = q
    BY <1>8 DEF WellFormed
  <1>11. ASSUME NEW i \in Alive(es2)
         PROVE  \E r \in Slots(cap) : ix2[r] = i /\ Reaches(cap, ix2, TextAt(es2, i), r)
    <2>1. PICK r \in Slots(cap) : ix[r] = i /\ Reaches(cap, ix, TextAt(es, i), r)
      BY <1>6 DEF WellFormed
    <2>2. TextAt(es, i) \in Text
      BY <1>6, AliveText
    <2>3. \A q \in Slots(cap) : ix[q] # 0 => ix2[q] # 0
      BY DEF TOMBSTONE_IDX
    <2>4. Reaches(cap, ix2, TextAt(es, i), r)
      BY <2>1, <2>2, <2>3, ReachStays
    <2>5. r # s
      BY <1>6, <2>1
    <2>6. QED
      BY <1>7, <2>1, <2>4, <2>5
  <1>12. \A i, j \in Alive(es2) : TextAt(es2, i) = TextAt(es2, j) => i = j
    BY <1>6, <1>7 DEF WellFormed
  <1>13. WellFormed(cap, ix2, es2)
    BY <1>9, <1>10, <1>11, <1>12 DEF WellFormed
  <1>14. QED
    BY <1>6, <1>13
-----------------------------------------------------------------------------
(***************************************************************************)
(* A slot is used up by an entry for good, so there are at most as many    *)
(* used slots as entries, and room for an entry is an empty slot.          *)
(***************************************************************************)
Used(cap, ix) == {s \in Slots(cap) : ix[s] # 0}

LEMMA UsedFinite ==
    ASSUME NEW cap \in Nat, NEW ix
    PROVE  /\ IsFiniteSet(Used(cap, ix))
           /\ Cardinality(Used(cap, ix)) \in Nat
           /\ Cardinality(Used(cap, ix)) < cap => \E s \in Slots(cap) : ix[s] = 0
  <1>1. IsFiniteSet(Slots(cap)) /\ Cardinality(Slots(cap)) = cap
    BY FS_Interval DEF Slots
  <1>2. Used(cap, ix) \subseteq Slots(cap)
    BY DEF Used
  <1>3. IsFiniteSet(Used(cap, ix))
    BY <1>1, <1>2, FS_Subset
  <1>4. Cardinality(Used(cap, ix)) \in Nat
    BY <1>3, FS_CardinalityType
  <1>5. ASSUME Cardinality(Used(cap, ix)) < cap
        PROVE  \E s \in Slots(cap) : ix[s] = 0
    <2>1. Used(cap, ix) # Slots(cap)
      BY <1>1, <1>4, <1>5
    <2>2. QED
      BY <2>1 DEF Used
  <1>6. QED
    BY <1>3, <1>4, <1>5

LEMMA RoomEndsProbe ==
    ASSUME NEW cap \in Nat, NEW ix, NEW es, NEW t \in Text,
           Cardinality(Used(cap, ix)) < cap
    PROVE  ProbeEnds(cap, ix, es, t)
  <1>1. PICK s \in Slots(cap) : ix[s] = 0
    BY UsedFinite
  <1>2. cap \in Nat \ {0}
    BY <1>1 DEF Slots
  <1>3. PICK i \in Slots(cap) : Probe(cap, t, i) = s
    BY <1>1, <1>2, ProbeReaches
  <1>4. QED
    BY <1>1, <1>3 DEF ProbeEnds, Stops

LEMMA WriteUses ==
    ASSUME NEW cap \in Nat, NEW ix, NEW ix2, NEW s \in Slots(cap),
           \A r \in Slots(cap) : r # s => ix2[r] = ix[r]
    PROVE  Cardinality(Used(cap, ix2)) <= Cardinality(Used(cap, ix)) + 1
  <1>1. Used(cap, ix2) \subseteq Used(cap, ix) \cup {s}
    BY DEF Used
  <1>2. IsFiniteSet(Used(cap, ix)) /\ Cardinality(Used(cap, ix)) \in Nat
    BY UsedFinite
  <1>3. /\ IsFiniteSet(Used(cap, ix) \cup {s})
        /\ Cardinality(Used(cap, ix) \cup {s}) =
             IF s \in Used(cap, ix) THEN Cardinality(Used(cap, ix)) ELSE Cardinality(Used(cap, ix)) + 1
    BY <1>2, FS_AddElement
  <1>4. Cardinality(Used(cap, ix2)) <= Cardinality(Used(cap, ix) \cup {s})
    BY <1>1, <1>3, FS_Subset
  <1>5. Cardinality(Used(cap, ix2)) \in Nat
    BY UsedFinite
  <1>6. QED
    BY <1>2, <1>3, <1>4, <1>5

LEMMA NoneUsed ==
    ASSUME NEW cap \in Nat
    PROVE  Cardinality(Used(cap, [s \in Slots(cap) |-> 0])) = 0
  <1>1. Used(cap, [s \in Slots(cap) |-> 0]) = {}
    BY DEF Used
  <1>2. QED
    BY <1>1, FS_EmptySet
-----------------------------------------------------------------------------
(***************************************************************************)
(* The inductive invariant.  StoreEnds needs the count of used slots;      *)
(* CachesCoherent needs probes that find what is stored; and what LoopExact *)
(* says across a growth depends on where the copies stand.                 *)
(***************************************************************************)
LoadBounded ==
    /\ capacity = 0 \/ capacity >= MinCapacity
    /\ Cardinality(Used(capacity, indices)) <= Len(entries)
    /\ Len(entries) <= capacity
    /\ pc = "store" => Len(entries) < capacity

\* The copies made so far: those of the live entries passed, in their order,
\* each as far as its deleted predecessors before its old place.
Adjusting ==
    /\ newCapacity > Len(entries) /\ newCapacity >= MinCapacity
    /\ next <= Len(entries)
    /\ WellFormed(newCapacity, newIndices, newEntries)
    /\ Cardinality(Used(newCapacity, newIndices)) <= Len(newEntries)
    /\ Len(newEntries) <= next
    /\ \A j \in 1..Len(newEntries) :
         \E i \in LiveEntries : j <= i /\ i <= next /\ newEntries[j] = entries[i]
    /\ \A i \in LiveEntries : i <= next =>
         \E j \in 1..Len(newEntries) : newEntries[j] = entries[i]
    /\ \A i, k \in LiveEntries : \A j, h \in 1..Len(newEntries) :
         newEntries[j] = entries[i] /\ newEntries[h] = entries[k] /\ j < h => i < k
    /\ \A n \in 1..next : (\A i \in 1..n : i \in LiveEntries) =>
         n <= Len(newEntries) /\ \A i \in 1..n : newEntries[i] = entries[i]

MonoFits == mono # None => \E i \in LiveEntries : entries[i] = mono

ICFits ==
    ic # None =>
      /\ ic.version <= version
      /\ ic.version = version =>
           ic.entry \in LiveEntries /\ TextAt(entries, ic.entry) = TextOf[ic.key]

\* Texts that are not stored are neither visited nor awaited.
LoopKnows == loop # None => loop.seen \subseteq Texts /\ loop.owed \subseteq Texts

IInv ==
    /\ TypeOK
    /\ WellFormed(capacity, indices, entries)
    /\ count = Cardinality(LiveEntries)
    /\ LoadBounded
    /\ pc = "adjust" => Adjusting
    /\ MonoFits /\ ICFits
    /\ LoopKnows /\ LoopExact
-----------------------------------------------------------------------------
LEMMA LiveFinite ==
    ASSUME IInv
    PROVE  /\ LiveEntries = Alive(entries) /\ LiveEntries \subseteq 1..Len(entries)
           /\ IsFiniteSet(LiveEntries)
           /\ \A i \in LiveEntries : EntryText(i) = TextAt(entries, i) /\ EntryText(i) \in Text
           /\ \A i \in LiveEntries : entries[i] \in [key : Key, value : Value]
           /\ \A i \in LiveEntries : entries[i].key \in Key
  <1>1. entries \in Seq(Entry)
    BY DEF IInv, TypeOK
  <1>2. LiveEntries = Alive(entries) /\ \A i \in LiveEntries : EntryText(i) = TextAt(entries, i)
    BY DEF LiveEntries, Alive, EntryText, TextAt
  <1>3. LiveEntries \subseteq 1..Len(entries)
    BY <1>1, <1>2, AliveText
  <1>4. IsFiniteSet(1..Len(entries))
    BY <1>1, FS_Interval
  <1>5. QED
    BY <1>1, <1>2, <1>3, <1>4, AliveText, FS_Subset

\* What Found answers, in the words of the invariant.
LEMMA FoundIsHeld ==
    ASSUME IInv, NEW t \in Text
    PROVE  /\ \A s \in Found(capacity, indices, entries, t) :
                s \in Slots(capacity) /\ indices[s] \in LiveEntries /\ EntryText(indices[s]) = t
           /\ Found(capacity, indices, entries, t) = {} =>
                \A i \in LiveEntries : EntryText(i) # t
  <1>1. /\ capacity \in Nat /\ entries \in Seq(Entry)
        /\ WellFormed(capacity, indices, entries)
    BY DEF IInv, TypeOK
  <1>2. /\ LiveEntries = Alive(entries)
        /\ \A i \in LiveEntries : EntryText(i) = TextAt(entries, i)
    BY LiveFinite
  <1>3. \A s \in Found(capacity, indices, entries, t) :
          s \in Slots(capacity) /\ indices[s] \in LiveEntries /\ EntryText(indices[s]) = t
    BY <1>1, <1>2, FoundHolds
  <1>4. ASSUME Found(capacity, indices, entries, t) = {}, NEW i \in LiveEntries, EntryText(i) = t
        PROVE  FALSE
    <2>1. i \in Alive(entries) /\ TextAt(entries, i) = t
      BY <1>2, <1>4
    <2>2. \E s \in Found(capacity, indices, entries, TextAt(entries, i)) : indices[s] = i
      BY <1>1, <2>1, HeldIsFound
    <2>3. QED
      BY <1>4, <2>1, <2>2
  <1>5. QED
    BY <1>3, <1>4

LEMMA InitInvariant == Init => IInv
  <1> SUFFICES ASSUME Init PROVE IInv
    OBVIOUS
  <1>1. Slots(0) = {} /\ DOMAIN entries = {} /\ entries \in Seq(Entry) /\ Len(entries) = 0
    BY DEF Init, Slots
  <1>2. LiveEntries = {} /\ Alive(entries) = {}
    BY <1>1 DEF LiveEntries, Alive
  <1>3. indices = [s \in {} |-> 0] /\ newIndices = [s \in {} |-> 0]
    BY DEF Init
  <1>4. newEntries \in Seq([key : Key, value : Value])
    BY DEF Init
  <1>5. TypeOK
    BY <1>1, <1>3, <1>4 DEF Init, TypeOK
  <1>6. WellFormed(capacity, indices, entries)
    BY <1>1, <1>2, <1>3 DEF Init, WellFormed
  <1>7. count = Cardinality(LiveEntries)
    BY <1>2, FS_EmptySet DEF Init
  <1>8. Used(capacity, indices) = {}
    BY <1>1 DEF Init, Used
  <1>9. Cardinality(Used(capacity, indices)) = 0
    BY <1>8, FS_EmptySet
  <1>10. LoadBounded
    BY <1>1, <1>9 DEF Init, LoadBounded
  <1>11. QED
    BY <1>5, <1>6, <1>7, <1>10 DEF Init, IInv, MonoFits, ICFits, LoopKnows, LoopExact

\* Lookups write the caches at most.
LEMMA ReadPreserves ==
    ASSUME IInv, UNCHANGED <<dictVars, loop, pc, adjustVars>>, hung' \in BOOLEAN,
           mono' \in {None} \cup [key : Key, value : Value],
           ic' = None \/ ic' \in [key : Key, version : Nat, entry : Nat],
           MonoFits', ICFits'
    PROVE  IInv'
  <1>1. TypeOK'
    BY DEF IInv, TypeOK, dictVars, adjustVars
  <1>2. LiveEntries' = LiveEntries /\ Texts' = Texts /\ \A i : EntryText(i)' = EntryText(i)
    BY DEF LiveEntries, Texts, EntryText, dictVars
  <1>3. LoadBounded' /\ (pc' = "adjust" => Adjusting')
    BY <1>2 DEF IInv, LoadBounded, Adjusting, dictVars, adjustVars
  <1>4. LoopKnows' /\ LoopExact'
    BY <1>2 DEF IInv, LoopKnows, LoopExact
  <1>5. QED
    BY <1>1, <1>2, <1>3, <1>4 DEF IInv, dictVars

LEMMA SameCachesFit ==
    ASSUME IInv, UNCHANGED dictVars
    PROVE  (UNCHANGED mono => MonoFits') /\ (UNCHANGED ic => ICFits')
  <1>1. LiveEntries' = LiveEntries /\ entries' = entries /\ version' = version
    BY DEF LiveEntries, dictVars
  <1>2. QED
    BY <1>1 DEF IInv, MonoFits, ICFits, TextAt

LEMMA GetMonoPreserves ==
    ASSUME IInv, NEW k \in Key, GetMono(k)
    PROVE  IInv'
  <1>1. UNCHANGED <<dictVars, ic, loop, pc, adjustVars, hung>>
    BY DEF GetMono
  <1>2. CASE UNCHANGED mono
    <2>1. MonoFits' /\ ICFits'
      BY <1>1, <1>2, SameCachesFit
    <2>2. QED
      BY <1>1, <1>2, <2>1, ReadPreserves DEF IInv, TypeOK
  <1>3. CASE ~UNCHANGED mono
    <2>1. PICK s \in Found(capacity, indices, entries, TextOf[k]) : mono' = entries[indices[s]]
      BY <1>3 DEF GetMono
    <2>2. TextOf[k] \in Text
      BY DEF Text
    <2>3. indices[s] \in LiveEntries
      BY <2>1, <2>2, FoundIsHeld
    <2>4. mono' \in [key : Key, value : Value]
      BY <2>1, <2>3, LiveFinite
    <2>5. entries' = entries /\ LiveEntries' = LiveEntries
      BY <1>1 DEF dictVars, LiveEntries
    <2>6. MonoFits' /\ ICFits'
      BY <1>1, <2>1, <2>3, <2>5, SameCachesFit DEF MonoFits
    <2>7. QED
      BY <1>1, <2>4, <2>6, ReadPreserves DEF IInv, TypeOK
  <1>4. QED
    BY <1>2, <1>3

LEMMA GetCachedPreserves ==
    ASSUME IInv, NEW k \in Key, GetCached(k)
    PROVE  IInv'
  <1>1. UNCHANGED <<dictVars, mono, loop, pc, adjustVars, hung>>
    BY DEF GetCached
  <1>2. CASE UNCHANGED ic
    <2>1. MonoFits' /\ ICFits'
      BY <1>1, <1>2, SameCachesFit
    <2>2. QED
      BY <1>1, <1>2, <2>1, ReadPreserves DEF IInv, TypeOK
  <1>3. CASE ~UNCHANGED ic
    <2>1. PICK s \in Found(capacity, indices, entries, TextOf[k]) :
            ic' = [key |-> k, version |-> version, entry |-> indices[s]]
      BY <1>3 DEF GetCached
    <2>2. TextOf[k] \in Text
      BY DEF Text
    <2>3. indices[s] \in LiveEntries /\ EntryText(indices[s]) = TextOf[k]
      BY <2>1, <2>2, FoundIsHeld
    <2>4. version \in Nat /\ indices[s] \in Nat
      BY <2>3, LiveFinite DEF IInv, TypeOK
    <2>5. /\ ic' \in [key : Key, version : Nat, entry : Nat]
          /\ ic'.key = k /\ ic'.version = version /\ ic'.entry = indices[s]
      BY <2>1, <2>4
    <2>6. entries' = entries /\ LiveEntries' = LiveEntries /\ version' = version
      BY <1>1 DEF dictVars, LiveEntries
    <2>7. TextAt(entries, indices[s]) = TextOf[k]
      BY <2>3 DEF EntryText, TextAt
    <2>8. MonoFits' /\ ICFits'
      <3>1. ICFits'
        BY <2>3, <2>4, <2>5, <2>6, <2>7 DEF ICFits
      <3>2. QED
        BY <1>1, <3>1, SameCachesFit
    <2>9. QED
      BY <1>1, <2>5, <2>8, ReadPreserves DEF IInv, TypeOK
  <1>4. QED
    BY <1>2, <1>3

\* Of the lookups, those that write nothing, and an eviction.
LEMMA QuietPreserves ==
    ASSUME IInv, \/ \E k \in Key : Get(k) \/ Hang(k)
                 \/ EvictIC
                 \/ UNCHANGED vars
    PROVE  IInv'
  <1>1. /\ UNCHANGED <<dictVars, loop, pc, adjustVars, mono>>
        /\ ic' = ic \/ ic' = None
        /\ hung' \in BOOLEAN
    BY DEF Get, Hang, EvictIC, vars, IInv, TypeOK
  <1>2. MonoFits' /\ ICFits'
    BY <1>1, SameCachesFit DEF ICFits
  <1>3. QED
    BY <1>1, <1>2, ReadPreserves DEF IInv, TypeOK

\* The loop's promises hold of the entries it knew of.
LEMMA LoopStays ==
    ASSUME IInv, UNCHANGED loop,
           LiveEntries \subseteq LiveEntries',
           \A i \in LiveEntries : EntryText(i)' = EntryText(i),
           \A i \in LiveEntries' : i \in LiveEntries \/ EntryText(i)' \notin Texts
    PROVE  LoopKnows' /\ LoopExact'
  <1>1. Texts \subseteq Texts'
    BY DEF Texts
  <1>2. LoopKnows'
    BY <1>1 DEF IInv, LoopKnows
  <1>3. LoopExact'
    BY DEF IInv, LoopKnows, LoopExact
  <1>4. QED
    BY <1>2, <1>3

LEMMA SetPreserves ==
    ASSUME IInv, NEW k \in Key, NEW v \in Value, Set(k, v)
    PROVE  IInv'
  <1> DEFINE t == TextOf[k]
             found == Found(capacity, indices, entries, t)
  <1>1. /\ pc = "store" \/ (pc = "idle" /\ ~MustGrow)
        /\ pc' = "idle"
        /\ UNCHANGED <<capacity, ic, loop, adjustVars, hung>>
    BY DEF Set
  <1>2. /\ t \in Text /\ capacity \in Nat /\ entries \in Seq(Entry) /\ count \in Nat
        /\ version \in Nat
        /\ WellFormed(capacity, indices, entries)
        /\ indices \in [Slots(capacity) -> {TOMBSTONE_IDX} \cup 0..Len(entries)]
        /\ Len(entries) \in Nat
    BY DEF IInv, TypeOK, Text
  <1>3. Len(entries) + 1 <= capacity
    BY <1>1, <1>2 DEF IInv, LoadBounded, MustGrow
  <1>4. CASE found # {}
    <2>1. PICK s \in found :
            /\ entries' = [entries EXCEPT ![indices[s]].value = v]
            /\ mono' = [key |-> entries[indices[s]].key, value |-> v]
            /\ UNCHANGED <<indices, count, version>>
      BY <1>4 DEF Set
    <2> DEFINE n == indices[s]
    <2>2. n \in LiveEntries /\ n \in Alive(entries) /\ n \in 1..Len(entries)
      BY <1>2, <2>1, FoundIsHeld, LiveFinite
    <2>3. /\ entries' \in Seq(Entry) /\ Len(entries') = Len(entries)
          /\ \A i \in 1..Len(entries) : i # n => entries'[i] = entries[i]
          /\ entries'[n] = mono'
      <3>1. mono' \in Entry
        BY <2>1, <2>2, LiveFinite DEF Entry
      <3>2. [entries[n] EXCEPT !.value = v] = mono'
        BY <2>1, <2>2, LiveFinite
      <3>3. entries' = [entries EXCEPT ![n] = mono']
        BY <2>1, <3>2
      <3> HIDE DEF n
      <3>4. QED
        BY <1>2, <2>2, <3>1, <3>3
    <2>4. \A i \in 1..Len(entries) : entries'[i].key = entries[i].key
      BY <2>1, <2>2, <2>3
    <2>5. WellFormed(capacity, indices, entries') /\ LiveEntries' = LiveEntries
      <3>1. WellFormed(capacity, indices, entries') /\ Alive(entries') = Alive(entries)
        BY <1>2, <2>3, <2>4, OverwriteKeepsForm
      <3>2. QED
        BY <3>1, LiveFinite DEF LiveEntries, Alive
    <2>6. mono' \in [key : Key, value : Value]
      BY <2>1, <2>2, LiveFinite
    <2>7. TypeOK'
      BY <1>1, <2>1, <2>3, <2>6 DEF IInv, TypeOK, adjustVars
    <2>8. LoadBounded'
      BY <1>1, <2>1, <2>3 DEF IInv, LoadBounded
    <2>9. MonoFits'
      BY <2>2, <2>3, <2>5 DEF MonoFits
    <2>10. ICFits'
      BY <1>1, <2>1, <2>4, <2>5, LiveFinite DEF IInv, ICFits, TextAt
    <2>11. \A i \in LiveEntries : EntryText(i)' = EntryText(i)
      BY <2>4, LiveFinite DEF EntryText
    <2>12. LoopKnows' /\ LoopExact'
      BY <1>1, <2>5, <2>11, LoopStays
    <2>13. QED
      BY <1>1, <2>1, <2>5, <2>7, <2>8, <2>9, <2>10, <2>12 DEF IInv
  <1>5. CASE found = {}
    <2> DEFINE e == [key |-> k, value |-> v]
    <2>0. PICK n \in Nat : n = Len(entries) + 1
      BY <1>2
    <2>1. PICK s \in Slots(capacity) :
            /\ InsertSlot(capacity, indices, entries, t, s)
            /\ indices' = [indices EXCEPT ![s] = n]
            /\ entries' = Append(entries, e)
            /\ mono' = e
            /\ count' = count + 1
            /\ version' = version + 1
      BY <1>5, <2>0 DEF Set
    <2>2. ~(indices[s] > 0) /\ Reaches(capacity, indices, t, s)
      BY <1>2, <1>5, <2>1, InsertAt
    <2>3. \A i \in Alive(entries) : TextAt(entries, i) # t
      BY <1>2, <1>5, FoundIsHeld, LiveFinite
    <2>4. e \in [key : Key, value : Value] /\ e.key = k /\ TextOf[e.key] = t
      OBVIOUS
    <2> HIDE DEF e
    <2>5. Len(entries') = n /\ entries' \in Seq(Entry)
      BY <1>2, <2>0, <2>1, <2>4 DEF Entry
    <2>6. /\ indices' \in [Slots(capacity) -> {TOMBSTONE_IDX} \cup 0..Len(entries')]
          /\ \A r \in Slots(capacity) :
               indices'[r] = IF r = s THEN Len(entries') ELSE indices[r]
      BY <1>2, <2>0, <2>1, <2>5
    <2>7. /\ WellFormed(capacity, indices', entries')
          /\ Alive(entries') = Alive(entries) \cup {n}
          /\ n \notin Alive(entries)
          /\ \A i \in 1..Len(entries) : entries'[i] = entries[i]
          /\ entries'[n] = e
          /\ entries' \in Seq(Entry)
      <3>1. Appends(capacity, indices, entries, s, e, indices', entries')
        BY <2>1, <2>2, <2>3, <2>4, <2>6 DEF Appends
      <3>2. QED
        BY <1>2, <2>0, <3>1, AppendKeepsForm
    <2>8. LiveEntries' = LiveEntries \cup {n} /\ n \notin LiveEntries
      BY <2>7, LiveFinite DEF LiveEntries, Alive
    <2>9. TypeOK'
      <3>1. /\ indices' \in [Slots(capacity') -> {TOMBSTONE_IDX} \cup 0..Len(entries')]
            /\ count' \in Nat /\ version' \in Nat /\ mono' \in [key : Key, value : Value]
        BY <1>1, <1>2, <2>1, <2>4, <2>6
      <3>2. QED
        BY <1>1, <2>5, <3>1 DEF IInv, TypeOK, adjustVars
    <2>10. count' = Cardinality(LiveEntries')
      BY <2>1, <2>8, LiveFinite, FS_AddElement DEF IInv
    <2>11. LoadBounded'
      <3>1. Cardinality(Used(capacity, indices')) <= Cardinality(Used(capacity, indices)) + 1
        BY <1>2, <2>6, WriteUses
      <3>2. /\ Cardinality(Used(capacity, indices)) \in Nat
            /\ Cardinality(Used(capacity, indices')) \in Nat
        BY <1>2, UsedFinite
      <3>3. QED
        BY <1>1, <1>2, <1>3, <2>0, <2>5, <3>1, <3>2 DEF IInv, LoadBounded
    <2>12. MonoFits'
      BY <2>1, <2>7, <2>8 DEF MonoFits
    <2>13. ICFits'
      <3>1. ic # None => ic.version \in Nat /\ ic.version <= version
        BY DEF IInv, TypeOK, ICFits
      <3>2. QED
        BY <1>1, <1>2, <2>1, <3>1 DEF ICFits
    <2>14. \A i \in LiveEntries : EntryText(i)' = EntryText(i)
      BY <2>7, LiveFinite DEF EntryText
    <2>15. EntryText(n)' \notin Texts
      <3>1. EntryText(n)' = t
        BY <2>4, <2>7 DEF EntryText
      <3>2. QED
        BY <2>3, <3>1, LiveFinite DEF Texts
    <2>16. LoopKnows' /\ LoopExact'
      BY <1>1, <2>8, <2>14, <2>15, LoopStays
    <2>17. QED
      BY <1>1, <2>1, <2>7, <2>9, <2>10, <2>11, <2>12, <2>13, <2>16 DEF IInv
  <1>6. QED
    BY <1>4, <1>5

LEMMA DeletePreserves ==
    ASSUME IInv, NEW k \in Key, Delete(k)
    PROVE  IInv'
  <1> DEFINE t == TextOf[k]
             found == IF count = 0 THEN {} ELSE Found(capacity, indices, entries, t)
  <1>1. pc = "idle" /\ pc' = "idle" /\ UNCHANGED <<capacity, ic, adjustVars, hung>>
    BY DEF Delete
  <1>2. /\ t \in Text /\ capacity \in Nat /\ entries \in Seq(Entry) /\ count \in Nat
        /\ version \in Nat
        /\ WellFormed(capacity, indices, entries)
        /\ indices \in [Slots(capacity) -> {TOMBSTONE_IDX} \cup 0..Len(entries)]
        /\ Len(entries) \in Nat
    BY DEF IInv, TypeOK, Text
  <1>3. CASE found = {}
    <2>1. UNCHANGED <<indices, entries, count, version, mono, loop>>
      BY <1>3 DEF Delete
    <2>2. MonoFits' /\ ICFits'
      BY <1>1, <2>1, SameCachesFit DEF dictVars
    <2>3. QED
      BY <1>1, <2>1, <2>2, ReadPreserves DEF IInv, TypeOK, dictVars
  <1>4. CASE found # {}
    <2>1. PICK s \in Found(capacity, indices, entries, t) :
            /\ indices' = [indices EXCEPT ![s] = TOMBSTONE_IDX]
            /\ entries' = [entries EXCEPT ![indices[s]] = [key |-> Deleted, value |-> None]]
            /\ count' = count - 1
            /\ version' = version + 1
            /\ mono' = None
            /\ loop' = Without({t})
      BY <1>4 DEF Delete, ForgetMono
    <2>2. PICK n \in LiveEntries :
            s \in Slots(capacity) /\ indices[s] = n /\ EntryText(n) = t
      BY <1>2, <2>1, FoundIsHeld
    <2>0. n \in Alive(entries) /\ n \in 1..Len(entries)
      BY LiveFinite
    <2>3. /\ indices' \in [Slots(capacity) -> {TOMBSTONE_IDX} \cup 0..Len(entries)]
          /\ \A r \in Slots(capacity) : indices'[r] = IF r = s THEN TOMBSTONE_IDX ELSE indices[r]
      BY <1>2, <2>1
    <2>4. /\ entries' \in Seq(Entry) /\ Len(entries') = Len(entries)
          /\ entries'[n].key = Deleted
          /\ \A i \in 1..Len(entries) : i # n => entries'[i] = entries[i]
      <3> DEFINE gone == [key |-> Deleted, value |-> None]
      <3>1. gone \in Entry /\ gone.key = Deleted
        BY DEF Entry
      <3>2. entries' = [entries EXCEPT ![n] = gone]
        BY <2>1, <2>2
      <3> HIDE DEF gone
      <3>3. QED
        BY <1>2, <2>0, <3>1, <3>2
    <2>5. WellFormed(capacity, indices', entries') /\ LiveEntries' = LiveEntries \ {n}
      <3>1. Erases(capacity, indices, entries, s, n, indices', entries')
        BY <2>0, <2>2, <2>3, <2>4 DEF Erases
      <3>2. WellFormed(capacity, indices', entries') /\ Alive(entries') = Alive(entries) \ {n}
        BY <1>2, <3>1, EraseKeepsForm
      <3>3. QED
        BY <3>2, LiveFinite DEF LiveEntries, Alive
    <2>7. count' = Cardinality(LiveEntries') /\ count' \in Nat
      <3>1. Cardinality(LiveEntries') = count - 1 /\ IsFiniteSet(LiveEntries')
        BY <2>2, <2>5, LiveFinite, FS_RemoveElement DEF IInv
      <3>2. QED
        BY <2>1, <3>1, FS_CardinalityType
    <2>8. loop' = None \/ loop' \in [next : Nat, seen : SUBSET Text,
                                     owed : SUBSET Text, shifted : BOOLEAN]
      BY <2>1 DEF Without, IInv, TypeOK
    <2>9. TypeOK'
      <3>1. indices' \in [Slots(capacity') -> {TOMBSTONE_IDX} \cup 0..Len(entries')]
        BY <1>1, <2>3, <2>4
      <3>2. version' \in Nat /\ mono' = None /\ entries' \in Seq(Entry) /\ count' \in Nat
        BY <1>2, <2>1, <2>4, <2>7
      <3>3. QED
        BY <1>1, <2>8, <3>1, <3>2 DEF IInv, TypeOK, adjustVars
    <2>10. LoadBounded'
      <3>1. Used(capacity, indices') = Used(capacity, indices)
        BY <2>0, <2>2, <2>3 DEF Used, TOMBSTONE_IDX
      <3>2. QED
        BY <1>1, <2>4, <3>1 DEF IInv, LoadBounded
    <2>11. MonoFits'
      BY <2>1 DEF MonoFits
    <2>12. ICFits'
      <3>1. ic # None => ic.version \in Nat /\ ic.version <= version
        BY DEF IInv, TypeOK, ICFits
      <3>2. QED
        BY <1>1, <1>2, <2>1, <3>1 DEF ICFits
    <2>13. \A i \in LiveEntries' : EntryText(i)' = EntryText(i)
      BY <2>4, <2>5, LiveFinite DEF EntryText
    <2>14. Texts \ {t} \subseteq Texts'
      BY <2>2, <2>5, <2>13 DEF Texts
    <2>15. LoopKnows' /\ LoopExact'
      <3>1. CASE loop = None
        BY <2>1, <3>1 DEF Without, LoopKnows, LoopExact
      <3>2. CASE loop # None
        <4>1. /\ loop'.next = loop.next /\ loop'.shifted = loop.shifted
              /\ loop'.seen = loop.seen \ {t} /\ loop'.owed = loop.owed \ {t}
          BY <2>1, <3>2 DEF Without, IInv, TypeOK
        <4>2. LoopKnows'
          BY <2>14, <3>2, <4>1 DEF IInv, LoopKnows
        <4>3. LoopExact'
          BY <2>5, <2>13, <3>2, <4>1 DEF IInv, LoopExact
        <4>4. QED
          BY <4>2, <4>3
      <3>3. QED
        BY <3>1, <3>2
    <2>16. QED
      BY <1>1, <2>5, <2>7, <2>9, <2>10, <2>11, <2>12, <2>15 DEF IInv
  <1>5. QED
    BY <1>3, <1>4

LEMMA ClearPreserves ==
    ASSUME IInv, Clear
    PROVE  IInv'
  <1>1. /\ pc = "idle" /\ pc' = "idle" /\ UNCHANGED <<capacity, ic, adjustVars, hung>>
        /\ indices' = [s \in Slots(capacity) |-> 0] /\ entries' = <<>> /\ count' = 0
        /\ version' = version + 1 /\ mono' = None /\ loop' = Without(Text)
    BY DEF Clear, ForgetMono
  <1>2. capacity \in Nat /\ version \in Nat
    BY DEF IInv, TypeOK
  <1>3. LiveEntries' = {} /\ entries' \in Seq(Entry) /\ Len(entries') = 0
    BY <1>1 DEF LiveEntries
  <1>4. loop' = None \/ loop' \in [next : Nat, seen : SUBSET Text,
                                   owed : SUBSET Text, shifted : BOOLEAN]
    BY <1>1 DEF Without, IInv, TypeOK
  <1>5. indices' \in [Slots(capacity) -> {TOMBSTONE_IDX} \cup 0..Len(entries')]
    BY <1>1, <1>3
  <1>6. TypeOK'
    BY <1>1, <1>2, <1>3, <1>4, <1>5 DEF IInv, TypeOK, adjustVars
  <1>7. WellFormed(capacity', indices', entries')
    BY <1>1, <1>2, EmptyWellFormed
  <1>8. count' = Cardinality(LiveEntries')
    BY <1>1, <1>3, FS_EmptySet
  <1>9. LoadBounded'
    BY <1>1, <1>2, <1>3, NoneUsed DEF IInv, LoadBounded
  <1>10. MonoFits' /\ ICFits'
    <2>1. ic # None => ic.version \in Nat /\ ic.version <= version
      BY DEF IInv, TypeOK, ICFits
    <2>2. QED
      BY <1>1, <1>2, <2>1 DEF MonoFits, ICFits
  <1>11. LoopExact'
    BY <1>3 DEF LoopExact
  <1>12. LoopKnows'
    <2>1. CASE loop = None
      BY <1>1, <2>1 DEF Without, LoopKnows
    <2>2. CASE loop # None
      <3>1. loop'.seen = loop.seen \ Text /\ loop'.owed = loop.owed \ Text
        BY <1>1, <2>2 DEF Without, IInv, TypeOK
      <3>2. loop.seen \subseteq Text /\ loop.owed \subseteq Text
        BY <2>2 DEF IInv, TypeOK
      <3>3. QED
        BY <3>1, <3>2 DEF LoopKnows
    <2>3. QED
      BY <2>1, <2>2
  <1>13. QED
    BY <1>1, <1>6, <1>7, <1>8, <1>9, <1>10, <1>11, <1>12 DEF IInv
-----------------------------------------------------------------------------
(***************************************************************************)
(* Growth.                                                                 *)
(***************************************************************************)
LEMMA NewEntriesTyped ==
    ASSUME IInv
    PROVE  /\ newEntries \in Seq(Entry) /\ Len(newEntries) \in Nat
           /\ Alive(newEntries) = 1..Len(newEntries)
           /\ \A j \in 1..Len(newEntries) :
                newEntries[j] \in [key : Key, value : Value] /\ newEntries[j].key \in Key
  <1>1. newEntries \in Seq([key : Key, value : Value]) /\ Len(newEntries) \in Nat
    BY DEF IInv, TypeOK
  <1>2. \A j \in 1..Len(newEntries) :
          newEntries[j] \in [key : Key, value : Value] /\ newEntries[j].key \in Key
    <2>1. \A j \in 1..Len(newEntries) : newEntries[j] \in [key : Key, value : Value]
      <3> DEFINE Record == [key : Key, value : Value]
      <3>1. newEntries \in Seq(Record)
        BY <1>1
      <3> HIDE DEF Record
      <3>2. \A j \in 1..Len(newEntries) : newEntries[j] \in Record
        BY <3>1
      <3>3. QED
        BY <3>2 DEF Record
    <2>2. \A r \in [key : Key, value : Value] : r.key \in Key
      OBVIOUS
    <2>3. QED
      BY <2>1, <2>2
  <1>3. \A j \in 1..Len(newEntries) : newEntries[j] \in Entry
    BY <1>2 DEF Entry
  <1>4. newEntries \in Seq(Entry) /\ DOMAIN newEntries = 1..Len(newEntries)
    BY <1>1, <1>3
  <1>5. Alive(newEntries) = 1..Len(newEntries)
    BY <1>2, <1>4 DEF Alive, IsLive
  <1>6. QED
    BY <1>1, <1>2, <1>4, <1>5

LEMMA GrowPreserves ==
    ASSUME IInv, Grow
    PROVE  IInv'
  <1>1. /\ pc = "idle" /\ pc' = "adjust"
        /\ newCapacity' = GrownCapacity
        /\ newIndices' = [s \in Slots(GrownCapacity) |-> 0]
        /\ newEntries' = <<>> /\ next' = 0
        /\ UNCHANGED <<dictVars, mono, ic, loop, call, hung>>
    BY DEF Grow
  <1>2. capacity \in Nat /\ MinCapacity \in Nat \ {0} /\ Len(entries) \in Nat
    BY DEF IInv, TypeOK
  <1>3. GrownCapacity \in Nat /\ GrownCapacity >= MinCapacity /\ GrownCapacity > capacity
    BY <1>2 DEF GrownCapacity
  <1>4. LiveEntries' = LiveEntries /\ Texts' = Texts /\ \A i : EntryText(i)' = EntryText(i)
    BY <1>1 DEF LiveEntries, Texts, EntryText, dictVars
  <1>5. newIndices' \in [Slots(newCapacity') -> 0..Len(newEntries')] /\ Len(newEntries') = 0
    BY <1>1
  <1>6. newEntries' \in Seq([key : Key, value : Value])
    BY <1>1
  <1>7. TypeOK'
    BY <1>1, <1>3, <1>5, <1>6 DEF IInv, TypeOK, dictVars
  <1>8. Adjusting'
    <2>1. WellFormed(newCapacity', newIndices', newEntries')
      BY <1>1, <1>3, EmptyWellFormed
    <2>2. Cardinality(Used(newCapacity', newIndices')) = 0
      BY <1>1, <1>3, NoneUsed
    <2>3. newCapacity' > Len(entries') /\ newCapacity' >= MinCapacity
      BY <1>1, <1>2, <1>3 DEF IInv, LoadBounded, dictVars
    <2>4. \A i \in LiveEntries' : ~(i <= next')
      BY <1>1, <1>4, LiveFinite
    <2>5. next' <= Len(entries')
      BY <1>1, <1>2 DEF dictVars
    <2>6. QED
      BY <1>1, <1>5, <2>1, <2>2, <2>3, <2>4, <2>5 DEF Adjusting
  <1>9. MonoFits' /\ ICFits'
    BY <1>1, SameCachesFit
  <1>10. LoopKnows' /\ LoopExact'
    BY <1>1, <1>4 DEF IInv, LoopKnows, LoopExact
  <1>11. QED
    BY <1>1, <1>4, <1>7, <1>8, <1>9, <1>10 DEF IInv, LoadBounded, dictVars

\* What a step of the copying loop leaves alone.
LEMMA StepFrame ==
    ASSUME IInv, pc = "adjust", UNCHANGED <<dictVars, mono, ic, loop, pc, hung>>,
           TypeOK', Adjusting'
    PROVE  IInv'
  <1>1. LiveEntries' = LiveEntries /\ Texts' = Texts /\ \A i : EntryText(i)' = EntryText(i)
    BY DEF LiveEntries, Texts, EntryText, dictVars
  <1>2. MonoFits' /\ ICFits'
    BY SameCachesFit
  <1>3. LoopKnows' /\ LoopExact'
    BY <1>1 DEF IInv, LoopKnows, LoopExact
  <1>4. QED
    BY <1>1, <1>2, <1>3 DEF IInv, LoadBounded, dictVars

LEMMA SkipPreserves ==
    ASSUME IInv, Skip
    PROVE  IInv'
  <1>1. /\ pc = "adjust" /\ next < Len(entries) /\ ~IsLive(entries[next + 1])
        /\ next' = next + 1
        /\ UNCHANGED <<dictVars, mono, ic, loop, pc, newCapacity, newIndices, newEntries, call,
                       hung>>
    BY DEF Skip
  <1>2. next \in Nat /\ Len(entries) \in Nat /\ Len(newEntries) \in Nat
    BY DEF IInv, TypeOK
  <1>3. Adjusting
    BY <1>1 DEF IInv
  <1>4. LiveEntries' = LiveEntries /\ next + 1 \notin LiveEntries /\ LiveEntries \subseteq Nat
    BY <1>1, LiveFinite DEF LiveEntries, dictVars
  <1>5. TypeOK'
    BY <1>1, <1>2 DEF IInv, TypeOK, dictVars
  <1>6. \A n \in 1..(next + 1) : (\A i \in 1..n : i \in LiveEntries) => n \in 1..next
    BY <1>2, <1>4
  <1>7. \A i \in LiveEntries : i <= next + 1 <=> i <= next
    BY <1>2, <1>4
  <1>8. Adjusting'
    BY <1>1, <1>2, <1>3, <1>4, <1>6, <1>7 DEF Adjusting, dictVars
  <1>9. QED
    BY <1>1, <1>5, <1>8, StepFrame

LEMMA CopyPreserves ==
    ASSUME IInv, Copy
    PROVE  IInv'
  <1> DEFINE m == next + 1
             e == entries[m]
  <1>1. /\ pc = "adjust" /\ next < Len(entries) /\ IsLive(e)
        /\ next' = next + 1
        /\ UNCHANGED <<dictVars, mono, ic, loop, pc, newCapacity, call, hung>>
    BY DEF Copy
  <1>2. PICK s \in Slots(newCapacity) :
          /\ FirstFree(newCapacity, newIndices, TextOf[e.key], s)
          /\ newIndices' = [newIndices EXCEPT ![s] = Len(newEntries) + 1]
          /\ newEntries' = Append(newEntries, e)
    BY DEF Copy
  <1>3. /\ next \in Nat /\ Len(entries) \in Nat /\ Len(newEntries) \in Nat /\ newCapacity \in Nat
        /\ DOMAIN entries = 1..Len(entries)
        /\ newIndices \in [Slots(newCapacity) -> 0..Len(newEntries)]
    BY DEF IInv, TypeOK
  <1>4. Adjusting /\ WellFormed(newCapacity, newIndices, newEntries)
    BY <1>1 DEF IInv, Adjusting
  <1>5. /\ m \in LiveEntries /\ LiveEntries' = LiveEntries /\ entries' = entries
        /\ LiveEntries \subseteq Nat
    BY <1>1, <1>3, LiveFinite DEF LiveEntries, dictVars
  <1>6. e \in [key : Key, value : Value] /\ TextOf[e.key] \in Text /\ EntryText(m) = TextOf[e.key]
    BY <1>5, LiveFinite DEF EntryText
  <1>7. \A i, k \in LiveEntries : EntryText(i) = EntryText(k) => i = k
    BY LiveFinite DEF IInv, WellFormed
  <1> HIDE DEF e, m
  <1>8. \A j \in 1..Len(newEntries) : newEntries[j] # e
    <2>1. SUFFICES ASSUME NEW j \in 1..Len(newEntries), newEntries[j] = e PROVE FALSE
      OBVIOUS
    <2>2. PICK i \in LiveEntries : i <= next /\ newEntries[j] = entries[i]
      BY <1>4 DEF Adjusting
    <2>3. EntryText(i) = EntryText(m)
      BY <1>6, <2>1, <2>2 DEF EntryText
    <2>4. QED
      BY <1>3, <1>5, <1>7, <2>2, <2>3 DEF m
  <1>9. \A j \in Alive(newEntries) : TextAt(newEntries, j) # TextOf[e.key]
    <2>1. SUFFICES ASSUME NEW j \in 1..Len(newEntries), TextAt(newEntries, j) = TextOf[e.key]
                   PROVE  FALSE
      BY NewEntriesTyped
    <2>2. PICK i \in LiveEntries : i <= next /\ newEntries[j] = entries[i]
      BY <1>4 DEF Adjusting
    <2>3. EntryText(i) = EntryText(m)
      BY <1>6, <2>1, <2>2 DEF EntryText, TextAt
    <2>4. QED
      BY <1>3, <1>5, <1>7, <2>2, <2>3 DEF m
  <1>10. newIndices[s] = 0 /\ Reaches(newCapacity, newIndices, TextOf[e.key], s)
    BY <1>2 DEF FirstFree, Reaches
  <1>11. Len(newEntries') = Len(newEntries) + 1 /\ newEntries' \in Seq([key : Key, value : Value])
    BY <1>2, <1>6 DEF IInv, TypeOK
  <1>12. /\ newIndices' \in [Slots(newCapacity) -> 0..Len(newEntries')]
         /\ \A r \in Slots(newCapacity) :
              newIndices'[r] = IF r = s THEN Len(newEntries') ELSE newIndices[r]
    BY <1>2, <1>3, <1>11
  <1>13. Appends(newCapacity, newIndices, newEntries, s, e, newIndices', newEntries')
    <2>1. newIndices' \in [Slots(newCapacity) -> {TOMBSTONE_IDX} \cup 0..Len(newEntries')]
      BY <1>12
    <2>2. QED
      BY <1>2, <1>6, <1>9, <1>10, <1>12, <2>1 DEF Appends
  <1>14. /\ WellFormed(newCapacity, newIndices', newEntries')
         /\ \A j \in 1..Len(newEntries) : newEntries'[j] = newEntries[j]
         /\ newEntries'[Len(newEntries) + 1] = e
    BY <1>3, <1>4, <1>13, AppendKeepsForm, NewEntriesTyped
  <1>15. TypeOK'
    <2>1. next' \in Nat /\ newIndices' \in [Slots(newCapacity') -> 0..Len(newEntries')]
      BY <1>1, <1>3, <1>12
    <2>2. QED
      BY <1>1, <1>11, <2>1 DEF IInv, TypeOK, dictVars
  <1>16. Adjusting'
    <2>1. WellFormed(newCapacity', newIndices', newEntries')
      BY <1>1, <1>14
    <2>2. Cardinality(Used(newCapacity', newIndices')) <= Len(newEntries')
      <3>1. Cardinality(Used(newCapacity, newIndices')) <= Cardinality(Used(newCapacity, newIndices)) + 1
        BY <1>3, <1>12, WriteUses
      <3>2. /\ Cardinality(Used(newCapacity, newIndices)) \in Nat
            /\ Cardinality(Used(newCapacity, newIndices')) \in Nat
        BY <1>3, UsedFinite
      <3>3. QED
        BY <1>1, <1>3, <1>4, <1>11, <3>1, <3>2 DEF Adjusting
    <2>3. /\ newCapacity' > Len(entries') /\ newCapacity' >= MinCapacity /\ next' <= Len(entries')
          /\ Len(newEntries') <= next'
      BY <1>1, <1>3, <1>4, <1>5, <1>11 DEF Adjusting
    <2>4. \A j \in 1..Len(newEntries') :
            \E i \in LiveEntries : j <= i /\ i <= next' /\ newEntries'[j] = entries[i]
      <3>1. SUFFICES ASSUME NEW j \in 1..Len(newEntries')
                     PROVE  \E i \in LiveEntries : j <= i /\ i <= next' /\ newEntries'[j] = entries[i]
        OBVIOUS
      <3>2. CASE j \in 1..Len(newEntries)
        <4>1. PICK i \in LiveEntries : j <= i /\ i <= next /\ newEntries[j] = entries[i]
          BY <1>4, <3>2 DEF Adjusting
        <4>2. i <= next'
          BY <1>1, <1>3, <1>5, <4>1
        <4>3. QED
          BY <1>14, <3>2, <4>1, <4>2
      <3>3. CASE j = Len(newEntries) + 1
        <4>1. j <= m /\ m <= next'
          BY <1>1, <1>3, <1>4, <3>3 DEF Adjusting, m
        <4>2. QED
          BY <1>5, <1>14, <3>3, <4>1 DEF e
      <3>4. QED
        BY <1>3, <1>11, <3>2, <3>3
    <2>5. \A i \in LiveEntries : i <= next' =>
            \E j \in 1..Len(newEntries') : newEntries'[j] = entries[i]
      <3>1. SUFFICES ASSUME NEW i \in LiveEntries, i <= next'
                     PROVE  \E j \in 1..Len(newEntries') : newEntries'[j] = entries[i]
        OBVIOUS
      <3>2. CASE i <= next
        <4>1. PICK j \in 1..Len(newEntries) : newEntries[j] = entries[i]
          BY <1>4, <3>2 DEF Adjusting
        <4>2. j \in 1..Len(newEntries')
          BY <1>3, <1>11
        <4>3. QED
          BY <1>14, <4>1, <4>2
      <3>3. CASE i = m
        <4>1. Len(newEntries) + 1 \in 1..Len(newEntries')
          BY <1>3, <1>11
        <4>2. QED
          BY <1>14, <3>3, <4>1 DEF e
      <3>4. QED
        BY <1>1, <1>3, <1>5, <3>1, <3>2, <3>3 DEF m
    <2>6. ASSUME NEW i \in LiveEntries, NEW k \in LiveEntries,
                 NEW j \in 1..Len(newEntries'), NEW h \in 1..Len(newEntries'),
                 newEntries'[j] = entries[i], newEntries'[h] = entries[k], j < h
          PROVE  i < k
      <3>1. j \in 1..Len(newEntries) /\ newEntries[j] = entries[i]
        BY <1>3, <1>11, <1>14, <2>6
      <3>2. CASE h \in 1..Len(newEntries)
        <4>1. newEntries[h] = entries[k]
          BY <1>14, <2>6, <3>2
        <4>2. QED
          BY <1>4, <2>6, <3>1, <3>2, <4>1 DEF Adjusting
      <3>3. CASE h = Len(newEntries) + 1
        <4>1. EntryText(k) = EntryText(m)
          BY <1>6, <1>14, <2>6, <3>3 DEF EntryText
        <4>2. k = m
          BY <1>5, <1>7, <4>1
        <4>3. PICK x \in LiveEntries : x <= next /\ newEntries[j] = entries[x]
          BY <1>4, <3>1 DEF Adjusting
        <4>4. x = i
          BY <1>7, <3>1, <4>3 DEF EntryText
        <4>5. QED
          BY <1>3, <1>5, <4>2, <4>3, <4>4 DEF m
      <3>4. QED
        BY <1>3, <1>11, <3>2, <3>3
    <2>7. ASSUME NEW n \in 1..next', \A i \in 1..n : i \in LiveEntries
          PROVE  n <= Len(newEntries') /\ \A i \in 1..n : newEntries'[i] = entries[i]
      <3>1. CASE n <= next
        <4>1. n \in 1..next
          BY <1>3, <3>1
        <4>2. n <= Len(newEntries) /\ \A i \in 1..n : newEntries[i] = entries[i]
          BY <1>4, <2>7, <4>1 DEF Adjusting
        <4>3. \A i \in 1..n : i \in 1..Len(newEntries)
          BY <1>3, <4>2
        <4>4. QED
          BY <1>3, <1>11, <1>14, <4>2, <4>3
      <3>2. CASE n = next + 1
        <4>1. CASE next = 0
          <5>1. Len(newEntries) = 0
            BY <1>3, <1>4, <4>1 DEF Adjusting
          <5>2. QED
            BY <1>11, <1>14, <3>2, <4>1, <5>1 DEF e, m
        <4>2. CASE next # 0
          <5>1. next \in 1..next /\ \A i \in 1..next : i \in LiveEntries
            BY <1>3, <2>7, <3>2, <4>2
          <5>2. next <= Len(newEntries) /\ \A i \in 1..next : newEntries[i] = entries[i]
            BY <1>4, <5>1 DEF Adjusting
          <5>3. Len(newEntries) = next
            BY <1>3, <1>4, <5>2 DEF Adjusting
          <5>4. ASSUME NEW i \in 1..n
                PROVE  newEntries'[i] = entries[i]
            <6>1. CASE i \in 1..next
              BY <1>14, <5>2, <5>3, <6>1
            <6>2. CASE i = next + 1
              BY <1>14, <5>3, <6>2 DEF e, m
            <6>3. QED
              BY <1>3, <3>2, <6>1, <6>2
          <5>5. QED
            BY <1>11, <3>2, <5>3, <5>4
        <4>3. QED
          BY <4>1, <4>2
      <3>3. QED
        BY <1>1, <1>3, <3>1, <3>2
    <2>8. QED
      BY <1>5, <2>1, <2>2, <2>3, <2>4, <2>5, <2>6, <2>7 DEF Adjusting
  <1>17. QED
    BY <1>1, <1>15, <1>16, StepFrame

LEMMA AdoptPreserves ==
    ASSUME IInv, Adopt
    PROVE  IInv'
  <1>1. /\ pc = "adjust" /\ next = Len(entries) /\ pc' = "store"
        /\ capacity' = newCapacity /\ indices' = newIndices /\ entries' = newEntries
        /\ count' = Len(newEntries) /\ version' = version + 1 /\ mono' = None
        /\ loop' = Shifted
        /\ newCapacity' = 0 /\ newIndices' = [s \in {} |-> 0] /\ newEntries' = <<>> /\ next' = 0
        /\ UNCHANGED <<ic, hung>>
    BY DEF Adopt, ForgetMono, GrownVersion
  <1>2. /\ newCapacity \in Nat /\ Len(newEntries) \in Nat /\ Len(entries) \in Nat
        /\ version \in Nat
        /\ newIndices \in [Slots(newCapacity) -> 0..Len(newEntries)]
        /\ newEntries \in Seq(Entry)
    BY NewEntriesTyped DEF IInv, TypeOK
  <1>3. Adjusting
    BY <1>1 DEF IInv
  <1>4. LiveEntries' = 1..Len(newEntries) /\ LiveEntries \subseteq 1..Len(entries)
    BY <1>1, NewEntriesTyped, LiveFinite DEF LiveEntries, Alive
  <1>5. \A j \in 1..Len(newEntries) :
          \E i \in LiveEntries : j <= i /\ newEntries[j] = entries[i] /\ EntryText(j)' = EntryText(i)
    BY <1>1, <1>3 DEF Adjusting, EntryText
  <1>6. \A i \in LiveEntries : \E j \in 1..Len(newEntries) :
          newEntries[j] = entries[i] /\ EntryText(j)' = EntryText(i)
    <2>1. \A i \in LiveEntries : i <= next
      BY <1>1, <1>4
    <2>2. QED
      BY <1>1, <1>3, <2>1 DEF Adjusting, EntryText
  <1>7. loop' = None \/ loop' \in [next : Nat, seen : SUBSET Text,
                                   owed : SUBSET Text, shifted : BOOLEAN]
    BY <1>1 DEF Shifted, IInv, TypeOK
  <1>8. TypeOK'
    <2>1. newIndices' \in [Slots(newCapacity') -> 0..Len(newEntries')]
      BY <1>1 DEF Slots
    <2>2. newEntries' \in Seq([key : Key, value : Value])
      BY <1>1
    <2>3. indices' \in [Slots(capacity') -> {TOMBSTONE_IDX} \cup 0..Len(entries')]
      BY <1>1, <1>2
    <2>4. capacity' \in Nat /\ count' \in Nat /\ version' \in Nat /\ entries' \in Seq(Entry)
      BY <1>1, <1>2
    <2>5. QED
      BY <1>1, <1>7, <2>1, <2>2, <2>3, <2>4 DEF IInv, TypeOK
  <1>9. WellFormed(capacity', indices', entries')
    BY <1>1, <1>3 DEF Adjusting
  <1>10. count' = Cardinality(LiveEntries')
    <2>1. PICK n \in Nat : n = Len(newEntries)
      BY <1>2
    <2>2. Cardinality(1..n) = n
      BY FS_Interval
    <2>3. QED
      BY <1>1, <1>4, <2>1, <2>2
  <1>11. LoadBounded'
    BY <1>1, <1>2, <1>3 DEF Adjusting, LoadBounded
  <1>12. MonoFits' /\ ICFits'
    <2>1. ic # None => ic.version \in Nat /\ ic.version <= version
      BY DEF IInv, TypeOK, ICFits
    <2>2. QED
      BY <1>1, <1>2, <2>1 DEF MonoFits, ICFits
  <1>13. CASE loop = None
    <2>1. loop' = None
      BY <1>1, <1>13 DEF Shifted
    <2>2. QED
      BY <1>1, <1>8, <1>9, <1>10, <1>11, <1>12, <2>1 DEF IInv, LoopKnows, LoopExact
  <1>14. CASE loop # None
    <2>1. /\ loop'.next = loop.next /\ loop'.seen = loop.seen /\ loop'.owed = loop.owed
          /\ ~loop'.shifted => ~loop.shifted /\ \A i \in DOMAIN entries :
                                                  i <= loop.next => IsLive(entries[i])
          /\ loop.next \in Nat
      BY <1>1, <1>14 DEF Shifted, IInv, TypeOK
    <2>2. Texts \subseteq Texts'
      BY <1>4, <1>6 DEF Texts
    <2>3. LoopKnows'
      BY <1>14, <2>1, <2>2 DEF IInv, LoopKnows
    <2>4. ASSUME NEW j \in 1..Len(newEntries), EntryText(j)' \in loop.seen
          PROVE  j <= loop.next
      <3>1. PICK i \in LiveEntries : j <= i /\ EntryText(j)' = EntryText(i)
        BY <1>5
      <3>2. i <= loop.next
        BY <1>14, <2>4, <3>1 DEF IInv, LoopExact
      <3>3. QED
        BY <1>4, <2>1, <3>1, <3>2
    <2>5. ASSUME NEW j \in 1..Len(newEntries), EntryText(j)' \in loop.owed, ~loop'.shifted
          PROVE  j > loop.next
      <3>1. PICK i \in LiveEntries :
              j <= i /\ newEntries[j] = entries[i] /\ EntryText(j)' = EntryText(i)
        BY <1>5
      <3>2. i > loop.next
        BY <1>14, <2>1, <2>5, <3>1 DEF IInv, LoopExact
      <3>3. SUFFICES ASSUME j <= loop.next PROVE FALSE
        BY <2>1
      <3>4. \A x \in 1..j : x \in LiveEntries
        <4>1. \A x \in 1..j : x \in 1..Len(entries) /\ x <= loop.next
          BY <1>2, <1>4, <2>1, <3>1, <3>3
        <4>2. DOMAIN entries = 1..Len(entries)
          BY DEF IInv, TypeOK
        <4>3. QED
          BY <2>1, <2>5, <4>1, <4>2 DEF LiveEntries
      <3>5. j \in 1..next
        BY <1>1, <1>2, <1>4, <3>1
      <3>6. newEntries[j] = entries[j] /\ j \in LiveEntries
        BY <1>3, <3>4, <3>5 DEF Adjusting
      <3>7. TextAt(entries, j) = TextAt(entries, i) /\ i \in Alive(entries) /\ j \in Alive(entries)
        BY <3>1, <3>6, LiveFinite DEF TextAt
      <3>8. i = j
        BY <3>7 DEF IInv, WellFormed
      <3>9. QED
        BY <1>4, <2>1, <3>2, <3>3, <3>8
    <2>6. LoopExact'
      BY <1>4, <2>1, <2>4, <2>5 DEF LoopExact
    <2>7. QED
      BY <1>1, <1>8, <1>9, <1>10, <1>11, <1>12, <2>3, <2>6 DEF IInv
  <1>15. QED
    BY <1>13, <1>14
-----------------------------------------------------------------------------
(***************************************************************************)
(* Loops over the dict.                                                    *)
(***************************************************************************)
LEMMA LoopStep ==
    ASSUME IInv, UNCHANGED <<dictVars, mono, ic, pc, adjustVars, hung>>,
           loop' = None \/ loop' \in [next : Nat, seen : SUBSET Text,
                                      owed : SUBSET Text, shifted : BOOLEAN],
           LoopKnows', LoopExact'
    PROVE  IInv'
  <1>1. LiveEntries' = LiveEntries /\ \A i : EntryText(i)' = EntryText(i)
    BY DEF LiveEntries, EntryText, dictVars
  <1>2. TypeOK'
    BY DEF IInv, TypeOK, dictVars, adjustVars
  <1>3. LoadBounded' /\ (pc' = "adjust" => Adjusting')
    BY <1>1 DEF IInv, LoadBounded, Adjusting, dictVars, adjustVars
  <1>4. MonoFits' /\ ICFits'
    BY SameCachesFit
  <1>5. QED
    BY <1>1, <1>2, <1>3, <1>4 DEF IInv, dictVars

LEMMA IterPrepPreserves ==
    ASSUME IInv, IterPrep
    PROVE  IInv'
  <1>1. /\ loop' = [next |-> 0, seen |-> {}, shifted |-> FALSE, owed |-> Texts]
        /\ UNCHANGED <<dictVars, mono, ic, pc, adjustVars, hung>>
    BY DEF IterPrep
  <1>2. LiveEntries' = LiveEntries /\ Texts' = Texts
    BY <1>1 DEF LiveEntries, Texts, EntryText, dictVars
  <1>3. Texts \subseteq Text
    BY LiveFinite DEF Texts
  <1>4. /\ loop' \in [next : Nat, seen : SUBSET Text, owed : SUBSET Text, shifted : BOOLEAN]
        /\ loop'.next = 0 /\ loop'.seen = {} /\ loop'.owed = Texts
    BY <1>1, <1>3
  <1>5. \A i \in LiveEntries : i > 0
    BY LiveFinite
  <1>6. LoopKnows' /\ LoopExact'
    BY <1>2, <1>4, <1>5 DEF LoopKnows, LoopExact
  <1>7. QED
    BY <1>1, <1>4, <1>6, LoopStep

LEMMA IterNextPreserves ==
    ASSUME IInv, IterNext
    PROVE  IInv'
  <1>1. loop # None /\ UNCHANGED <<dictVars, mono, ic, pc, adjustVars, hung>>
    BY DEF IterNext
  <1>2. LiveEntries' = LiveEntries /\ Texts' = Texts /\ \A i : EntryText(i)' = EntryText(i)
    BY <1>1 DEF LiveEntries, Texts, EntryText, dictVars
  <1>3. CASE Ahead = {}
    <2>1. loop' = None
      BY <1>3 DEF IterNext
    <2>2. QED
      BY <1>1, <2>1, LoopStep DEF LoopKnows, LoopExact
  <1>4. CASE Ahead # {}
    <2>1. PICK i \in Ahead :
            /\ \A j \in Ahead : i <= j
            /\ loop' = [loop EXCEPT !.next = i, !.seen = @ \cup {EntryText(i)},
                                    !.owed = @ \ {EntryText(i)}]
      BY <1>4 DEF IterNext, IndexAfter
    <2>2. i \in LiveEntries /\ i > loop.next /\ EntryText(i) \in Text /\ LiveEntries \subseteq Nat
      BY LiveFinite DEF Ahead
    <2>3. loop \in [next : Nat, seen : SUBSET Text, owed : SUBSET Text, shifted : BOOLEAN]
      BY <1>1 DEF IInv, TypeOK
    <2>4. /\ loop' \in [next : Nat, seen : SUBSET Text, owed : SUBSET Text, shifted : BOOLEAN]
          /\ loop'.next = i /\ loop'.seen = loop.seen \cup {EntryText(i)}
          /\ loop'.owed = loop.owed \ {EntryText(i)} /\ loop'.shifted = loop.shifted
      BY <2>1, <2>2, <2>3
    <2>5. EntryText(i) \in Texts
      BY <2>2 DEF Texts
    <2>6. LoopKnows'
      BY <1>1, <1>2, <2>4, <2>5 DEF IInv, LoopKnows
    <2>7. \A j \in LiveEntries : EntryText(j) = EntryText(i) => j = i
      BY <2>2, LiveFinite DEF IInv, WellFormed
    <2>8. ASSUME NEW j \in LiveEntries
          PROVE  /\ EntryText(j) \in loop'.seen => j <= loop'.next
                 /\ EntryText(j) \in loop'.owed /\ ~loop'.shifted => j > loop'.next
      <3>1. ASSUME EntryText(j) \in loop'.seen
            PROVE  j <= loop'.next
        <4>1. CASE EntryText(j) = EntryText(i)
          BY <2>2, <2>4, <2>7, <4>1
        <4>2. CASE EntryText(j) \in loop.seen
          BY <1>1, <2>2, <2>3, <2>4, <4>2 DEF IInv, LoopExact
        <4>3. QED
          BY <2>4, <3>1, <4>1, <4>2
      <3>2. ASSUME EntryText(j) \in loop'.owed, ~loop'.shifted
            PROVE  j > loop'.next
        <4>1. j > loop.next /\ j # i
          BY <1>1, <2>4, <3>2 DEF IInv, LoopExact
        <4>2. i <= j
          BY <2>1, <4>1 DEF Ahead
        <4>3. QED
          BY <2>2, <2>4, <4>1, <4>2
      <3>3. QED
        BY <3>1, <3>2
    <2>9. LoopExact'
      BY <1>2, <2>8 DEF LoopExact
    <2>10. QED
      BY <1>1, <2>4, <2>6, <2>9, LoopStep
  <1>5. QED
    BY <1>3, <1>4
-----------------------------------------------------------------------------
LEMMA NextPreserves == IInv /\ [Next]_vars => IInv'
  <1> SUFFICES ASSUME IInv, [Next]_vars PROVE IInv'
    OBVIOUS
  <1>1. ASSUME NEW k \in Key, NEW v \in Value, Set(k, v) PROVE IInv'
    BY <1>1, SetPreserves
  <1>2. ASSUME NEW k \in Key, Delete(k) PROVE IInv'
    BY <1>2, DeletePreserves
  <1>3. ASSUME NEW k \in Key, GetMono(k) PROVE IInv'
    BY <1>3, GetMonoPreserves
  <1>4. ASSUME NEW k \in Key, GetCached(k) PROVE IInv'
    BY <1>4, GetCachedPreserves
  <1>5. CASE Clear
    BY <1>5, ClearPreserves
  <1>6. CASE Grow
    BY <1>6, GrowPreserves
  <1>7. CASE Skip
    BY <1>7, SkipPreserves
  <1>8. CASE Copy
    BY <1>8, CopyPreserves
  <1>9. CASE Adopt
    BY <1>9, AdoptPreserves
  <1>10. CASE IterPrep
    BY <1>10, IterPrepPreserves
  <1>11. CASE IterNext
    BY <1>11, IterNextPreserves
  <1>12. CASE (\E k \in Key : Get(k) \/ Hang(k)) \/ EvictIC \/ UNCHANGED vars
    BY <1>12, QuietPreserves
  <1>13. QED
    BY <1>1, <1>2, <1>3, <1>4, <1>5, <1>6, <1>7, <1>8, <1>9, <1>10, <1>11, <1>12 DEF Next

\* The invariant holds of every run.
THEOREM Invariance == Spec => []IInv
  <1>1. QED
    BY InitInvariant, NextPreserves, PTL DEF Spec

\* dict_set always comes to the end of its probe, for every hash function and
\* every order of stores, deletions and clears: the arrays never run out of
\* empty slots before the growth condition sees it.
THEOREM StoresEnd == Spec => []StoreEnds
  <1>1. IInv => StoreEnds
    <2> SUFFICES ASSUME IInv PROVE StoreEnds
      OBVIOUS
    <2>1. capacity \in Nat /\ newCapacity \in Nat /\ Len(entries) \in Nat /\ Len(newEntries) \in Nat
      BY DEF IInv, TypeOK
    <2>2. /\ Cardinality(Used(capacity, indices)) \in Nat
          /\ Cardinality(Used(newCapacity, newIndices)) \in Nat
      BY <2>1, UsedFinite
    <2>3. ASSUME pc = "store" \/ (pc = "idle" /\ ~MustGrow), NEW t \in Text
          PROVE  ProbeEnds(capacity, indices, entries, t)
      <3>1. Len(entries) < capacity
        BY <2>1, <2>3 DEF IInv, LoadBounded, MustGrow
      <3>2. Cardinality(Used(capacity, indices)) < capacity
        BY <2>1, <2>2, <3>1 DEF IInv, LoadBounded
      <3>3. QED
        BY <2>1, <3>2, RoomEndsProbe
    <2>4. ASSUME pc = "adjust"
          PROVE  \E s \in Slots(newCapacity) : newIndices[s] = 0
      <3>1. Cardinality(Used(newCapacity, newIndices)) < newCapacity
        BY <2>1, <2>2, <2>4 DEF IInv, Adjusting, TypeOK
      <3>2. QED
        BY <2>1, <3>1, UsedFinite
    <2>5. QED
      BY <2>3, <2>4 DEF StoreEnds
  <1>2. QED
    BY <1>1, Invariance, PTL

\* Neither cache ever answers for an entry that has moved, was deleted or was
\* overwritten, whatever was stored, deleted or grown in between.
THEOREM CachesCorrect == Spec => []CachesCoherent
  <1>1. IInv => CachesCoherent
    <2> SUFFICES ASSUME IInv PROVE CachesCoherent
      OBVIOUS
    <2>1. IndexConsistent
      <3>1. \A s \in Slots(capacity) : indices[s] > 0 => indices[s] \in LiveEntries
        BY LiveFinite DEF IInv, WellFormed
      <3>2. \A i \in LiveEntries : \E s \in Slots(capacity) : indices[s] = i
        BY LiveFinite DEF IInv, WellFormed
      <3>3. \A i \in LiveEntries : \A s, r \in Slots(capacity) :
              indices[s] = i /\ indices[r] = i => s = r
        BY LiveFinite DEF IInv, WellFormed
      <3>4. \A i, j \in LiveEntries : EntryText(i) = EntryText(j) => i = j
        BY LiveFinite DEF IInv, WellFormed
      <3>5. QED
        BY <3>1, <3>2, <3>3, <3>4 DEF IndexConsistent, IInv
    <2>2. LiveEntries \subseteq DOMAIN entries
      BY DEF LiveEntries
    <2>3. QED
      BY <2>1, <2>2 DEF CachesCoherent, IInv, MonoFits, ICFits, EntryText, TextAt
  <1>2. QED
    BY <1>1, Invariance, PTL

\* A loop over a dict comes to each key that stays once, however the dict
\* changes and grows while it runs.
THEOREM LoopsMeetEachOnce == Spec => []LoopExact
  <1>1. IInv => LoopExact
    BY DEF IInv
  <1>2. QED
    BY <1>1, Invariance, PTL
-----------------------------------------------------------------------------
(***************************************************************************)
(* The refinement.  What OrderedMap sees of the dict is a function of the  *)
(* entry array alone.                                                      *)
(***************************************************************************)
TextsOf(es) == {TextAt(es, i) : i \in Alive(es)}

ContentsOf(es) ==
    [t \in TextsOf(es) |-> es[CHOOSE i \in Alive(es) : TextAt(es, i) = t].value]

OrderOf(es) ==
    {p \in Text \X Text :
        \E i, j \in Alive(es) : i < j /\ p = <<TextAt(es, i), TextAt(es, j)>>}

TextsUnique(es) == \A i, j \in Alive(es) : TextAt(es, i) = TextAt(es, j) => i = j

LEMMA MapIs ==
    /\ Texts = TextsOf(entries) /\ Texts' = TextsOf(entries')
    /\ Contents = ContentsOf(entries) /\ Contents' = ContentsOf(entries')
    /\ Order = OrderOf(entries) /\ Order' = OrderOf(entries')
  <1>1. Texts = TextsOf(entries) /\ Texts' = TextsOf(entries')
    BY DEF Texts, TextsOf, LiveEntries, EntryText, Alive, TextAt
  <1>2. Contents = ContentsOf(entries) /\ Contents' = ContentsOf(entries')
    BY DEF Contents, ContentsOf, Texts, TextsOf, LiveEntries, EntryText, Alive, TextAt
  <1>3. Order = OrderOf(entries) /\ Order' = OrderOf(entries')
    BY DEF Order, OrderOf, LiveEntries, EntryText, Alive, TextAt
  <1>4. QED
    BY <1>1, <1>2, <1>3

LEMMA ContentsAt ==
    ASSUME NEW es \in Seq(Entry), TextsUnique(es)
    PROVE  /\ DOMAIN ContentsOf(es) = TextsOf(es)
           /\ ContentsOf(es) = [t \in TextsOf(es) |-> ContentsOf(es)[t]]
           /\ \A i \in Alive(es) : /\ TextAt(es, i) \in TextsOf(es)
                                   /\ ContentsOf(es)[TextAt(es, i)] = es[i].value
  <1>1. DOMAIN ContentsOf(es) = TextsOf(es)
    BY DEF ContentsOf
  <1>2. ContentsOf(es) = [t \in TextsOf(es) |-> ContentsOf(es)[t]]
    BY DEF ContentsOf
  <1>3. ASSUME NEW i \in Alive(es)
        PROVE  TextAt(es, i) \in TextsOf(es) /\ ContentsOf(es)[TextAt(es, i)] = es[i].value
    <2>1. TextAt(es, i) \in TextsOf(es)
      BY DEF TextsOf
    <2> DEFINE c == CHOOSE x \in Alive(es) : TextAt(es, x) = TextAt(es, i)
    <2>2. c \in Alive(es) /\ TextAt(es, c) = TextAt(es, i)
      OBVIOUS
    <2>3. c = i
      BY <2>2 DEF TextsUnique
    <2>4. ContentsOf(es)[TextAt(es, i)] = es[c].value
      BY <2>1 DEF ContentsOf
    <2>5. QED
      BY <2>1, <2>3, <2>4
  <1>4. QED
    BY <1>1, <1>2, <1>3

LEMMA OrderAt ==
    ASSUME NEW es \in Seq(Entry), NEW t \in Text, NEW u \in Text
    PROVE  <<t, u>> \in OrderOf(es) <=>
             \E i, j \in Alive(es) : i < j /\ t = TextAt(es, i) /\ u = TextAt(es, j)
  BY DEF OrderOf

\* The same entries at other places, in the same order: the same map.
LEMMA MoveKeepsMap ==
    ASSUME NEW es \in Seq(Entry), TextsUnique(es), NEW es2 \in Seq(Entry), TextsUnique(es2),
           \A j \in Alive(es2) : \E i \in Alive(es) : es2[j] = es[i],
           \A i \in Alive(es) : \E j \in Alive(es2) : es2[j] = es[i],
           \A i, k \in Alive(es) : \A j, h \in Alive(es2) :
             es2[j] = es[i] /\ es2[h] = es[k] /\ j < h => i < k
    PROVE  ContentsOf(es2) = ContentsOf(es) /\ OrderOf(es2) = OrderOf(es)
  <1>1. TextsOf(es2) = TextsOf(es)
    BY DEF TextsOf, TextAt
  <1>2. ASSUME NEW t \in TextsOf(es2)
        PROVE  ContentsOf(es2)[t] = ContentsOf(es)[t]
    <2>1. PICK j \in Alive(es2) : TextAt(es2, j) = t
      BY DEF TextsOf
    <2>2. PICK i \in Alive(es) : es2[j] = es[i]
      OBVIOUS
    <2>3. TextAt(es, i) = t
      BY <2>1, <2>2 DEF TextAt
    <2>4. QED
      BY <2>1, <2>2, <2>3, ContentsAt
  <1>3. ContentsOf(es2) = ContentsOf(es)
    BY <1>1, <1>2, ContentsAt
  <1>4. ASSUME NEW t \in Text, NEW u \in Text
        PROVE  <<t, u>> \in OrderOf(es2) <=> <<t, u>> \in OrderOf(es)
    <2>1. ASSUME NEW j \in Alive(es2), NEW h \in Alive(es2), j < h,
                 t = TextAt(es2, j), u = TextAt(es2, h)
          PROVE  \E i, k \in Alive(es) : i < k /\ t = TextAt(es, i) /\ u = TextAt(es, k)
      <3>1. PICK i \in Alive(es) : es2[j] = es[i]
        OBVIOUS
      <3>2. PICK k \in Alive(es) : es2[h] = es[k]
        OBVIOUS
      <3>3. i < k
        BY <2>1, <3>1, <3>2
      <3>4. QED
        BY <2>1, <3>1, <3>2, <3>3 DEF TextAt
    <2>2. ASSUME NEW i \in Alive(es), NEW k \in Alive(es), i < k,
                 t = TextAt(es, i), u = TextAt(es, k)
          PROVE  \E j, h \in Alive(es2) : j < h /\ t = TextAt(es2, j) /\ u = TextAt(es2, h)
      <3>1. PICK j \in Alive(es2) : es2[j] = es[i]
        OBVIOUS
      <3>2. PICK h \in Alive(es2) : es2[h] = es[k]
        OBVIOUS
      <3>3. i \in Int /\ k \in Int /\ j \in Int /\ h \in Int
        BY AliveText
      <3>4. j # h
        <4>1. ASSUME j = h PROVE FALSE
          <5>1. TextAt(es, i) = TextAt(es, k)
            BY <3>1, <3>2, <4>1 DEF TextAt
          <5>2. QED
            BY <2>2, <3>3, <5>1 DEF TextsUnique
        <4>2. QED
          BY <4>1
      <3>5. ~(h < j)
        <4>1. ASSUME h < j PROVE FALSE
          <5>1. k < i
            BY <3>1, <3>2, <4>1
          <5>2. QED
            BY <2>2, <3>3, <5>1
        <4>2. QED
          BY <4>1
      <3>6. j < h
        BY <3>3, <3>4, <3>5
      <3>7. QED
        BY <2>2, <3>1, <3>2, <3>6 DEF TextAt
    <2>3. QED
      BY <2>1, <2>2, OrderAt
  <1>5. OrderOf(es2) = OrderOf(es)
    <2>1. OrderOf(es2) \subseteq Text \X Text /\ OrderOf(es) \subseteq Text \X Text
      BY DEF OrderOf
    <2>2. \A p \in Text \X Text : p \in OrderOf(es2) <=> p \in OrderOf(es)
      BY <1>4
    <2>3. QED
      BY <2>1, <2>2
  <1>6. QED
    BY <1>3, <1>5

\* A new value at the same place.
LEMMA OverwriteMaps ==
    ASSUME NEW es \in Seq(Entry), TextsUnique(es), NEW es2 \in Seq(Entry),
           Alive(es2) = Alive(es), NEW n \in Alive(es),
           \A i \in Alive(es) : i # n => es2[i] = es[i],
           es2[n].key = es[n].key
    PROVE  /\ TextsOf(es2) = TextsOf(es) /\ TextAt(es, n) \in TextsOf(es)
           /\ \A u \in TextsOf(es) : ContentsOf(es2)[u] =
                IF u = TextAt(es, n) THEN es2[n].value ELSE ContentsOf(es)[u]
           /\ OrderOf(es2) = OrderOf(es)
  <1> DEFINE t == TextAt(es, n)
  <1>1. \A i \in Alive(es) : TextAt(es2, i) = TextAt(es, i)
    BY DEF TextAt
  <1>2. TextsUnique(es2)
    BY <1>1 DEF TextsUnique
  <1>3. TextsOf(es2) = TextsOf(es) /\ t \in TextsOf(es)
    BY <1>1 DEF TextsOf
  <1> HIDE DEF t
  <1>4. ASSUME NEW u \in TextsOf(es)
        PROVE  ContentsOf(es2)[u] = IF u = t THEN es2[n].value ELSE ContentsOf(es)[u]
    <2>1. PICK i \in Alive(es) : TextAt(es, i) = u
      BY DEF TextsOf
    <2>2. ContentsOf(es2)[u] = es2[i].value /\ ContentsOf(es)[u] = es[i].value
      BY <1>1, <1>2, <2>1, ContentsAt
    <2>3. u = t <=> i = n
      BY <2>1 DEF t, TextsUnique
    <2>4. QED
      BY <2>2, <2>3
  <1>5. OrderOf(es2) = OrderOf(es)
    BY <1>1 DEF OrderOf
  <1>6. QED
    BY <1>3, <1>4, <1>5 DEF t

\* A new text at the end.
Extends(es, n, es2) ==
    /\ Alive(es2) = Alive(es) \cup {n}
    /\ \A i \in Alive(es) : i < n /\ es2[i] = es[i]

LEMMA AppendMaps ==
    ASSUME NEW es \in Seq(Entry), TextsUnique(es), NEW es2 \in Seq(Entry), TextsUnique(es2),
           NEW n, Extends(es, n, es2)
    PROVE  /\ TextsOf(es2) = TextsOf(es) \cup {TextAt(es2, n)}
           /\ TextAt(es2, n) \notin TextsOf(es)
           /\ \A u \in TextsOf(es2) : ContentsOf(es2)[u] =
                IF u = TextAt(es2, n) THEN es2[n].value ELSE ContentsOf(es)[u]
           /\ OrderOf(es2) = OrderOf(es) \cup (TextsOf(es) \X {TextAt(es2, n)})
  <1> USE DEF Extends
  <1> DEFINE t == TextAt(es2, n)
  <1>1. /\ \A i \in Alive(es) : TextAt(es2, i) = TextAt(es, i)
        /\ n \in Int /\ \A i \in Alive(es) : i \in Int /\ i < n
        /\ n \in Alive(es2)
    BY AliveText DEF TextAt
  <1>2. t \notin TextsOf(es)
    <2>1. ASSUME NEW i \in Alive(es), TextAt(es, i) = t PROVE FALSE
      <3>1. i = n
        BY <1>1, <2>1 DEF TextsUnique
      <3>2. QED
        BY <1>1, <3>1
    <2>2. QED
      BY <2>1 DEF TextsOf
  <1>3. TextsOf(es2) = TextsOf(es) \cup {t}
    BY <1>1 DEF TextsOf
  <1> HIDE DEF t
  <1>4. ASSUME NEW u \in TextsOf(es2)
        PROVE  ContentsOf(es2)[u] = IF u = t THEN es2[n].value ELSE ContentsOf(es)[u]
    <2>1. CASE u = t
      BY <1>1, <2>1, ContentsAt DEF t
    <2>2. CASE u # t
      <3>1. PICK i \in Alive(es) : TextAt(es, i) = u
        BY <1>3, <2>2 DEF TextsOf
      <3>2. ContentsOf(es2)[u] = es2[i].value /\ ContentsOf(es)[u] = es[i].value
        BY <1>1, <3>1, ContentsAt
      <3>3. QED
        BY <2>2, <3>1, <3>2
    <2>3. QED
      BY <2>1, <2>2
  <1>5. t \in Text /\ TextsOf(es) \subseteq Text
    BY <1>1, AliveText DEF TextsOf, t
  <1>6. ASSUME NEW u \in Text, NEW w \in Text
        PROVE  <<u, w>> \in OrderOf(es2) <=> <<u, w>> \in OrderOf(es) \cup (TextsOf(es) \X {t})
    <2>1. ASSUME NEW i \in Alive(es2), NEW j \in Alive(es2), i < j,
                 u = TextAt(es2, i), w = TextAt(es2, j)
          PROVE  <<u, w>> \in OrderOf(es) \cup (TextsOf(es) \X {t})
      <3>1. i \in Alive(es) /\ u = TextAt(es, i)
        BY <1>1, <2>1
      <3>2. CASE j \in Alive(es)
        BY <1>1, <2>1, <3>1, <3>2, OrderAt
      <3>3. CASE j = n
        BY <2>1, <3>1, <3>3 DEF TextsOf, t
      <3>4. QED
        BY <3>2, <3>3
    <2>2. ASSUME <<u, w>> \in OrderOf(es)
          PROVE  \E i, j \in Alive(es2) : i < j /\ u = TextAt(es2, i) /\ w = TextAt(es2, j)
      <3>1. \E i, j \in Alive(es) : i < j /\ u = TextAt(es, i) /\ w = TextAt(es, j)
        BY <2>2, OrderAt
      <3>2. QED
        BY <1>1, <3>1
    <2>3. ASSUME u \in TextsOf(es), w = t
          PROVE  \E i, j \in Alive(es2) : i < j /\ u = TextAt(es2, i) /\ w = TextAt(es2, j)
      <3>1. PICK i \in Alive(es) : TextAt(es, i) = u
        BY <2>3 DEF TextsOf
      <3>2. QED
        BY <1>1, <2>3, <3>1 DEF t
    <2>4. QED
      BY <2>1, <2>2, <2>3, OrderAt
  <1>7. OrderOf(es2) = OrderOf(es) \cup (TextsOf(es) \X {t})
    <2>1. /\ OrderOf(es2) \subseteq Text \X Text
          /\ OrderOf(es) \cup (TextsOf(es) \X {t}) \subseteq Text \X Text
      BY <1>5 DEF OrderOf
    <2>2. QED
      BY <1>6, <2>1
  <1>8. QED
    BY <1>2, <1>3, <1>4, <1>7 DEF t

\* An entry less.
LEMMA EraseMaps ==
    ASSUME NEW es \in Seq(Entry), TextsUnique(es), NEW es2 \in Seq(Entry),
           NEW n \in Alive(es), Alive(es2) = Alive(es) \ {n},
           \A i \in Alive(es2) : es2[i] = es[i]
    PROVE  /\ TextsOf(es2) = TextsOf(es) \ {TextAt(es, n)} /\ TextAt(es, n) \in TextsOf(es)
           /\ \A u \in TextsOf(es2) : ContentsOf(es2)[u] = ContentsOf(es)[u]
           /\ OrderOf(es2) \subseteq OrderOf(es)
           /\ \A p \in OrderOf(es) :
                p \in OrderOf(es2) <=> p[1] # TextAt(es, n) /\ p[2] # TextAt(es, n)
  <1> DEFINE t == TextAt(es, n)
  <1>1. /\ \A i \in Alive(es2) : TextAt(es2, i) = TextAt(es, i)
        /\ \A i \in Alive(es) : i \in Alive(es2) <=> TextAt(es, i) # t
    BY DEF TextAt, TextsUnique
  <1>2. TextsUnique(es2)
    BY <1>1 DEF TextsUnique
  <1> HIDE DEF t
  <1>3. TextsOf(es2) = TextsOf(es) \ {t} /\ t \in TextsOf(es)
    BY <1>1 DEF TextsOf, t
  <1>4. ASSUME NEW u \in TextsOf(es2)
        PROVE  ContentsOf(es2)[u] = ContentsOf(es)[u]
    <2>1. PICK i \in Alive(es2) : TextAt(es2, i) = u
      BY DEF TextsOf
    <2>2. QED
      BY <1>1, <1>2, <2>1, ContentsAt
  <1>5. ASSUME NEW u \in Text, NEW w \in Text
        PROVE  <<u, w>> \in OrderOf(es2) <=> <<u, w>> \in OrderOf(es) /\ u # t /\ w # t
    BY <1>1, OrderAt
  <1>6. /\ OrderOf(es2) \subseteq Text \X Text /\ OrderOf(es) \subseteq Text \X Text
        /\ \A p \in Text \X Text : p \in OrderOf(es2) <=> p \in OrderOf(es) /\ p[1] # t /\ p[2] # t
    BY <1>5 DEF OrderOf
  <1>7. QED
    BY <1>3, <1>4, <1>6 DEF t

LEMMA InvariantMaps ==
    ASSUME IInv
    PROVE  /\ entries \in Seq(Entry) /\ TextsUnique(entries)
           /\ \A t \in Text : t \in DOMAIN Contents <=> \E i \in LiveEntries : EntryText(i) = t
           /\ \A i \in LiveEntries :
                EntryText(i) \in DOMAIN Contents /\ Contents[EntryText(i)] = entries[i].value
  <1>1. entries \in Seq(Entry) /\ TextsUnique(entries)
    BY DEF IInv, TypeOK, WellFormed, TextsUnique
  <1>2. /\ LiveEntries = Alive(entries)
        /\ \A i \in LiveEntries : EntryText(i) = TextAt(entries, i)
    BY LiveFinite
  <1>3. DOMAIN Contents = TextsOf(entries)
    BY <1>1, MapIs, ContentsAt
  <1>4. \A i \in LiveEntries :
          EntryText(i) \in DOMAIN Contents /\ Contents[EntryText(i)] = entries[i].value
    BY <1>1, <1>2, <1>3, MapIs, ContentsAt
  <1>5. \A t \in Text : t \in DOMAIN Contents <=> \E i \in LiveEntries : EntryText(i) = t
    BY <1>2, <1>3 DEF TextsOf
  <1>6. QED
    BY <1>1, <1>4, <1>5

\* A store is a Put.
LEMMA SetIsPut ==
    ASSUME IInv, IInv', NEW k \in Key, NEW v \in Value, Set(k, v)
    PROVE  Map!Put(TextOf[k], v)
  <1> DEFINE t == TextOf[k]
             found == Found(capacity, indices, entries, t)
  <1>1. t \in Text /\ call' = <<"put", t, v>>
    BY DEF Set, Text
  <1>2. /\ entries \in Seq(Entry) /\ TextsUnique(entries) /\ LiveEntries = Alive(entries)
        /\ DOMAIN entries = 1..Len(entries) /\ Len(entries) \in Nat
        /\ DOMAIN Contents = TextsOf(entries)
    BY InvariantMaps, LiveFinite, MapIs, ContentsAt
  <1>3. /\ entries' \in Seq(Entry) /\ TextsUnique(entries')
        /\ DOMAIN Contents' = TextsOf(entries')
        /\ Contents' = [u \in DOMAIN Contents' |-> Contents'[u]]
    <2>1. entries' \in Seq(Entry) /\ TextsUnique(entries')
      BY DEF IInv, TypeOK, WellFormed, TextsUnique
    <2>2. QED
      BY <2>1, MapIs, ContentsAt
  <1>4. CASE found # {}
    <2>1. PICK s \in found : entries' = [entries EXCEPT ![indices[s]].value = v]
      BY <1>4 DEF Set
    <2>2. PICK n \in LiveEntries : n = indices[s] /\ EntryText(n) = t
      BY <1>1, <2>1, FoundIsHeld
    <2>3. n \in 1..Len(entries) /\ entries[n] \in [key : Key, value : Value]
      BY <2>2, LiveFinite
    <2>4. /\ DOMAIN entries' = DOMAIN entries
          /\ \A i \in DOMAIN entries : i # n => entries'[i] = entries[i]
          /\ entries'[n] = [entries[n] EXCEPT !.value = v]
      BY <1>2, <2>1, <2>2, <2>3
    <2>5. entries'[n].key = entries[n].key /\ entries'[n].value = v
      BY <2>3, <2>4
    <2>6. Alive(entries') = Alive(entries)
      BY <1>2, <2>4, <2>5 DEF Alive, IsLive
    <2>7. \A i \in Alive(entries) : i # n => entries'[i] = entries[i]
      BY <2>4 DEF Alive
    <2>8. TextAt(entries, n) = t /\ n \in Alive(entries)
      BY <1>2, <2>2 DEF TextAt, EntryText
    <2>9. /\ DOMAIN Contents' = DOMAIN Contents /\ t \in DOMAIN Contents
          /\ \A u \in DOMAIN Contents' : Contents'[u] = IF u = t THEN v ELSE Contents[u]
          /\ Order' = Order
      <3>1. /\ TextsOf(entries') = TextsOf(entries) /\ t \in TextsOf(entries)
            /\ \A u \in TextsOf(entries) : ContentsOf(entries')[u] =
                 IF u = t THEN v ELSE ContentsOf(entries)[u]
            /\ OrderOf(entries') = OrderOf(entries)
        <4> DEFINE es == entries
                   es2 == entries'
        <4>1. /\ es \in Seq(Entry) /\ TextsUnique(es) /\ es2 \in Seq(Entry)
              /\ Alive(es2) = Alive(es) /\ n \in Alive(es)
              /\ \A i \in Alive(es) : i # n => es2[i] = es[i]
              /\ es2[n].key = es[n].key
          BY <1>2, <1>3, <2>5, <2>6, <2>7, <2>8
        <4> HIDE DEF es, es2
        <4>2. /\ TextsOf(es2) = TextsOf(es) /\ TextAt(es, n) \in TextsOf(es)
              /\ \A u \in TextsOf(es) : ContentsOf(es2)[u] =
                   IF u = TextAt(es, n) THEN es2[n].value ELSE ContentsOf(es)[u]
              /\ OrderOf(es2) = OrderOf(es)
          BY <4>1, OverwriteMaps
        <4>3. TextAt(es, n) = t /\ es2[n].value = v
          BY <2>5, <2>8 DEF es, es2
        <4>4. QED
          BY <4>2, <4>3 DEF es, es2
      <3>2. QED
        BY <1>2, <1>3, <3>1, MapIs
    <2>10. Contents' = [u \in DOMAIN Contents \cup {t} |-> IF u = t THEN v ELSE Contents[u]]
      <3>1. DOMAIN Contents' = DOMAIN Contents \cup {t}
        BY <2>9
      <3>2. QED
        BY <1>3, <2>9, <3>1
    <2>11. QED
      BY <1>1, <2>9, <2>10 DEF Map!Put, Map!Keys
  <1>5. CASE found = {}
    <2> DEFINE e == [key |-> k, value |-> v]
    <2>1. entries' = Append(entries, e)
      BY <1>5 DEF Set
    <2>2. e.key = k /\ e.value = v /\ k # Deleted
      OBVIOUS
    <2> HIDE DEF e
    <2>3. PICK n \in Nat : n = Len(entries) + 1
      BY <1>2
    <2>4. /\ DOMAIN entries' = DOMAIN entries \cup {n}
          /\ \A i \in DOMAIN entries : entries'[i] = entries[i] /\ i < n
          /\ entries'[n] = e
      BY <1>2, <2>1, <2>3
    <2>5. Alive(entries') = Alive(entries) \cup {n}
      BY <2>2, <2>4 DEF Alive, IsLive
    <2>6. \A i \in Alive(entries) : i < n /\ entries'[i] = entries[i]
      BY <2>4 DEF Alive
    <2>7. TextAt(entries', n) = t /\ entries'[n].value = v
      BY <2>2, <2>4 DEF TextAt
    <2>8. /\ DOMAIN Contents' = DOMAIN Contents \cup {t} /\ t \notin DOMAIN Contents
          /\ \A u \in DOMAIN Contents' : Contents'[u] = IF u = t THEN v ELSE Contents[u]
          /\ Order' = Order \cup ((DOMAIN Contents) \X {t})
      <3>1. /\ TextsOf(entries') = TextsOf(entries) \cup {t} /\ t \notin TextsOf(entries)
            /\ \A u \in TextsOf(entries') : ContentsOf(entries')[u] =
                 IF u = t THEN v ELSE ContentsOf(entries)[u]
            /\ OrderOf(entries') = OrderOf(entries) \cup (TextsOf(entries) \X {t})
        <4>1. Extends(entries, n, entries')
          BY <2>5, <2>6 DEF Extends
        <4>2. QED
          BY <1>2, <1>3, <2>7, <4>1, AppendMaps
      <3>2. Order' = Order \cup ((DOMAIN Contents) \X {t})
        BY <1>2, <3>1, MapIs
      <3>3. \A u \in DOMAIN Contents' : Contents'[u] = IF u = t THEN v ELSE Contents[u]
        BY <1>3, <3>1, MapIs
      <3>4. QED
        BY <1>2, <1>3, <3>1, <3>2, <3>3
    <2>9. Contents' = [u \in DOMAIN Contents \cup {t} |-> IF u = t THEN v ELSE Contents[u]]
      BY <1>3, <2>8
    <2>10. Order' = IF t \in DOMAIN Contents THEN Order ELSE Order \cup ((DOMAIN Contents) \X {t})
      BY <2>8
    <2>11. QED
      BY <1>1, <2>9, <2>10 DEF Map!Put, Map!Keys
  <1>6. QED
    BY <1>4, <1>5

\* A deletion is a Remove.
LEMMA DeleteIsRemove ==
    ASSUME IInv, IInv', NEW k \in Key, Delete(k)
    PROVE  Map!Remove(TextOf[k])
  <1> DEFINE t == TextOf[k]
             found == IF count = 0 THEN {} ELSE Found(capacity, indices, entries, t)
  <1>1. t \in Text
    BY DEF Text
  <1>2. /\ entries \in Seq(Entry) /\ TextsUnique(entries) /\ LiveEntries = Alive(entries)
        /\ DOMAIN entries = 1..Len(entries) /\ Len(entries) \in Nat
        /\ DOMAIN Contents = TextsOf(entries)
        /\ Contents = [u \in DOMAIN Contents |-> Contents[u]]
    BY InvariantMaps, LiveFinite, MapIs, ContentsAt
  <1>3. /\ entries' \in Seq(Entry)
        /\ DOMAIN Contents' = TextsOf(entries')
        /\ Contents' = [u \in DOMAIN Contents' |-> Contents'[u]]
    <2>1. entries' \in Seq(Entry) /\ TextsUnique(entries')
      BY DEF IInv, TypeOK, WellFormed, TextsUnique
    <2>2. QED
      BY <2>1, MapIs, ContentsAt
  <1>4. CASE found = {}
    <2>1. call' = <<"remove", t, Absent>> /\ entries' = entries
      BY <1>4 DEF Delete
    <2>2. Contents' = Contents /\ Order' = Order
      BY <2>1, MapIs
    <2>3. t \notin DOMAIN Contents
      <3>1. CASE count = 0
        <4>1. LiveEntries = {}
          BY <3>1, LiveFinite, FS_EmptySet DEF IInv
        <4>2. QED
          BY <1>1, <4>1, InvariantMaps
      <3>2. CASE count # 0
        BY <1>1, <1>4, <3>2, InvariantMaps, FoundIsHeld
      <3>3. QED
        BY <3>1, <3>2
    <2>4. DOMAIN Contents \ {t} = DOMAIN Contents
      BY <2>3
    <2>5. Order = {p \in Order : p[1] # t /\ p[2] # t}
      <3>1. \A p \in Order : p[1] # t /\ p[2] # t
        <4>1. SUFFICES ASSUME NEW p \in Order PROVE p[1] # t /\ p[2] # t
          OBVIOUS
        <4>2. PICK i \in LiveEntries, j \in LiveEntries : p = <<EntryText(i), EntryText(j)>>
          BY DEF Order
        <4>3. QED
          BY <2>3, <4>2, InvariantMaps
      <3>2. QED
        BY <3>1
    <2>6. Contents' = [u \in DOMAIN Contents \ {t} |-> Contents[u]]
      BY <1>2, <2>2, <2>4
    <2>7. QED
      BY <2>1, <2>2, <2>3, <2>5, <2>6 DEF Map!Remove, Map!Keys
  <1>5. CASE found # {}
    <2>1. PICK s \in Found(capacity, indices, entries, t) :
            /\ entries' = [entries EXCEPT ![indices[s]] = [key |-> Deleted, value |-> None]]
            /\ call' = <<"remove", t, Done>>
      BY <1>5 DEF Delete
    <2>2. PICK n \in LiveEntries : n = indices[s] /\ EntryText(n) = t
      BY <1>1, <2>1, FoundIsHeld
    <2>3. n \in 1..Len(entries)
      BY LiveFinite
    <2>4. /\ DOMAIN entries' = DOMAIN entries
          /\ \A i \in DOMAIN entries : i # n => entries'[i] = entries[i]
          /\ entries'[n] = [key |-> Deleted, value |-> None]
      BY <1>2, <2>1, <2>2, <2>3
    <2>5. Alive(entries') = Alive(entries) \ {n}
      BY <2>4 DEF Alive, IsLive
    <2>6. \A i \in Alive(entries') : entries'[i] = entries[i]
      BY <2>4, <2>5 DEF Alive
    <2>7. TextAt(entries, n) = t /\ n \in Alive(entries)
      BY <1>2, <2>2 DEF TextAt, EntryText
    <2>8. /\ DOMAIN Contents' = DOMAIN Contents \ {t} /\ t \in DOMAIN Contents
          /\ \A u \in DOMAIN Contents' : Contents'[u] = Contents[u]
          /\ Order' \subseteq Order
          /\ \A p \in Order : p \in Order' <=> p[1] # t /\ p[2] # t
      <3>1. /\ TextsOf(entries') = TextsOf(entries) \ {t} /\ t \in TextsOf(entries)
            /\ \A u \in TextsOf(entries') : ContentsOf(entries')[u] = ContentsOf(entries)[u]
            /\ OrderOf(entries') \subseteq OrderOf(entries)
            /\ \A p \in OrderOf(entries) : p \in OrderOf(entries') <=> p[1] # t /\ p[2] # t
        <4> DEFINE es == entries
                   es2 == entries'
        <4>1. /\ es \in Seq(Entry) /\ TextsUnique(es) /\ es2 \in Seq(Entry)
              /\ n \in Alive(es) /\ Alive(es2) = Alive(es) \ {n}
              /\ \A i \in Alive(es2) : es2[i] = es[i]
          BY <1>2, <1>3, <2>5, <2>6, <2>7
        <4> HIDE DEF es, es2
        <4>2. /\ TextsOf(es2) = TextsOf(es) \ {TextAt(es, n)}
              /\ TextAt(es, n) \in TextsOf(es)
              /\ \A u \in TextsOf(es2) : ContentsOf(es2)[u] = ContentsOf(es)[u]
              /\ OrderOf(es2) \subseteq OrderOf(es)
              /\ \A p \in OrderOf(es) :
                   p \in OrderOf(es2) <=> p[1] # TextAt(es, n) /\ p[2] # TextAt(es, n)
          BY <4>1, EraseMaps
        <4>3. TextAt(es, n) = t
          BY <2>7 DEF es
        <4>4. QED
          BY <4>2, <4>3 DEF es, es2
      <3>2. QED
        BY <1>2, <1>3, <3>1, MapIs
    <2>9. Contents' = [u \in DOMAIN Contents \ {t} |-> Contents[u]]
      BY <1>3, <2>8
    <2>10. Order' = {p \in Order : p[1] # t /\ p[2] # t}
      BY <2>8
    <2>11. QED
      BY <2>1, <2>8, <2>9, <2>10 DEF Map!Remove, Map!Keys
  <1>6. QED
    BY <1>4, <1>5

LEMMA ClearIsRemoveAll ==
    ASSUME Clear
    PROVE  Map!RemoveAll
  <1>1. entries' = <<>> /\ call' = <<"clear">>
    BY DEF Clear
  <1>2. LiveEntries' = {}
    BY <1>1 DEF LiveEntries
  <1>3. Texts' = {} /\ Order' = {}
    BY <1>2 DEF Texts, Order
  <1>4. Contents' = [t \in {} |-> Absent]
    BY <1>3 DEF Contents
  <1>5. QED
    BY <1>1, <1>3, <1>4 DEF Map!RemoveAll

\* What a lookup answers is what the map holds.
LEMMA ProbedIsHeld ==
    ASSUME IInv, NEW k \in Key, NEW v \in Probed(k)
    PROVE  v = IF TextOf[k] \in DOMAIN Contents THEN Contents[TextOf[k]] ELSE Absent
  <1> DEFINE t == TextOf[k]
             found == Found(capacity, indices, entries, t)
  <1>1. t \in Text
    BY DEF Text
  <1>2. CASE found = {}
    <2>1. v = Absent
      BY <1>2 DEF Probed
    <2>2. t \notin DOMAIN Contents
      BY <1>1, <1>2, FoundIsHeld, InvariantMaps
    <2>3. QED
      BY <2>1, <2>2
  <1>3. CASE found # {}
    <2>1. PICK s \in found : v = entries[indices[s]].value
      BY <1>3 DEF Probed
    <2>2. indices[s] \in LiveEntries /\ EntryText(indices[s]) = t
      BY <1>1, <2>1, FoundIsHeld
    <2>3. QED
      BY <2>1, <2>2, InvariantMaps
  <1>4. QED
    BY <1>2, <1>3

LEMMA NothingHeld ==
    ASSUME IInv, count = 0
    PROVE  DOMAIN Contents = {}
  <1>1. LiveEntries = {}
    BY LiveFinite, FS_EmptySet DEF IInv
  <1>2. QED
    BY <1>1 DEF Contents, Texts

\* So a lookup through either cache is a lookup in the map.
LEMMA LookupIsLookup ==
    ASSUME IInv, NEW k \in Key, Get(k) \/ GetMono(k) \/ GetCached(k)
    PROVE  Map!Lookup(TextOf[k])
  <1> DEFINE t == TextOf[k]
             held == IF t \in DOMAIN Contents THEN Contents[t] ELSE Absent
  <1>1. entries' = entries
    BY DEF Get, GetMono, GetCached, dictVars
  <1>2. Contents' = Contents /\ Order' = Order
    BY <1>1, MapIs
  <1>3. \E v : call' = <<"lookup", t, v>> /\ v = held
    <2>1. ASSUME NEW v \in Probed(k), Answers(k, v)
          PROVE  \E w : call' = <<"lookup", t, w>> /\ w = held
      BY <2>1, ProbedIsHeld DEF Answers
    <2>2. ASSUME count = 0, Answers(k, Absent)
          PROVE  \E w : call' = <<"lookup", t, w>> /\ w = held
      BY <2>2, NothingHeld DEF Answers
    <2>3. CASE Get(k)
      BY <2>1, <2>3 DEF Get
    <2>4. CASE GetMono(k)
      <3>1. CASE MonoHit(k)
        <4>1. Answers(k, mono.value) /\ mono # None /\ mono.key = k
          BY <2>4, <3>1 DEF GetMono, MonoHit
        <4>2. PICK i \in LiveEntries : entries[i] = mono
          BY <4>1 DEF IInv, MonoFits
        <4>3. EntryText(i) = t
          BY <4>1, <4>2 DEF EntryText
        <4>4. mono.value = held
          BY <4>2, <4>3, InvariantMaps
        <4>5. QED
          BY <4>1, <4>4 DEF Answers
      <3>2. CASE ~MonoHit(k)
        BY <2>1, <2>2, <2>4, <3>2 DEF GetMono
      <3>3. QED
        BY <3>1, <3>2
    <2>5. CASE GetCached(k)
      <3>1. CASE ICHit(k)
        <4>1. Answers(k, entries[ic.entry].value) /\ ic # None /\ ic.key = k /\ ic.version = version
          BY <2>5, <3>1 DEF GetCached, ICHit
        <4>2. ic.entry \in LiveEntries /\ EntryText(ic.entry) = t
          BY <4>1 DEF IInv, ICFits, EntryText, TextAt
        <4>3. entries[ic.entry].value = held
          BY <4>2, InvariantMaps
        <4>4. QED
          BY <4>1, <4>3 DEF Answers
      <3>2. CASE ~ICHit(k)
        BY <2>1, <2>2, <2>5, <3>2 DEF GetCached
      <3>3. QED
        BY <3>1, <3>2
    <2>6. QED
      BY <2>3, <2>4, <2>5
  <1>4. QED
    BY <1>2, <1>3 DEF Map!Lookup, Map!Keys

LEMMA AdoptKeepsMap ==
    ASSUME IInv, IInv', Adopt
    PROVE  Contents' = Contents /\ Order' = Order
  <1>1. pc = "adjust" /\ next = Len(entries) /\ entries' = newEntries
    BY DEF Adopt
  <1>2. Adjusting
    BY <1>1 DEF IInv
  <1>3. entries \in Seq(Entry) /\ TextsUnique(entries) /\ LiveEntries = Alive(entries)
    BY InvariantMaps, LiveFinite
  <1>4. entries' \in Seq(Entry) /\ TextsUnique(entries')
    BY DEF IInv, TypeOK, WellFormed, TextsUnique
  <1>5. Alive(entries') = 1..Len(newEntries)
    BY <1>1, NewEntriesTyped
  <1>6. \A i \in Alive(entries) : i <= next
    BY <1>1, <1>3, LiveFinite
  <1>7. /\ \A j \in Alive(entries') : \E i \in Alive(entries) : entries'[j] = entries[i]
        /\ \A i \in Alive(entries) : \E j \in Alive(entries') : entries'[j] = entries[i]
        /\ \A i, k \in Alive(entries) : \A j, h \in Alive(entries') :
             entries'[j] = entries[i] /\ entries'[h] = entries[k] /\ j < h => i < k
    BY <1>1, <1>2, <1>3, <1>5, <1>6 DEF Adjusting
  <1>8. ContentsOf(entries') = ContentsOf(entries) /\ OrderOf(entries') = OrderOf(entries)
    BY <1>3, <1>4, <1>7, MoveKeepsMap
  <1>9. QED
    BY <1>8, MapIs

LEMMA StepRefines == IInv /\ IInv' /\ [Next]_vars => [Map!Next]_(Map!vars)
  <1> SUFFICES ASSUME IInv, IInv', [Next]_vars PROVE [Map!Next]_(Map!vars)
    OBVIOUS
  <1>1. ASSUME entries' = entries, UNCHANGED call PROVE UNCHANGED Map!vars
    BY <1>1, MapIs DEF Map!vars
  <1>2. ASSUME NEW k \in Key, NEW v \in Value, Set(k, v) PROVE Map!Next
    BY <1>2, SetIsPut DEF Map!Next, Text
  <1>3. ASSUME NEW k \in Key, Delete(k) PROVE Map!Next
    BY <1>3, DeleteIsRemove DEF Map!Next, Text
  <1>4. ASSUME NEW k \in Key, Get(k) \/ GetMono(k) \/ GetCached(k) PROVE Map!Next
    BY <1>4, LookupIsLookup DEF Map!Next, Text
  <1>5. CASE Clear
    BY <1>5, ClearIsRemoveAll DEF Map!Next
  <1>6. ASSUME NEW k \in Key, Hang(k) PROVE UNCHANGED Map!vars
    BY <1>1, <1>6 DEF Hang, dictVars
  <1>7. CASE Grow \/ Skip \/ Copy \/ IterPrep \/ EvictIC
    BY <1>1, <1>7 DEF Grow, Skip, Copy, IterPrep, EvictIC, dictVars
  <1>8. CASE Adopt
    <2>1. UNCHANGED call
      BY <1>8 DEF Adopt
    <2>2. QED
      BY <1>8, <2>1, AdoptKeepsMap DEF Map!vars
  <1>9. CASE IterNext
    <2>1. entries' = entries
      BY <1>9 DEF IterNext, dictVars
    <2>2. CASE Ahead = {}
      BY <1>1, <1>9, <2>1, <2>2 DEF IterNext
    <2>3. CASE Ahead # {}
      <3>1. PICK i \in LiveEntries : call' = <<"visit", EntryText(i), entries[i].value>>
        BY <1>9, <2>3 DEF IterNext, Ahead
      <3>2. EntryText(i) \in DOMAIN Contents /\ Contents[EntryText(i)] = entries[i].value
        BY InvariantMaps
      <3>3. Map!Visit
        BY <2>1, <3>1, <3>2, MapIs DEF Map!Visit, Map!Keys
      <3>4. QED
        BY <3>3 DEF Map!Next
    <2>4. QED
      BY <2>2, <2>3
  <1>10. CASE UNCHANGED vars
    BY <1>1, <1>10 DEF vars, dictVars
  <1>11. QED
    BY <1>2, <1>3, <1>4, <1>5, <1>6, <1>7, <1>8, <1>9, <1>10 DEF Next

\* Every operation on a dict, with both caches and whatever has been deleted or
\* copied before, does what it does to an insertion-ordered map.
THEOREM DictIsMap == Spec => MapRefined
  <1>1. Init => Map!Init
    <2> SUFFICES ASSUME Init PROVE Map!Init
      OBVIOUS
    <2>1. LiveEntries = {}
      BY DEF Init, LiveEntries
    <2>2. Texts = {} /\ Order = {}
      BY <2>1 DEF Texts, Order
    <2>3. Contents = [t \in {} |-> Absent]
      BY <2>2 DEF Contents
    <2>4. QED
      BY <2>2, <2>3 DEF Init, Map!Init
  <1>2. QED
    BY <1>1, InitInvariant, NextPreserves, StepRefines, PTL DEF Spec, MapRefined, Map!Spec
=============================================================================
