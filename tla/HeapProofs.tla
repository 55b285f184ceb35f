----------------------------- MODULE HeapProofs -----------------------------
(***************************************************************************)
(* For every heap: the collector reclaims nothing that a root, a C local,  *)
(* an inline cache, the string table or a surviving object points to.      *)
(***************************************************************************)
EXTENDS Heap, TLAPS

Choices == {"none"} \cup Collections

\* The inductive invariant.  NoDangling alone is not inductive: a minor
\* collection skips old objects, so it needs OldToYoungRemembered.
IInv == TypeOK /\ OldToYoungRemembered /\ NoDangling

\* A trace holds its seeds and is closed under references.
LEMMA TraceCloses ==
    ASSUME NEW seeds, NEW region
    PROVE  /\ Trace(seeds, region) \subseteq region
           /\ seeds \cap region \subseteq Trace(seeds, region)
           /\ ClosedIn(Trace(seeds, region), region)
  <1>1. Trace(seeds, region) \subseteq region
    BY DEF Trace
  <1>2. seeds \cap region \subseteq Trace(seeds, region)
    BY DEF Trace
  <1>3. ASSUME NEW o \in Trace(seeds, region), NEW c \in refs[o] \cap region
        PROVE  c \in Trace(seeds, region)
    <2>1. SUFFICES ASSUME NEW T \in SUBSET region,
                          seeds \cap region \subseteq T, ClosedIn(T, region)
                   PROVE  c \in T
      BY DEF Trace
    <2>2. o \in T
      BY <2>1 DEF Trace
    <2>3. QED
      BY <2>1, <2>2 DEF ClosedIn
  <1>4. QED
    BY <1>1, <1>2, <1>3 DEF ClosedIn

\* A trace is the least such set.
LEMMA TraceLeast ==
    ASSUME NEW seeds, NEW region, NEW T \in SUBSET region,
           seeds \cap region \subseteq T, ClosedIn(T, region)
    PROVE  Trace(seeds, region) \subseteq T
  BY DEF Trace

\* What a collection reclaims and what it keeps.
LEMMA DeadUnreferenced ==
    ASSUME IInv, NEW gc \in Choices
    PROVE  /\ Dead(gc) \subseteq Allocated
           /\ Promoted(gc) \subseteq Allocated
           /\ Dead(gc) \cap Promoted(gc) = {}
           /\ Dead(gc) \cap (roots \cup Newborn) = {}
           /\ Dead(gc) \cap interned \subseteq Uninterned(gc)
           /\ \A o \in Allocated \ Dead(gc) : refs[o] \cap Dead(gc) = {}
  <1>1. CASE gc = "none"
    BY <1>1 DEF Dead, Promoted
  <1>2. CASE gc = "minor"
    <2> DEFINE seeds == Fields(Newborn) \cup roots \cup Fields(remembered)
    <2>1. /\ MinorMarked \subseteq Young
          /\ seeds \cap Young \subseteq MinorMarked
          /\ \A o \in MinorMarked : refs[o] \cap Young \subseteq MinorMarked
      BY TraceCloses DEF MinorMarked, ClosedIn
    <2>2. /\ Dead(gc) = (Young \ Newborn) \ MinorMarked
          /\ Promoted(gc) = MinorMarked
          /\ Uninterned(gc) = {s \in interned : s \in Young \ Newborn} \ MinorMarked
      BY <1>2 DEF Dead, Promoted, Uninterned
    <2>3. ASSUME NEW o \in Allocated \ Dead(gc) PROVE refs[o] \cap Dead(gc) = {}
      <3>1. CASE o \in Old
        <4>1. refs[o] \cap Young # {} => refs[o] \subseteq Fields(remembered)
          BY <3>1 DEF IInv, OldToYoungRemembered, Fields
        <4>2. QED
          BY <2>1, <2>2, <4>1
      <3>2. CASE o \in Newborn
        <4>1. refs[o] \subseteq Fields(Newborn)
          BY <3>2 DEF Fields
        <4>2. QED
          BY <2>1, <2>2, <4>1
      <3>3. CASE o \in MinorMarked
        BY <3>3, <2>1, <2>2
      <3>4. QED
        BY <2>2, <3>1, <3>2, <3>3 DEF Allocated
    <2>4. Dead(gc) \cap (roots \cup Newborn) = {}
      BY <2>1, <2>2
    <2>5. QED
      BY <2>1, <2>2, <2>3, <2>4 DEF Allocated
  <1>3. CASE gc = "major"
    <2>1. /\ MajorMarked \subseteq Allocated
          /\ (Newborn \cup roots) \cap Allocated \subseteq MajorMarked
          /\ \A o \in MajorMarked : refs[o] \cap Allocated \subseteq MajorMarked
      BY TraceCloses DEF MajorMarked, ClosedIn
    <2>2. /\ Dead(gc) = Allocated \ MajorMarked
          /\ Promoted(gc) = MajorMarked
          /\ Uninterned(gc) = interned \ MajorMarked
      BY <1>3 DEF Dead, Promoted, Uninterned
    <2>3. Dead(gc) \cap (roots \cup Newborn) = {}
      BY <2>1, <2>2 DEF Allocated, Newborn
    <2>4. QED
      BY <2>1, <2>2, <2>3
  <1>4. QED
    BY <1>1, <1>2, <1>3 DEF Choices, Collections

\* After a collection no old object refers to a young one: this is why the
\* remembered set may be emptied.
LEMMA NoOldToYoungLeft ==
    ASSUME IInv, NEW gc \in Collections,
           NEW o \in Promoted(gc) \cup (Old \ Dead(gc))
    PROVE  refs[o] \cap Young \subseteq Promoted(gc) \cup Dead(gc)
  <1>1. CASE gc = "minor"
    <2>1. /\ (roots \cup Fields(remembered)) \cap Young \subseteq MinorMarked
          /\ \A p \in MinorMarked : refs[p] \cap Young \subseteq MinorMarked
      BY TraceCloses DEF MinorMarked, ClosedIn
    <2>2. Promoted(gc) = MinorMarked
      BY <1>1 DEF Promoted
    <2>3. CASE o \in Old
      <3>1. refs[o] \cap Young # {} => refs[o] \subseteq Fields(remembered)
        BY <2>3 DEF IInv, OldToYoungRemembered, Fields
      <3>2. QED
        BY <2>1, <2>2, <3>1
    <2>4. QED
      BY <2>1, <2>2, <2>3
  <1>2. CASE gc = "major"
    BY <1>2 DEF Promoted, Dead, Allocated
  <1>3. QED
    BY <1>1, <1>2 DEF Collections
-----------------------------------------------------------------------------
\* Where the objects are after the collection that Alloc or HostCollect runs.
LEMMA PlacesAfter ==
    ASSUME IInv, NEW gc \in Choices, NEW pooled \in SUBSET Dead(gc)
    PROVE  LET s == SpaceAfter(gc, pooled) IN
           /\ s \in [Obj -> {"free", "pool", "young", "old"}]
           /\ {x \in Obj : s[x] = "old"} = Promoted(gc) \cup (Old \ Dead(gc))
           /\ {x \in Obj : s[x] = "young"} = Young \ (Dead(gc) \cup Promoted(gc))
           /\ gc = "none" => s = space
  <1>1. Dead(gc) \subseteq Allocated /\ Promoted(gc) \subseteq Allocated
        /\ Dead(gc) \cap Promoted(gc) = {}
    BY DeadUnreferenced
  <1>2. space \in [Obj -> {"free", "pool", "young", "old"}]
    BY DEF IInv, TypeOK
  <1>3. gc = "none" => Dead(gc) = {} /\ Promoted(gc) = {}
    BY DEF Dead, Promoted
  <1>4. gc = "none" => SpaceAfter(gc, pooled) = space
    BY <1>2, <1>3 DEF SpaceAfter
  <1>5. QED
    BY <1>1, <1>2, <1>4 DEF SpaceAfter, Allocated, Young, Old

\* Only objects that stay young have an age.
LEMMA AgesAfter ==
    ASSUME IInv, NEW gc \in Choices
    PROVE  /\ AgeAfter(gc) \in [Obj -> {0, 1}]
           /\ \A x \in Obj : AgeAfter(gc)[x] = 1 =>
                x \in Young \ (Dead(gc) \cup Promoted(gc))
  <1>1. Dead(gc) \cap Newborn = {}
    BY DeadUnreferenced
  <1>2. age \in [Obj -> {0, 1}] /\ \A x \in Obj : age[x] = 1 => x \in Young
    BY DEF IInv, TypeOK
  <1>3. QED
    BY <1>1, <1>2 DEF AgeAfter, Newborn, Young

LEMMA RefsTypeAfter ==
    ASSUME IInv, NEW gc
    PROVE  RefsAfter(gc) \in [Obj -> SUBSET Obj]
  BY DEF IInv, TypeOK, RefsAfter

\* The weak references an allocation or a collection leaves.
LEMMA WeakAfter ==
    ASSUME IInv, NEW gc \in Choices, ClearWeak(gc)
    PROVE  /\ caches' \subseteq Allocated \ Dead(gc)
           /\ remembered' \subseteq Old \ Dead(gc)
           /\ interned \ Uninterned(gc) \subseteq Allocated \ Dead(gc)
           /\ gc # "none" => remembered' = {}
           /\ gc = "none" => remembered' = remembered
  <1>1. interned \ Uninterned(gc) \subseteq Allocated \ Dead(gc)
    BY DeadUnreferenced DEF IInv, NoDangling
  <1>2. CASE gc = "none"
    BY <1>1, <1>2 DEF ClearWeak, IInv, NoDangling, Dead
  <1>3. CASE gc # "none"
    BY <1>1, <1>3 DEF ClearWeak
  <1>4. QED
    BY <1>2, <1>3

LEMMA AllocInv ==
    ASSUME IInv, NEW o \in Obj, NEW gc \in Choices, NEW F \in Inits(o),
           Alloc(o, F, gc)
    PROVE  IInv' /\ Allocated \ Dead(gc) \subseteq Allocated'
  <1> DEFINE D == Dead(gc)
             P == Promoted(gc)
  <1>1. PICK pooled \in SUBSET D :
            /\ SpaceAfter(gc, pooled)[o] = "free"
            /\ space' = [SpaceAfter(gc, pooled) EXCEPT ![o] = "young"]
    BY DEF Alloc
  <1>2. /\ D \subseteq Allocated /\ P \subseteq Allocated /\ D \cap P = {}
        /\ D \cap (roots \cup Newborn) = {}
        /\ \A x \in Allocated \ D : refs[x] \cap D = {}
    BY DeadUnreferenced
  <1>3. /\ SpaceAfter(gc, pooled) \in [Obj -> {"free", "pool", "young", "old"}]
        /\ {x \in Obj : SpaceAfter(gc, pooled)[x] = "old"} = P \cup (Old \ D)
        /\ {x \in Obj : SpaceAfter(gc, pooled)[x] = "young"} = Young \ (D \cup P)
        /\ gc = "none" => SpaceAfter(gc, pooled) = space
    BY PlacesAfter
  <1>4. /\ Old' = P \cup (Old \ D)
        /\ Young' = (Young \ (D \cup P)) \cup {o}
        /\ o \notin P \cup (Old \ D) \cup (Young \ (D \cup P))
    BY <1>1, <1>3 DEF Old, Young
  <1>5. Allocated' = (Allocated \ D) \cup {o} /\ o \notin Allocated \ D
    BY <1>2, <1>4 DEF Allocated
  <1>6. /\ caches' \subseteq Allocated \ D
        /\ remembered' \subseteq Old \ D
        /\ interned \ Uninterned(gc) \subseteq Allocated \ D
        /\ gc = "none" => remembered' = remembered
    BY WeakAfter DEF Alloc
  <1>7. roots \cup held \subseteq Allocated \ D
    <2>1. roots \cup held \subseteq Allocated
      BY DEF IInv, NoDangling
    <2>2. gc # "none" => held \subseteq Newborn
      BY DEF Alloc, MayCollect
    <2>3. gc = "none" => D = {}
      BY DEF Dead
    <2>4. QED
      BY <1>2, <2>1, <2>2, <2>3
  <1>8. F \subseteq roots \cup held
    BY DEF Inits, Named
  <1>9. /\ refs' \in [Obj -> SUBSET Obj]
        /\ refs'[o] = F
        /\ \A x \in Allocated \ D : refs'[x] = refs[x]
    <2>1. refs' = [RefsAfter(gc) EXCEPT ![o] = F]
      BY DEF Alloc
    <2>2. F \in SUBSET Obj
      BY <1>8 DEF IInv, TypeOK
    <2>3. \A x \in Allocated \ D : RefsAfter(gc)[x] = refs[x]
      BY DEF RefsAfter, Allocated, Young, Old
    <2>4. QED
      BY <2>1, <2>2, <2>3, <1>5, RefsTypeAfter
  <1>10. TypeOK'
    <2>1. space' \in [Obj -> {"free", "pool", "young", "old"}]
      BY <1>1, <1>3
    <2>2. age' = [AgeAfter(gc) EXCEPT ![o] = 0]
      BY DEF Alloc
    <2>3. age' \in [Obj -> {0, 1}] /\ \A x \in Obj : age'[x] = 1 => x \in Young'
      BY <2>2, <1>4, AgesAfter
    <2>4. /\ roots' = roots /\ held' = held \cup {o}
          /\ interned' = (interned \ Uninterned(gc)) \cup ({o} \cap Strings)
      BY DEF Alloc
    <2>5. /\ roots' \subseteq Obj /\ held' \subseteq Obj
          /\ interned' \subseteq Strings
      BY <2>4 DEF IInv, TypeOK
    <2>6. caches' \subseteq Obj /\ remembered' \subseteq Obj
      BY <1>6 DEF Allocated, Young, Old
    <2>7. QED
      BY <1>9, <2>1, <2>3, <2>5, <2>6 DEF TypeOK
  <1>11. NoDangling'
    <2>1. /\ roots' = roots /\ held' = held \cup {o}
          /\ interned' = (interned \ Uninterned(gc)) \cup ({o} \cap Strings)
      BY DEF Alloc
    <2>2. roots' \cup held' \cup caches' \cup interned' \subseteq Allocated'
      BY <2>1, <1>5, <1>6, <1>7
    <2>3. ASSUME NEW x \in Allocated' PROVE refs'[x] \subseteq Allocated'
      <3>1. CASE x = o
        BY <3>1, <1>5, <1>7, <1>8, <1>9
      <3>2. CASE x \in Allocated \ D
        <4>1. refs[x] \subseteq Allocated
          BY <3>2 DEF IInv, NoDangling
        <4>2. QED
          BY <3>2, <4>1, <1>2, <1>5, <1>9
      <3>3. QED
        BY <3>1, <3>2, <1>5
    <2>4. remembered' \subseteq Old'
      BY <1>4, <1>6
    <2>5. QED
      BY <2>2, <2>3, <2>4 DEF NoDangling
  <1>12. OldToYoungRemembered'
    <2>1. SUFFICES ASSUME NEW x \in Old', refs'[x] \cap Young' # {}
                   PROVE  x \in remembered'
      BY DEF OldToYoungRemembered
    <2>2. x \in Allocated \ D /\ x \in Obj
      BY <1>2, <1>4, <1>5, <2>1 DEF Allocated, Old
    <2>3. refs'[x] = refs[x] /\ o \notin refs[x]
      <3>1. refs[x] \subseteq Allocated \ D
        BY <2>2, <1>2 DEF IInv, NoDangling
      <3>2. QED
        BY <3>1, <2>2, <1>5, <1>9
    <2>4. refs[x] \cap (Young \ (D \cup P)) # {}
      BY <2>1, <2>3, <1>4
    <2>5. CASE gc = "none"
      BY <2>1, <2>4, <2>5, <1>4, <1>6 DEF IInv, OldToYoungRemembered, Dead, Promoted
    <2>6. CASE gc # "none"
      BY <2>1, <2>4, <2>6, <1>4, NoOldToYoungLeft DEF Choices
    <2>7. QED
      BY <2>5, <2>6
  <1>13. QED
    BY <1>5, <1>10, <1>11, <1>12 DEF IInv
LEMMA HostCollectInv ==
    ASSUME IInv, NEW gc \in Collections, HostCollect(gc)
    PROVE  IInv' /\ Allocated \ Dead(gc) \subseteq Allocated'
  <1> DEFINE D == Dead(gc)
             P == Promoted(gc)
  <1>0. gc \in Choices /\ gc # "none"
    BY DEF Choices, Collections
  <1>1. PICK pooled \in SUBSET D : space' = SpaceAfter(gc, pooled)
    BY DEF HostCollect
  <1>2. /\ D \subseteq Allocated /\ P \subseteq Allocated /\ D \cap P = {}
        /\ D \cap (roots \cup Newborn) = {}
        /\ \A x \in Allocated \ D : refs[x] \cap D = {}
    BY <1>0, DeadUnreferenced
  <1>3. /\ space' \in [Obj -> {"free", "pool", "young", "old"}]
        /\ Old' = P \cup (Old \ D)
        /\ Young' = Young \ (D \cup P)
    BY <1>0, <1>1, PlacesAfter DEF Old, Young
  <1>4. Allocated' = Allocated \ D
    BY <1>2, <1>3 DEF Allocated
  <1>5. /\ caches' \subseteq Allocated \ D /\ remembered' = {}
        /\ interned' \subseteq Allocated \ D
        /\ interned' \subseteq interned /\ roots' = roots /\ held' = {} /\ held = {}
    BY <1>0, WeakAfter DEF HostCollect
  <1>6. refs' \in [Obj -> SUBSET Obj] /\ \A x \in Allocated \ D : refs'[x] = refs[x]
    <2>1. refs' = RefsAfter(gc)
      BY DEF HostCollect
    <2>2. QED
      BY <2>1, RefsTypeAfter DEF RefsAfter, Allocated, Young, Old
  <1>7. TypeOK'
    <2>1. age' = AgeAfter(gc)
      BY DEF HostCollect
    <2>2. age' \in [Obj -> {0, 1}] /\ \A x \in Obj : age'[x] = 1 => x \in Young'
      BY <2>1, <1>0, <1>3, AgesAfter
    <2>3. Allocated \subseteq Obj
      BY DEF Allocated, Young, Old
    <2>4. QED
      BY <2>2, <2>3, <1>3, <1>5, <1>6 DEF TypeOK, IInv
  <1>8. NoDangling'
    <2>1. roots \subseteq Allocated \ D
      BY <1>2 DEF IInv, NoDangling
    <2>2. \A x \in Allocated' : refs'[x] \subseteq Allocated'
      BY <1>2, <1>4, <1>6 DEF IInv, NoDangling
    <2>3. QED
      BY <2>1, <2>2, <1>4, <1>5 DEF NoDangling
  <1>9. OldToYoungRemembered'
    <2>1. ASSUME NEW x \in Old' PROVE refs'[x] \cap Young' = {}
      <3>1. x \in Allocated \ D
        BY <2>1, <1>2, <1>3 DEF Allocated
      <3>2. QED
        BY <2>1, <3>1, <1>3, <1>6, NoOldToYoungLeft
    <2>2. QED
      BY <2>1 DEF OldToYoungRemembered
  <1>10. QED
    BY <1>4, <1>7, <1>8, <1>9 DEF IInv

LEMMA ReuseInv ==
    ASSUME IInv, NEW o \in Obj, NEW F \in Inits(o), Reuse(o, F)
    PROVE  IInv' /\ Allocated \subseteq Allocated'
  <1>1. /\ Young' = Young \cup {o} /\ Old' = Old /\ o \notin Allocated
        /\ Allocated' = Allocated \cup {o}
    BY DEF Reuse, Young, Old, Allocated, IInv, TypeOK
  <1>2. F \subseteq roots \cup held
    BY DEF Inits, Named
  <1>3. TypeOK'
    BY <1>1, <1>2 DEF Reuse, IInv, TypeOK
  <1>4. \A x \in Allocated : refs'[x] = refs[x] /\ o \notin refs[x]
    BY <1>1 DEF Reuse, IInv, NoDangling, TypeOK
  <1>5. NoDangling'
    <2>1. refs'[o] = F
      BY DEF Reuse, IInv, TypeOK
    <2>2. \A x \in Allocated' : refs'[x] \subseteq Allocated'
      BY <1>1, <1>2, <1>4, <2>1 DEF IInv, NoDangling
    <2>3. QED
      BY <1>1, <2>2 DEF Reuse, IInv, NoDangling
  <1>6. OldToYoungRemembered'
    BY <1>1, <1>4 DEF Reuse, IInv, OldToYoungRemembered, Allocated
  <1>7. QED
    BY <1>1, <1>3, <1>5, <1>6 DEF IInv

\* The mutator's steps move no object and create only named references.
LEMMA MutatorInv ==
    ASSUME IInv,
           \/ \E p, c \in Obj : \E over \in SUBSET refs[p] : Store(p, c, over)
           \/ \E p, c \in Obj : Erase(p, c)
           \/ \E o \in Obj : Root(o) \/ Unroot(o) \/ Drop(o) \/ FindInterned(o)
           \/ \E o \in Obj, evicted \in SUBSET caches : FillCache(o, evicted)
    PROVE  IInv' /\ Allocated \subseteq Allocated'
  <1>1. Named \cup Fields(Named) \subseteq Allocated /\ Allocated \subseteq Obj
    BY DEF Named, Fields, IInv, NoDangling, Allocated, Young, Old
  <1>2. ASSUME NEW p \in Obj, NEW c \in Obj, NEW over \in SUBSET refs[p],
               Store(p, c, over)
        PROVE  IInv' /\ Allocated \subseteq Allocated'
    <2>1. /\ Young' = Young /\ Old' = Old /\ Allocated' = Allocated
          /\ p \in Allocated /\ c \in Allocated
      BY <1>1, <1>2 DEF Store, Young, Old, Allocated
    <2>2. /\ refs' \in [Obj -> SUBSET Obj]
          /\ refs'[p] = (refs[p] \ over) \cup {c}
          /\ \A x \in Obj \ {p} : refs'[x] = refs[x]
      BY <1>2 DEF Store, IInv, TypeOK
    <2>3. /\ remembered \subseteq remembered'
          /\ remembered' \subseteq remembered \cup ({p} \cap Old)
          /\ p \in Old /\ c \in Young => p \in remembered'
      BY <1>2 DEF Store, Barrier, Young, Old
    <2>4. TypeOK'
      BY <1>2, <2>1, <2>2, <2>3 DEF Store, IInv, TypeOK
    <2>5. NoDangling'
      BY <1>1, <1>2, <2>1, <2>2, <2>3 DEF Store, IInv, NoDangling
    <2>6. OldToYoungRemembered'
      BY <1>1, <2>1, <2>2, <2>3 DEF IInv, OldToYoungRemembered, Allocated
    <2>7. QED
      BY <2>1, <2>4, <2>5, <2>6 DEF IInv
  <1>3. ASSUME NEW p \in Obj, NEW c \in Obj, Erase(p, c)
        PROVE  IInv' /\ Allocated \subseteq Allocated'
    <2>1. /\ Young' = Young /\ Old' = Old /\ Allocated' = Allocated
          /\ refs' \in [Obj -> SUBSET Obj]
          /\ \A x \in Obj : refs'[x] \subseteq refs[x]
      BY <1>3 DEF Erase, Young, Old, Allocated, IInv, TypeOK
    <2>2. TypeOK'
      BY <1>3, <2>1 DEF Erase, IInv, TypeOK
    <2>3. NoDangling' /\ OldToYoungRemembered'
      BY <1>1, <1>3, <2>1 DEF Erase, IInv, NoDangling, OldToYoungRemembered, Old
    <2>4. QED
      BY <2>1, <2>2, <2>3 DEF IInv
  <1>4. ASSUME NEW o \in Obj,
               \/ Root(o) \/ Unroot(o) \/ Drop(o) \/ FindInterned(o)
               \/ \E evicted \in SUBSET caches : FillCache(o, evicted)
        PROVE  IInv' /\ Allocated \subseteq Allocated'
    <2>1. /\ space' = space /\ age' = age /\ refs' = refs
          /\ remembered' = remembered /\ interned' = interned
          /\ roots' \cup held' \subseteq roots \cup held \cup Fields(Named) \cup interned
          /\ caches' \subseteq caches \cup Named \cup Fields(Named)
      BY <1>4 DEF Root, Unroot, Drop, FindInterned, FillCache, Named
    <2>2. /\ Young' = Young /\ Old' = Old /\ Allocated' = Allocated
      BY <2>1 DEF Young, Old, Allocated
    <2>3. TypeOK'
      BY <1>1, <2>1, <2>2 DEF IInv, TypeOK, NoDangling
    <2>4. NoDangling' /\ OldToYoungRemembered'
      BY <1>1, <2>1, <2>2 DEF IInv, NoDangling, OldToYoungRemembered
    <2>5. QED
      BY <2>2, <2>3, <2>4 DEF IInv
  <1>5. QED
    BY <1>2, <1>3, <1>4

LEMMA FreeAllInv ==
    ASSUME FreeAll
    PROVE  IInv'
  BY DEF FreeAll, IInv, TypeOK, NoDangling, OldToYoungRemembered,
         Allocated, Young, Old
-----------------------------------------------------------------------------
LEMMA InitInv == Init => IInv
  BY DEF Init, IInv, TypeOK, NoDangling, OldToYoungRemembered,
         Allocated, Young, Old

LEMMA NextInv == IInv /\ [Next]_vars => IInv'
  <1> SUFFICES ASSUME IInv, [Next]_vars PROVE IInv'
    OBVIOUS
  <1>1. ASSUME NEW o \in Obj, NEW gc \in Choices, NEW F \in Inits(o), Alloc(o, F, gc)
        PROVE  IInv'
    BY <1>1, AllocInv
  <1>2. ASSUME NEW o \in Obj, NEW F \in Inits(o), Reuse(o, F) PROVE IInv'
    BY <1>2, ReuseInv
  <1>3. ASSUME NEW gc \in Collections, HostCollect(gc) PROVE IInv'
    BY <1>3, HostCollectInv
  <1>4. CASE FreeAll
    BY <1>4, FreeAllInv
  <1>5. CASE UNCHANGED vars
    BY <1>5 DEF vars, IInv, TypeOK, NoDangling, OldToYoungRemembered,
                Allocated, Young, Old
  <1>6. QED
    BY <1>1, <1>2, <1>3, <1>4, <1>5, MutatorInv DEF Next, Choices

\* What a root or a C local reaches is never dead.
LEMMA ReachableKept ==
    ASSUME IInv, NEW gc \in Choices, (roots \cup held) \cap Dead(gc) = {}
    PROVE  Trace(roots \cup held, Allocated) \subseteq Allocated \ Dead(gc)
  <1>1. /\ Dead(gc) \subseteq Allocated
        /\ \A x \in Allocated \ Dead(gc) : refs[x] \cap Dead(gc) = {}
    BY DeadUnreferenced
  <1>2. (roots \cup held) \cap Allocated \subseteq Allocated \ Dead(gc)
    OBVIOUS
  <1>3. ClosedIn(Allocated \ Dead(gc), Allocated)
    BY <1>1 DEF ClosedIn
  <1>4. QED
    BY <1>2, <1>3, TraceLeast

\* The heap invariant holds in every state: types, the remembered set, and
\* no dangling pointer (gc.c, allocate_object, gc_write_barrier).
THEOREM HeapSafe == Spec => [](TypeOK /\ OldToYoungRemembered /\ NoDangling)
  <1>1. IInv => TypeOK /\ OldToYoungRemembered /\ NoDangling
    BY DEF IInv
  <1>2. QED
    BY InitInv, NextInv, <1>1, PTL DEF Spec

\* Whatever the program stores where, an old object that refers to a young one
\* is in the remembered set when a minor collection starts (gc_write_barrier).
THEOREM BarrierComplete == Spec => []OldToYoungRemembered
  BY HeapSafe, PTL

\* No allocation and no collection reclaims an object that the roots or a C
\* local still reach (gc_minor_collect, gc_major_collect).
THEOREM ReachableObjectsSurvive == Spec => ReachableSurvives
  <1> DEFINE Keeps == \A o \in Trace(roots \cup held, Allocated) : o \in Allocated'
  <1>1. ASSUME IInv, [Next]_vars PROVE [FreeAll \/ Keeps]_vars
    <2>1. Trace(roots \cup held, Allocated) \subseteq Allocated
      BY TraceCloses
    <2>2. ASSUME NEW o \in Obj, NEW gc \in Choices, NEW F \in Inits(o), Alloc(o, F, gc)
          PROVE  Keeps
      <3>1. (roots \cup held) \cap Dead(gc) = {}
        BY <1>1, <2>2, DeadUnreferenced DEF Alloc, MayCollect, Dead
      <3>2. QED
        BY <1>1, <2>2, <3>1, ReachableKept, AllocInv
    <2>3. ASSUME NEW o \in Obj, NEW F \in Inits(o), Reuse(o, F) PROVE Keeps
      BY <1>1, <2>1, <2>3, ReuseInv
    <2>4. ASSUME NEW gc \in Collections, HostCollect(gc) PROVE Keeps
      <3>1. gc \in Choices /\ (roots \cup held) \cap Dead(gc) = {}
        BY <1>1, <2>4, DeadUnreferenced DEF HostCollect, Choices
      <3>2. QED
        BY <1>1, <2>4, <3>1, ReachableKept, HostCollectInv
    <2>5. CASE \/ \E p, c \in Obj : \E over \in SUBSET refs[p] : Store(p, c, over)
               \/ \E p, c \in Obj : Erase(p, c)
               \/ \E o \in Obj : Root(o) \/ Unroot(o) \/ Drop(o) \/ FindInterned(o)
               \/ \E o \in Obj, evicted \in SUBSET caches : FillCache(o, evicted)
      BY <1>1, <2>1, <2>5, MutatorInv
    <2>6. QED
      BY <1>1, <2>2, <2>3, <2>4, <2>5 DEF Next, Choices
  <1>2. QED
    BY InitInv, NextInv, <1>1, PTL DEF Spec, ReachableSurvives
=============================================================================
