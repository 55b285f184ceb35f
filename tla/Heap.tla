-------------------------------- MODULE Heap --------------------------------
(***************************************************************************)
(* The generational heap of the Magnesium VM (src/src/gc.c and the         *)
(* allocation half of src/src/object.c), as the mutator sees it.           *)
(*                                                                         *)
(* An object is an address of Obj.  It is free, on one of the two reuse    *)
(* lists ("pool"), on vm->young_objects or on vm->old_objects.  A          *)
(* collection runs only inside allocate_object, before the new object is   *)
(* taken, or when the host calls it; it is stop-the-world, so one action   *)
(* is one collection.  Bytes are abstracted: which collection an           *)
(* allocation runs (none, minor or major) is a free choice.                *)
(*                                                                         *)
(* `held` are the pointers that C code keeps in local variables and that   *)
(* no root covers.  The code keeps one rule about them, written at         *)
(* object.c:297-301: such a pointer survives one collection, because a     *)
(* collection never reclaims a newborn.                                    *)
(***************************************************************************)
EXTENDS Naturals, FiniteSets

CONSTANTS
    Obj,            \* the addresses of the heap
    Kind,           \* the type of the object each address is used for
    FreeListMax,    \* gc.c FREE_LIST_MAX
    MaxFields,      \* bound: references an object holds at one time
    MaxHeld,        \* bound: unrooted pointers C code keeps at one time
    MaxCached       \* bound: objects the inline caches point to at one time

Collections == {"minor", "major"}
Kinds == {"string", "closure", "upvalue", "other"}

ASSUME HeapAssumption ==
    /\ Kind \in [Obj -> Kinds]
    /\ FreeListMax \in Nat
    /\ MaxFields \in Nat
    /\ MaxHeld \in Nat
    /\ MaxCached \in Nat

VARIABLES
    space,          \* where each address is: free, pool, young or old
    age,            \* Obj.gc_age
    refs,           \* the objects blacken_object finds in an object
    roots,          \* the objects mark_roots finds: registers, globals, ...
    held,           \* unrooted pointers in C locals
    remembered,     \* vm->remembered_set
    caches,         \* the objects the four inline caches point to
    interned        \* vm->strings, which does not keep its strings alive

vars == <<space, age, refs, roots, held, remembered, caches, interned>>

Young     == {o \in Obj : space[o] = "young"}
Old       == {o \in Obj : space[o] = "old"}
Allocated == Young \cup Old
Newborn   == {o \in Young : age[o] = 0}
Strings   == {o \in Obj : Kind[o] = "string"}

\* What the running C function or opcode can name.
Named == roots \cup held

Fields(S) == UNION {refs[o] : o \in S}

(***************************************************************************)
(* Marking.  gc_mark_object pushes an unmarked object of the collected     *)
(* space on the gray stack and trace_references blackens until the stack   *)
(* is empty: the marked set is the least set that contains the seeds and   *)
(* is closed under the references into that space.                         *)
(***************************************************************************)
ClosedIn(T, region) == \A o \in T : refs[o] \cap region \subseteq T

Trace(seeds, region) ==
    {o \in region : \A T \in SUBSET region :
        (seeds \cap region \subseteq T /\ ClosedIn(T, region)) => o \in T}

\* Mutant of MinorMarked: the remembered set is not scanned.
MinorMarkedUnremembered == Trace(Fields(Newborn) \cup roots, Young)

\* gc_minor_collect: what newborns, the roots and remembered objects reach.
MinorMarked == Trace(Fields(Newborn) \cup roots \cup Fields(remembered), Young)

\* gc_major_collect: newborns are marked themselves.
MajorMarked == Trace(Newborn \cup roots, Allocated)

\* The objects a collection reclaims, and those it leaves on the old list.
Dead(gc) ==
    CASE gc = "none"  -> {}
      [] gc = "minor" -> (Young \ Newborn) \ MinorMarked
      [] gc = "major" -> Allocated \ MajorMarked

Promoted(gc) ==
    CASE gc = "none"  -> {}
      [] gc = "minor" -> MinorMarked
      [] gc = "major" -> MajorMarked

\* Unmarked strings leave vm->strings; a minor collection looks only at
\* aged young ones.
Uninterned(gc) ==
    CASE gc = "none"  -> {}
      [] gc = "minor" -> {s \in interned : s \in Young \ Newborn} \ MinorMarked
      [] gc = "major" -> interned \ MajorMarked

\* Dead closures and upvalues go to their reuse list while it has room;
\* which ones depends on the order of the object list.
Pool(k) == {o \in Obj : space[o] = "pool" /\ Kind[o] = k}

IsPooling(pooled, dead) ==
    /\ pooled \subseteq {o \in dead : Kind[o] \in {"closure", "upvalue"}}
    /\ \A k \in {"closure", "upvalue"} :
         LET put  == {o \in pooled : Kind[o] = k}
             left == {o \in dead \ pooled : Kind[o] = k}
         IN  /\ put # {} => Cardinality(Pool(k)) + Cardinality(put) <= FreeListMax
             /\ left # {} => Cardinality(Pool(k)) + Cardinality(put) >= FreeListMax

SpaceAfter(gc, pooled) ==
    [o \in Obj |-> IF o \in pooled THEN "pool"
                   ELSE IF o \in Dead(gc) THEN "free"
                   ELSE IF o \in Promoted(gc) THEN "old"
                   ELSE space[o]]

AgeAfter(gc) ==
    [o \in Obj |-> IF gc = "minor" /\ o \in Newborn \ Promoted(gc) THEN 1
                   ELSE IF o \in Dead(gc) \cup Promoted(gc) THEN 0
                   ELSE age[o]]

RefsAfter(gc) == [o \in Obj |-> IF o \in Dead(gc) THEN {} ELSE refs[o]]
-----------------------------------------------------------------------------
Init ==
    /\ space = [o \in Obj |-> "free"]
    /\ age = [o \in Obj |-> 0]
    /\ refs = [o \in Obj |-> {}]
    /\ roots = {} /\ held = {} /\ remembered = {}
    /\ caches = {} /\ interned = {}

\* Mutant of ClearWeak: the inline caches outlive the objects they point to.
ClearRemembered(gc) ==
    /\ remembered' = IF gc = "none" THEN remembered ELSE {}
    /\ UNCHANGED caches

\* The part of a collection that touches no object.
ClearWeak(gc) ==
    IF gc = "none" THEN UNCHANGED <<remembered, caches>>
                   ELSE remembered' = {} /\ caches' = {}

\* C code enters a collection only with newborns in its locals.
MayCollect(gc) == gc # "none" => held \subseteq Newborn

\* allocate_object: at most one collection, never a minor and then a major;
\* then the object is taken and its fields are stored without a barrier.
Alloc(o, fields, gc) ==
    /\ MayCollect(gc)
    /\ Cardinality(held) < MaxHeld
    /\ \E pooled \in SUBSET Dead(gc) :
         /\ IsPooling(pooled, Dead(gc))
         /\ SpaceAfter(gc, pooled)[o] = "free"
         /\ space' = [SpaceAfter(gc, pooled) EXCEPT ![o] = "young"]
    /\ age' = [AgeAfter(gc) EXCEPT ![o] = 0]
    /\ refs' = [RefsAfter(gc) EXCEPT ![o] = fields]
    /\ held' = held \cup {o}
    /\ interned' = (interned \ Uninterned(gc)) \cup ({o} \cap Strings)
    /\ ClearWeak(gc)
    /\ UNCHANGED roots

\* new_closure and new_upvalue take from the reuse list and never collect.
Reuse(o, fields) ==
    /\ space[o] = "pool"
    /\ Cardinality(held) < MaxHeld
    /\ space' = [space EXCEPT ![o] = "young"]
    /\ age' = [age EXCEPT ![o] = 0]
    /\ refs' = [refs EXCEPT ![o] = fields]
    /\ held' = held \cup {o}
    /\ UNCHANGED <<roots, remembered, caches, interned>>

\* The host calls gc_minor_collect, gc_major_collect or gc_collect.
HostCollect(gc) ==
    /\ held = {}
    /\ \E pooled \in SUBSET Dead(gc) :
         /\ IsPooling(pooled, Dead(gc))
         /\ space' = SpaceAfter(gc, pooled)
    /\ age' = AgeAfter(gc)
    /\ refs' = RefsAfter(gc)
    /\ interned' = interned \ Uninterned(gc)
    /\ ClearWeak(gc)
    /\ UNCHANGED <<roots, held>>

\* Mutant of Barrier: a store that forgets it.
NoBarrier(p, c) == remembered

\* gc_write_barrier
Barrier(p, c) ==
    IF space[p] = "old" /\ space[c] = "young"
    THEN remembered \cup {p} ELSE remembered

\* A store into a field, an element, an entry or a closed upvalue: c replaces
\* the references in `over`.
Store(p, c, over) ==
    /\ p \in Named \ Strings /\ c \in Named /\ over \subseteq refs[p]
    /\ Cardinality((refs[p] \ over) \cup {c}) <= MaxFields
    /\ refs' = [refs EXCEPT ![p] = (@ \ over) \cup {c}]
    /\ remembered' = Barrier(p, c)
    /\ UNCHANGED <<space, age, roots, held, caches, interned>>

\* A store of null or a number, array_pop, dict_delete: no barrier.
Erase(p, c) ==
    /\ p \in Named /\ c \in refs[p]
    /\ refs' = [refs EXCEPT ![p] = @ \ {c}]
    /\ UNCHANGED <<space, age, roots, held, remembered, caches, interned>>

\* vm_push, vm_root_value, a register or a global receives a value the
\* code can name, or one it loads from an object it can name.
Root(o) ==
    /\ o \in held \cup Fields(Named)
    /\ roots' = roots \cup {o}
    /\ held' = held \ {o}
    /\ UNCHANGED <<space, age, refs, remembered, caches, interned>>

\* vm_pop, vm_unroot_value, a register is overwritten or its frame returns.
Unroot(o) ==
    /\ o \in roots
    /\ roots' = roots \ {o}
    /\ UNCHANGED <<space, age, refs, held, remembered, caches, interned>>

\* A C function drops a local.
Drop(o) ==
    /\ o \in held
    /\ held' = held \ {o}
    /\ UNCHANGED <<space, age, refs, roots, remembered, caches, interned>>

\* copy_string and take_string return the string already in the table,
\* whatever its age.
FindInterned(s) ==
    /\ s \in interned
    /\ Cardinality(held) < MaxHeld
    /\ held' = held \cup {s}
    /\ UNCHANGED <<space, age, refs, roots, remembered, caches, interned>>

\* An opcode fills a global, field, method or dict cache entry; the caches are
\* direct-mapped, so it may evict others.
FillCache(o, evicted) ==
    /\ o \in Named \cup Fields(Named)
    /\ caches' = (caches \ evicted) \cup {o}
    /\ Cardinality(caches') <= MaxCached
    /\ UNCHANGED <<space, age, refs, roots, held, remembered, interned>>

\* gc_free_all at vm_free: both lists, then both reuse lists.
FreeAll ==
    /\ space' = [o \in Obj |-> "free"]
    /\ age' = [o \in Obj |-> 0]
    /\ refs' = [o \in Obj |-> {}]
    /\ roots' = {} /\ held' = {} /\ remembered' = {}
    /\ caches' = {} /\ interned' = {}

\* The fields a constructor may store: a string (a rope) has only strings.
Inits(o) == {F \in SUBSET Named : /\ Cardinality(F) <= MaxFields
                                  /\ o \in Strings => F \subseteq Strings}

Next ==
    \/ \E o \in Obj, gc \in {"none"} \cup Collections :
         \E F \in Inits(o) : Alloc(o, F, gc)
    \/ \E o \in Obj : \E F \in Inits(o) : Reuse(o, F)
    \/ \E gc \in Collections : HostCollect(gc)
    \/ \E p, c \in Obj : \E over \in SUBSET refs[p] : Store(p, c, over)
    \/ \E p, c \in Obj : Erase(p, c)
    \/ \E o \in Obj : Root(o) \/ Unroot(o) \/ Drop(o) \/ FindInterned(o)
    \/ \E o \in Obj, evicted \in SUBSET caches : FillCache(o, evicted)
    \/ FreeAll

Spec == Init /\ [][Next]_vars
-----------------------------------------------------------------------------
\* Every variable has its type; only a young object ages.
TypeOK ==
    /\ space \in [Obj -> {"free", "pool", "young", "old"}]
    /\ age \in [Obj -> {0, 1}]
    /\ refs \in [Obj -> SUBSET Obj]
    /\ roots \subseteq Obj /\ held \subseteq Obj /\ remembered \subseteq Obj
    /\ caches \subseteq Obj /\ interned \subseteq Strings
    /\ \A o \in Obj : age[o] = 1 => o \in Young

\* gc.c, write barrier: an old object that refers to a young one is in the
\* remembered set, so that a minor collection can skip every other old object.
OldToYoungRemembered ==
    \A o \in Old : refs[o] \cap Young # {} => o \in remembered

\* No register, global, C local, inline cache entry, interned string or field
\* of an allocated object (reachable or not) points to reclaimed memory.
NoDangling ==
    /\ roots \cup held \cup caches \cup interned \subseteq Allocated
    /\ \A o \in Allocated : refs[o] \subseteq Allocated
    /\ remembered \subseteq Old

\* No step reclaims an object that the roots or a C local reach: neither
\* allocation nor collection invalidates what the program can still use.
ReachableSurvives ==
    [][FreeAll \/ \A o \in Trace(roots \cup held, Allocated) : o \in Allocated']_vars
=============================================================================
