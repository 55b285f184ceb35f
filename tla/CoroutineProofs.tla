-------------------------- MODULE CoroutineProofs --------------------------
(***************************************************************************)
(* For any number of coroutines, resumed by one another in any order: the  *)
(* collector reclaims no running coroutine and nothing that a variable, on *)
(* a stack or captured, still refers to.                                   *)
(***************************************************************************)
EXTENDS Coroutine, TLAPS

\* What the state of a coroutine says of its variables and its snapshot.
Phases ==
    /\ \A c \in Co :
        /\ snapTop[c] <=> status[c] \in {"running", "suspended"}
        /\ ~snapTop[c] => /\ snap[c] = None
                          /\ \A u \in Variables(c) : local[u] = None
        /\ status[c] # "running" => head[c] = snap[c]
        /\ status[c] = "new" => \A u \in Variables(c) : var[u] = "none"
        /\ gen[c] = "none" => status[c] = "new"
    /\ \A u \in Up :
        /\ var[u] = "none" <=> gen[u] = "none"
        /\ var[u] # "closed" => closed[u] = None

\* Upvalues are linked to captured ones of the same coroutine, and the open
\* ones in the order of their slots, each to the next that is open.
Links ==
    /\ \A u \in Up :
        /\ next[u] # None => Of[next[u]] = Of[u] /\ var[next[u]] # "none"
        /\ var[u] = "none" => next[u] = None
    /\ \A c \in Co : snap[c] # None => Of[snap[c]] = c /\ var[snap[c]] # "none"

Order ==
    \A c \in Co : \A u \in Open(c) :
        /\ next[u] # None => next[u] \in Open(c) /\ Slot[next[u]] < Slot[u]
        /\ \A w \in Open(c) :
             Slot[w] < Slot[u] => next[u] # None /\ Slot[w] <= Slot[next[u]]

Heads ==
    \A c \in Co :
        /\ head[c] # None => head[c] \in Open(c)
        /\ \A w \in Open(c) : head[c] # None /\ Slot[w] <= Slot[head[c]]

\* The list of a coroutine has all its open upvalues.
Listed == \A c \in Co : Open(c) \subseteq OpenList(c)

\* No coroutine is resumed while it runs.
ChainDistinct == \A i, j \in DOMAIN chain : chain[i] = chain[j] => i = j

\* What the script and the running coroutines refer to is there.
RootsLive ==
    /\ regs \subseteq Allocated
    /\ \A c \in Running : Open(c) \subseteq Allocated

\* A closed upvalue that is there keeps its value.
ClosedLive ==
    \A u \in Up : u \in Allocated /\ closed[u] # None => closed[u] \in Allocated

\* Every old object that refers to a young one is remembered, but for the
\* stacks of running coroutines, which are roots.
Remembered ==
    /\ \A u \in Up :
        /\ Of[u] \in Old \ Running /\ local[u] \in Young => Of[u] \in remembered
        /\ u \in Old /\ closed[u] \in Young => u \in remembered
    /\ \A c \in Co : \A u \in Snapshot(c) : c \in Old /\ u \in Young => c \in remembered

\* Unless scripts may drop it, a coroutine with an open variable is held.
OpenHeld ==
    DropSuspended \/ \A c \in Co : Open(c) # {} => c \in Running \cup regs

\* The inductive invariant, as long as no closure stores into the variable of
\* a suspended coroutine and none captures behind one of its snapshot.
IInv ==
    /\ TypeOK
    /\ Phases
    /\ Links /\ Order /\ Heads /\ Listed
    /\ ChainDistinct
    /\ RootsLive
    /\ ClosedLive
    /\ Remembered
    /\ OpenHeld
    /\ StackLive
    /\ CoroutinesLive
-----------------------------------------------------------------------------
(***************************************************************************)
(* The chain of running coroutines.                                        *)
(***************************************************************************)
LEMMA ChainGrows ==
    ASSUME IInv, NEW c \in Co \ Running, chain' = Append(chain, c)
    PROVE  chain' \in Seq(Co) /\ ChainDistinct' /\ Running' = Running \cup {c}
  <1>1. chain \in Seq(Co) /\ Len(chain) \in Nat /\ DOMAIN chain = 1..Len(chain)
    BY DEF IInv, TypeOK
  <1>2. /\ chain' \in Seq(Co) /\ DOMAIN chain' = 1..(Len(chain) + 1)
        /\ \A i \in 1..Len(chain) : chain'[i] = chain[i]
        /\ chain'[Len(chain) + 1] = c
    BY <1>1
  <1>3. \A i \in 1..Len(chain) : chain[i] # c
    BY <1>1 DEF Running
  <1>4. ChainDistinct'
    BY <1>1, <1>2, <1>3 DEF ChainDistinct, IInv
  <1>5. Running' = Running \cup {c}
    BY <1>1, <1>2 DEF Running
  <1>6. QED
    BY <1>2, <1>4, <1>5

LEMMA ExecutingRuns ==
    ASSUME IInv, NEW c \in Co, Executing(c)
    PROVE  c \in Running
  <1>1. chain \in Seq(Co) /\ chain # <<>>
    BY DEF IInv, TypeOK, Executing
  <1>2. Len(chain) \in DOMAIN chain
    BY <1>1
  <1>3. QED
    BY <1>2 DEF Executing, Current, Running

LEMMA ChainShrinks ==
    ASSUME IInv, NEW c \in Co, Leave(c)
    PROVE  /\ chain' \in Seq(Co) /\ ChainDistinct'
           /\ Running' = Running \ {c} /\ c \in Running
  <1>1. chain \in Seq(Co) /\ Len(chain) \in Nat \ {0} /\ DOMAIN chain = 1..Len(chain)
    BY DEF IInv, TypeOK, Leave, Executing
  <1>2. /\ chain' \in Seq(Co) /\ DOMAIN chain' = 1..(Len(chain) - 1)
        /\ \A i \in 1..(Len(chain) - 1) : chain'[i] = chain[i]
        /\ chain[Len(chain)] = c
    BY <1>1 DEF Leave, Executing, Current
  <1>3. \A i \in 1..(Len(chain) - 1) : chain[i] # c
    BY <1>1, <1>2 DEF ChainDistinct, IInv
  <1>4. ChainDistinct'
    BY <1>1, <1>2 DEF ChainDistinct, IInv
  <1>5. Running' = Running \ {c} /\ c \in Running
    BY <1>1, <1>2, <1>3 DEF Running
  <1>6. QED
    BY <1>2, <1>4, <1>5
-----------------------------------------------------------------------------
(***************************************************************************)
(* Collections.                                                            *)
(***************************************************************************)
LEMMA ListIs ==
    ASSUME TypeOK, NEW first \in Up \cup {None}
    PROVE  /\ List(first) \subseteq Up
           /\ first # None => first \in List(first)
           /\ \A u \in List(first) : next[u] # None => next[u] \in List(first)
           /\ \A S \in SUBSET Up : (first \in S \/ first = None) /\ Linked(S)
                                       => List(first) \subseteq S
  <1>1. CASE first = None
    BY <1>1 DEF List
  <1>2. CASE first # None
    <2>1. List(first) = {u \in Up : \A S \in SUBSET Up : first \in S /\ Linked(S) => u \in S}
      BY <1>2 DEF List, From
    <2>2. ASSUME NEW u \in List(first), next[u] # None
          PROVE  next[u] \in List(first)
      <3>1. next[u] \in Up
        BY <2>1, <2>2 DEF TypeOK
      <3>2. ASSUME NEW S \in SUBSET Up, first \in S, Linked(S)
            PROVE  next[u] \in S
        BY <2>1, <2>2, <3>2 DEF Linked
      <3>3. QED
        BY <2>1, <3>1, <3>2
    <2>3. QED
      BY <1>2, <2>1, <2>2
  <1>3. QED
    BY <1>1, <1>2

\* What the snapshot passes are captured variables of its own coroutine.
LEMMA SnapshotIs ==
    ASSUME IInv, NEW c \in Co
    PROVE  /\ Snapshot(c) \subseteq {u \in Variables(c) : var[u] # "none"}
           /\ snap[c] = None => Snapshot(c) = {}
           /\ snap[c] # None => snap[c] \in Snapshot(c)
           /\ \A u \in Snapshot(c) : next[u] # None => next[u] \in Snapshot(c)
  <1> DEFINE T == {u \in Variables(c) : var[u] # "none"}
  <1>1. snap[c] \in Up \cup {None} /\ TypeOK
    BY DEF IInv, TypeOK
  <1>2. T \in SUBSET Up /\ (snap[c] \in T \/ snap[c] = None) /\ Linked(T)
    BY <1>1 DEF IInv, TypeOK, Links, Linked, Variables
  <1>3. Snapshot(c) \subseteq T
    BY <1>1, <1>2, ListIs DEF Snapshot
  <1>4. QED
    BY <1>1, <1>3, ListIs DEF Snapshot, List

\* The list has the open upvalues and no other.
LEMMA OpenListIs ==
    ASSUME IInv, NEW c \in Co
    PROVE  OpenList(c) = Open(c)
  <1>1. head[c] \in Up \cup {None} /\ TypeOK
    BY DEF IInv, TypeOK
  <1>2. Open(c) \in SUBSET Up /\ (head[c] \in Open(c) \/ head[c] = None) /\ Linked(Open(c))
    BY <1>1 DEF IInv, Heads, Order, Linked, Open, Variables
  <1>3. OpenList(c) \subseteq Open(c)
    BY <1>1, <1>2, ListIs DEF OpenList
  <1>4. QED
    BY <1>3 DEF IInv, Listed

\* A walk that starts in a linked set stays there.
LEMMA SnapshotBound ==
    ASSUME NEW c \in Co, NEW T \in SUBSET Up, snap'[c] \in T \/ snap'[c] = None,
           \A u \in T : next'[u] # None => next'[u] \in T
    PROVE  Snapshot(c)' \subseteq T
  <1>1. CASE snap'[c] = None
    BY <1>1 DEF Snapshot, List
  <1>2. CASE snap'[c] \in T
    BY <1>2 DEF Snapshot, List, From, Linked
  <1>3. QED
    BY <1>1, <1>2

\* Steps that link nothing.
LEMMA ListsKept ==
    ASSUME NEW c \in Co, next' = next
    PROVE  /\ snap'[c] = snap[c] => Snapshot(c)' = Snapshot(c)
           /\ head'[c] = head[c] => OpenList(c)' = OpenList(c)
           /\ snap'[c] = head[c] => Snapshot(c)' = OpenList(c)
           /\ head'[c] = snap[c] => OpenList(c)' = Snapshot(c)
           /\ snap'[c] = None => Snapshot(c)' = {}
  BY DEF Snapshot, OpenList, List, From, Linked

LEMMA RefsAre ==
    ASSUME IInv
    PROVE  /\ \A c \in Co : /\ Refs(c) \subseteq Up \cup Val
                            /\ Snapshot(c) \subseteq Refs(c)
           /\ \A u \in Up : snapTop[Of[u]] /\ local[u] # None => local[u] \in Refs(Of[u])
           /\ \A c \in Co : \A x \in Refs(c) :
                x \in Snapshot(c) \/ \E u \in Variables(c) : x = local[u]
           /\ \A u \in Up : Refs(u) = {closed[u]} \ {None} /\ Refs(u) \subseteq Val
           /\ \A v \in Val : Refs(v) = {}
  <1>0. None \notin Up
    BY CoroutineAssumption DEF Obj
  <1>1. ASSUME NEW c \in Co
        PROVE  /\ Refs(c) \subseteq Up \cup Val
               /\ Snapshot(c) \subseteq Refs(c)
               /\ \A u \in Variables(c) : snapTop[c] /\ local[u] # None => local[u] \in Refs(c)
               /\ \A x \in Refs(c) : x \in Snapshot(c) \/ \E u \in Variables(c) : x = local[u]
    <2>1. Snapshot(c) \subseteq Up
      BY SnapshotIs DEF Variables
    <2>2. QED
      BY <1>0, <2>1 DEF Refs, IInv, TypeOK, Variables
  <1>2. ASSUME NEW u \in Up
        PROVE  Refs(u) = {closed[u]} \ {None} /\ Refs(u) \subseteq Val
    BY CoroutineAssumption DEF Refs, IInv, TypeOK
  <1>3. ASSUME NEW v \in Val PROVE Refs(v) = {}
    BY CoroutineAssumption DEF Refs
  <1>4. ASSUME NEW u \in Up PROVE Of[u] \in Co /\ u \in Variables(Of[u])
    BY CoroutineAssumption DEF Variables
  <1>5. QED
    BY <1>1, <1>2, <1>3, <1>4

\* Two steps of marking reach everything: a coroutine, its upvalues, their values.
LEMMA TraceCloses ==
    ASSUME IInv, NEW seeds, NEW region \in SUBSET Obj
    PROVE  /\ Trace(seeds, region) \subseteq region
           /\ seeds \cap region \subseteq Trace(seeds, region)
           /\ \A o \in Trace(seeds, region) :
                Refs(o) \cap region \subseteq Trace(seeds, region)
  <1> DEFINE once == seeds \cap region
             more == once \cup (Fields(once) \cap region)
             all == more \cup (Fields(more) \cap region)
  <1>1. Trace(seeds, region) = all
    BY DEF Trace
  <1>2. \A o \in once : Refs(o) \cap region \subseteq more
    BY DEF Fields
  <1>3. \A o \in more : Refs(o) \cap region \subseteq all
    BY DEF Fields
  <1>4. \A o \in Obj : Refs(o) \subseteq Up \cup Val
    BY RefsAre, CoroutineAssumption DEF Obj, IInv, TypeOK
  <1>5. \A o \in Up : Refs(o) \subseteq Val
    BY RefsAre
  <1>6. \A o \in Fields(more) : o \in Val \/ o \in Fields(once)
    <2>1. SUFFICES ASSUME NEW p \in more, NEW o \in Refs(p)
                   PROVE  o \in Val \/ o \in Fields(once)
      BY DEF Fields
    <2>2. CASE p \in once
      BY <2>2 DEF Fields
    <2>3. CASE p \in Fields(once)
      <3>1. p \in Up \cup Val
        BY <2>3, <1>4 DEF Fields
      <3>2. QED
        BY <3>1, <1>5, RefsAre
    <2>4. QED
      BY <2>2, <2>3
  <1>7. \A o \in all : o \in more \/ o \in Val
    BY <1>6
  <1>8. \A o \in all : Refs(o) \cap region \subseteq all
    BY <1>3, <1>7, RefsAre
  <1>9. QED
    BY <1>1, <1>8

\* What a collection leaves where.
LEMMA SpacesAfter ==
    ASSUME IInv, NEW gc \in {"minor", "major"}, Collect(gc)
    PROVE  /\ Allocated' = Allocated \ (Reclaimable(gc) \ Marked(gc))
           /\ Old' = (Old \ (Reclaimable(gc) \ Marked(gc))) \cup Marked(gc)
           /\ Young' = Newborn \ Marked(gc)
           /\ Marked(gc) \subseteq Allocated
           /\ gen' \in [Obj -> {"none", "newborn", "aged", "old", "freed"}]
           /\ \A o \in Obj : gen'[o] = "none" <=> gen[o] = "none"
  <1>1. gen \in [Obj -> {"none", "newborn", "aged", "old", "freed"}]
    BY DEF IInv, TypeOK
  <1>2. Young \subseteq Obj /\ Allocated \subseteq Obj
    BY DEF Young, Old, Allocated
  <1>3. Marked(gc) \subseteq Allocated
    BY <1>2, TraceCloses DEF Marked, Allocated
  <1>4. Reclaimable(gc) \subseteq Allocated
    BY DEF Reclaimable, Allocated
  <1>5. gen' = [o \in Obj |-> IF o \in Reclaimable(gc) \ Marked(gc) THEN "freed"
                              ELSE IF o \in Marked(gc) THEN "old"
                              ELSE IF o \in Newborn THEN "aged" ELSE gen[o]]
    BY DEF Collect
  <1>6. \A o \in Obj : gen[o] = "aged" /\ o \notin Marked(gc) => o \in Reclaimable(gc)
    BY DEF Reclaimable, Young, Newborn, Allocated
  <1>7. gc = "major" => Newborn \subseteq Marked(gc)
    BY <1>2, TraceCloses DEF Marked, Newborn, Young, Allocated
  <1>8. gc = "minor" => Reclaimable(gc) \cap Newborn = {}
    BY DEF Reclaimable
  <1>9. /\ gen' \in [Obj -> {"none", "newborn", "aged", "old", "freed"}]
        /\ \A o \in Obj : gen'[o] = "none" <=> gen[o] = "none"
    BY <1>1, <1>3, <1>4, <1>5 DEF Young, Newborn, Old, Allocated
  <1>10. Old' = (Old \ (Reclaimable(gc) \ Marked(gc))) \cup Marked(gc)
    BY <1>3, <1>5 DEF Old, Young, Allocated, Newborn
  <1>11. Young' = Newborn \ Marked(gc)
    BY <1>5, <1>6, <1>7, <1>8 DEF Young, Newborn
  <1>12. Allocated' = Allocated \ (Reclaimable(gc) \ Marked(gc))
    <2>1. \A o \in Young : o \in Newborn \/ o \in Marked(gc) \/ o \in Reclaimable(gc)
      BY <1>6 DEF Young, Newborn
    <2>2. Newborn \cap (Reclaimable(gc) \ Marked(gc)) = {}
      BY <1>7, <1>8
    <2>3. Newborn \subseteq Allocated
      BY DEF Newborn, Young, Allocated
    <2>4. QED
      BY <1>3, <1>10, <1>11, <2>1, <2>2, <2>3 DEF Allocated
  <1>13. QED
    BY <1>3, <1>9, <1>10, <1>11, <1>12

\* A collection keeps the roots and all that what it keeps refers to, and after
\* it no old object refers to a young one but a root.
LEMMA CollectKeeps ==
    ASSUME IInv, NEW gc \in {"minor", "major"}, Collect(gc)
    PROVE  /\ Roots \subseteq Allocated'
           /\ \A o \in Allocated' : Refs(o) \subseteq Allocated'
           /\ \A o \in Old' : o \notin Running => Refs(o) \cap Young' = {}
           /\ \A c \in Co : c \in Old' => Snapshot(c) \cap Young' = {}
  <1> DEFINE M == Marked(gc)
  <1>1. Roots \subseteq Allocated
    <2>1. \A c \in Running : c \in Co /\ OpenList(c) \subseteq Allocated
      <3>1. Running \subseteq Co
        BY DEF IInv, TypeOK, Running
      <3>2. QED
        BY <3>1, OpenListIs DEF IInv, RootsLive
    <2>2. Running \subseteq Allocated /\ regs \subseteq Allocated
      BY DEF IInv, RootsLive, CoroutinesLive
    <2>3. \A u \in Up : Of[u] \in Running /\ local[u] # None => local[u] \in Allocated
      BY <2>2 DEF IInv, StackLive
    <2>4. Contexts \ {None} \subseteq Allocated
      BY <2>1, <2>3 DEF Contexts
    <2>5. QED
      BY <2>2, <2>4 DEF Roots
  <1>2. /\ Allocated' = Allocated \ (Reclaimable(gc) \ M)
        /\ Old' = (Old \ (Reclaimable(gc) \ M)) \cup M
        /\ Young' = Newborn \ M /\ M \subseteq Allocated
    BY SpacesAfter
  <1>3. Young \subseteq Obj /\ Allocated \subseteq Obj /\ Newborn \subseteq Young
        /\ Old \cap Young = {} /\ Allocated = Young \cup Old
    BY DEF Young, Old, Allocated, Newborn
  <1>4. \A o \in Allocated : Refs(o) \subseteq Allocated
    <2>1. ASSUME NEW c \in Co \cap Allocated PROVE Refs(c) \subseteq Allocated
      <3>1. Snapshot(c) \subseteq Allocated
        BY DEF IInv, CoroutinesLive
      <3>2. ASSUME NEW x \in Refs(c) PROVE x # None
        BY DEF Refs
      <3>3. ASSUME NEW u \in Variables(c), local[u] # None PROVE local[u] \in Allocated
        BY <3>3 DEF IInv, StackLive, Variables
      <3>4. QED
        BY <3>1, <3>2, <3>3, RefsAre
    <2>2. ASSUME NEW u \in Up \cap Allocated PROVE Refs(u) \subseteq Allocated
      BY RefsAre DEF IInv, ClosedLive
    <2>3. QED
      BY <1>3, <2>1, <2>2, RefsAre DEF Obj
  <1>5. /\ Roots \cap Young \subseteq M /\ Roots \subseteq Allocated'
        /\ \A o \in Allocated' : Refs(o) \cap Young \subseteq M
        /\ \A o \in Allocated' : Refs(o) \cap Allocated \subseteq Allocated'
    <2>1. CASE gc = "minor"
      <3>1. /\ (Roots \cup Fields(Newborn) \cup Fields(remembered)) \cap Young \subseteq M
            /\ \A o \in M : Refs(o) \cap Young \subseteq M
        BY <2>1, <1>3, TraceCloses DEF Marked
      <3>2. ASSUME NEW o \in Old, NEW x \in Refs(o) \cap Young PROVE x \in M
        <4>1. CASE o \in Co
          <5>1. CASE x \in Snapshot(o)
            <6>1. o \in remembered
              BY <3>2, <4>1, <5>1 DEF IInv, Remembered
            <6>2. QED
              BY <3>1, <3>2, <6>1 DEF Fields
          <5>2. CASE \E u \in Variables(o) : x = local[u]
            <6>1. PICK u \in Variables(o) : x = local[u]
              BY <5>2
            <6>2. u \in Up /\ Of[u] = o /\ x # None
              BY <6>1, CoroutineAssumption DEF Variables, Refs
            <6>3. CASE o \in Running
              BY <3>1, <3>2, <6>1, <6>2, <6>3 DEF Roots, Contexts
            <6>4. CASE o \notin Running
              <7>1. o \in remembered
                BY <3>2, <6>1, <6>2, <6>4 DEF IInv, Remembered
              <7>2. QED
                BY <3>1, <3>2, <7>1 DEF Fields
            <6>5. QED
              BY <6>3, <6>4
          <5>3. QED
            BY <4>1, <5>1, <5>2, RefsAre
        <4>2. CASE o \in Up
          <5>1. x = closed[o]
            BY <4>2, RefsAre
          <5>2. o \in remembered
            BY <3>2, <4>2, <5>1 DEF IInv, Remembered
          <5>3. QED
            BY <3>1, <3>2, <5>2 DEF Fields
        <4>3. CASE o \in Val
          BY <3>2, <4>3, RefsAre
        <4>4. QED
          BY <4>1, <4>2, <4>3, <1>3 DEF Obj
      <3>3. \A o \in Newborn : Refs(o) \cap Young \subseteq M
        BY <3>1 DEF Fields
      <3>4. Allocated' \subseteq Old \cup Newborn \cup M
        BY <2>1, <1>2, <1>3 DEF Reclaimable
      <3>5. Old \subseteq Allocated'
        BY <2>1, <1>2, <1>3 DEF Reclaimable
      <3>6. M \subseteq Allocated'
        BY <1>2
      <3>7. \A o \in Allocated' : Refs(o) \cap Young \subseteq M
        BY <3>1, <3>2, <3>3, <3>4
      <3>8. QED
        BY <1>1, <1>3, <3>1, <3>5, <3>6, <3>7
    <2>2. CASE gc = "major"
      <3>1. /\ (Roots \cup Newborn) \cap Allocated \subseteq M
            /\ \A o \in M : Refs(o) \cap Allocated \subseteq M
        BY <2>2, <1>3, TraceCloses DEF Marked
      <3>2. Allocated' = M
        BY <2>2, <1>2 DEF Reclaimable
      <3>3. QED
        BY <1>1, <1>3, <3>1, <3>2
    <2>3. QED
      BY <2>1, <2>2
  <1>6. Allocated' \subseteq Allocated /\ Old' \subseteq Allocated' /\ Young' \cap M = {}
        /\ Young' \subseteq Young
    BY <1>2, <1>3 DEF Allocated
  <1>7. \A o \in Old' : Refs(o) \cap Young' = {}
    BY <1>5, <1>6
  <1>8. \A c \in Co : c \in Old' => Snapshot(c) \cap Young' = {}
    BY <1>7, RefsAre
  <1>9. QED
    BY <1>4, <1>5, <1>6, <1>7, <1>8

LEMMA CollectInv ==
    ASSUME IInv, NEW gc \in {"minor", "major"}, Collect(gc)
    PROVE  IInv'
  <1>1. UNCHANGED <<status, local, var, closed, next, head, snapTop, snap, chain, regs>>
        /\ remembered' = {}
    BY DEF Collect, stackVars, listVars, snapVars
  <1>2. /\ Running' = Running
        /\ \A c \in Co : /\ Open(c)' = Open(c) /\ Variables(c)' = Variables(c)
                         /\ Snapshot(c)' = Snapshot(c) /\ OpenList(c)' = OpenList(c)
    BY <1>1, ListsKept DEF Running, Open, Variables
  <1>3. /\ gen' \in [Obj -> {"none", "newborn", "aged", "old", "freed"}]
        /\ \A o \in Obj : gen'[o] = "none" <=> gen[o] = "none"
        /\ Allocated' \subseteq Allocated
    BY SpacesAfter
  <1>4. TypeOK'
    BY <1>1, <1>2, <1>3 DEF IInv, TypeOK
  <1>5. Phases'
    BY <1>1, <1>2, <1>3, CoroutineAssumption DEF IInv, Phases, Obj
  <1>6. ChainDistinct' /\ OpenHeld' /\ Links' /\ Order' /\ Heads' /\ Listed'
    BY <1>1, <1>2 DEF IInv, ChainDistinct, OpenHeld, Links, Order, Heads, Listed
  <1>7. RootsLive'
    <2>1. regs \subseteq Allocated'
      BY CollectKeeps, CoroutineAssumption DEF IInv, TypeOK, Roots, Obj
    <2>2. ASSUME NEW c \in Running PROVE Open(c) \subseteq Allocated'
      <3>1. c \in Co /\ Open(c) = OpenList(c) /\ None \notin Open(c)
        BY OpenListIs, CoroutineAssumption DEF IInv, TypeOK, Running, Open, Variables, Obj
      <3>2. QED
        BY <3>1, CollectKeeps DEF Roots, Contexts
    <2>3. QED
      BY <1>1, <1>2, <2>1, <2>2 DEF RootsLive, IInv, TypeOK, Running
  <1>8. ClosedLive'
    BY <1>1, CollectKeeps, RefsAre DEF ClosedLive
  <1>9. StackLive'
    <2>1. ASSUME NEW u \in Up, Of[u] \in Allocated', local[u] # None
          PROVE  local[u] \in Allocated'
      <3>1. Of[u] \in Co /\ snapTop[Of[u]]
        BY <2>1, CoroutineAssumption DEF IInv, Phases, Variables
      <3>2. QED
        BY <2>1, <3>1, CollectKeeps, RefsAre
    <2>2. QED
      BY <1>1, <2>1 DEF StackLive
  <1>10. Remembered'
    <2>1. ASSUME NEW u \in Up, Of[u] \in Old', Of[u] \notin Running, local[u] \in Young'
          PROVE  FALSE
      <3>1. local[u] # None
        BY <2>1, CoroutineAssumption DEF Young
      <3>2. Of[u] \in Co /\ snapTop[Of[u]]
        BY <3>1, CoroutineAssumption DEF IInv, Phases, Variables
      <3>3. QED
        BY <2>1, <3>1, <3>2, CollectKeeps, RefsAre
    <2>2. ASSUME NEW u \in Up, u \in Old', closed[u] \in Young'
          PROVE  FALSE
      <3>1. closed[u] # None /\ u \notin Running
        BY <2>2, CoroutineAssumption DEF Young, Running, IInv, TypeOK
      <3>2. QED
        BY <2>2, <3>1, CollectKeeps, RefsAre
    <2>3. QED
      BY <1>1, <1>2, <2>1, <2>2, CollectKeeps DEF Remembered
  <1>11. CoroutinesLive'
    <2>1. Running \subseteq Allocated'
      BY CollectKeeps, CoroutineAssumption DEF IInv, TypeOK, Roots, Running, Obj
    <2>2. \A c \in Co \cap Allocated' : Snapshot(c) \subseteq Allocated'
      BY CollectKeeps, RefsAre
    <2>3. QED
      BY <1>2, <2>1, <2>2 DEF CoroutinesLive
  <1>12. QED
    BY <1>4, <1>5, <1>6, <1>7, <1>8, <1>9, <1>10, <1>11 DEF IInv
-----------------------------------------------------------------------------
(***************************************************************************)
(* What scripts do.                                                        *)
(***************************************************************************)
LEMMA InitInv == Init => IInv
  <1>1. SUFFICES ASSUME Init PROVE IInv
    OBVIOUS
  <1>2. /\ Running = {} /\ Allocated = {} /\ Old = {} /\ DOMAIN chain = {}
        /\ \A c \in Co : Open(c) = {} /\ Variables(c) \subseteq Up /\ Snapshot(c) = {}
    BY <1>1 DEF Init, Running, Allocated, Young, Old, Open, Variables, Snapshot, List
  <1>3. TypeOK
    BY <1>1, <1>2, CoroutineAssumption DEF Init, TypeOK, Obj
  <1>4. Phases
    BY <1>1, <1>2, CoroutineAssumption DEF Init, Phases, Obj
  <1>5. Links /\ Order /\ Heads /\ Listed /\ ChainDistinct
    BY <1>1, <1>2 DEF Init, Links, Order, Heads, Listed, ChainDistinct
  <1>6. /\ RootsLive /\ ClosedLive /\ Remembered /\ OpenHeld
        /\ StackLive /\ CoroutinesLive
    BY <1>1, <1>2 DEF Init, RootsLive, ClosedLive, Remembered, OpenHeld, StackLive,
                      CoroutinesLive
  <1>7. QED
    BY <1>3, <1>4, <1>5, <1>6 DEF IInv

\* Steps that capture and close nothing leave the lists as they are.
LEMMA Untouched ==
    ASSUME IInv, UNCHANGED <<var, next, head, snap>>
    PROVE  /\ \A c \in Co : /\ Open(c)' = Open(c) /\ Variables(c)' = Variables(c)
                            /\ Snapshot(c)' = Snapshot(c)
           /\ Links' /\ Order' /\ Heads' /\ Listed'
  <1>1. \A c \in Co : /\ Open(c)' = Open(c) /\ Variables(c)' = Variables(c)
                      /\ Snapshot(c)' = Snapshot(c) /\ OpenList(c)' = OpenList(c)
    BY ListsKept DEF Open, Variables
  <1>2. Links' /\ Order' /\ Heads' /\ Listed'
    BY <1>1 DEF IInv, Links, Order, Heads, Listed
  <1>3. QED
    BY <1>1, <1>2

LEMMA CreateInv ==
    ASSUME IInv, NEW o \in Co \cup Val, Create(o)
    PROVE  IInv'
  <1>0. UNCHANGED <<status, local, var, closed, next, head, snapTop, snap, chain, remembered>>
        /\ gen' = [gen EXCEPT ![o] = "newborn"] /\ regs' = regs \cup {o} /\ gen[o] = "none"
    BY DEF Create, stackVars, listVars, snapVars
  <1>1. /\ Allocated' = Allocated \cup {o} /\ o \notin Allocated
        /\ Young' = Young \cup {o} /\ Old' = Old /\ Running' = Running
    BY <1>0 DEF IInv, TypeOK, Allocated, Young, Old, Running, Obj
  <1>2. /\ \A c \in Co : /\ Open(c)' = Open(c) /\ Variables(c)' = Variables(c)
                         /\ Snapshot(c)' = Snapshot(c)
        /\ Links' /\ Order' /\ Heads' /\ Listed'
    BY <1>0, Untouched
  <1>3. TypeOK'
    BY <1>0, <1>1 DEF IInv, TypeOK, Obj
  <1>4. o \notin Up
    BY CoroutineAssumption
  <1>5. Phases'
    BY <1>0, <1>2, <1>4 DEF IInv, TypeOK, Phases, Obj
  <1>6. ChainDistinct' /\ RootsLive' /\ OpenHeld'
    BY <1>0, <1>1, <1>2 DEF IInv, TypeOK, ChainDistinct, RootsLive, OpenHeld, Running
  <1>7. /\ \A u \in Up : Of[u] = o => local[u] = None
        /\ \A c \in Co : /\ c = o => Snapshot(c) = {}
                         /\ Snapshot(c) \subseteq Up
    BY <1>0, SnapshotIs, CoroutineAssumption DEF IInv, Phases, Variables
  <1>8. StackLive' /\ CoroutinesLive' /\ ClosedLive'
    BY <1>0, <1>1, <1>2, <1>4, <1>7
       DEF IInv, StackLive, CoroutinesLive, ClosedLive
  <1>9. Remembered'
    <2>1. Old \subseteq Allocated /\ None \notin Young \cup {o}
      BY CoroutineAssumption DEF Allocated, Young, Obj
    <2>2. ASSUME NEW u \in Up, Of[u] \in Old' \ Running', local'[u] \in Young'
          PROVE  Of[u] \in remembered'
      <3>1. Of[u] \in Old \ Running /\ local[u] \in Young \cup {o} /\ local[u] # None
        BY <1>0, <1>1, <2>1, <2>2
      <3>2. local[u] \in Allocated
        BY <2>1, <3>1 DEF IInv, StackLive
      <3>3. QED
        BY <1>0, <1>1, <3>1, <3>2 DEF IInv, Remembered
    <2>3. ASSUME NEW u \in Up, u \in Old', closed'[u] \in Young'
          PROVE  u \in remembered'
      <3>1. u \in Old /\ closed[u] \in Young \cup {o} /\ closed[u] # None
        BY <1>0, <1>1, <2>1, <2>3
      <3>2. closed[u] \in Allocated
        BY <2>1, <3>1 DEF IInv, ClosedLive
      <3>3. QED
        BY <1>0, <1>1, <3>1, <3>2 DEF IInv, Remembered
    <2>4. ASSUME NEW c \in Co, NEW u \in Snapshot(c)', c \in Old', u \in Young'
          PROVE  c \in remembered'
      BY <1>0, <1>1, <1>2, <1>4, <1>7, <2>4 DEF IInv, Remembered
    <2>5. QED
      BY <2>2, <2>3, <2>4 DEF Remembered
  <1>10. QED
    BY <1>2, <1>3, <1>5, <1>6, <1>8, <1>9 DEF IInv

LEMMA RecaptureInv ==
    ASSUME IInv, NEW u \in Up, Recapture(u)
    PROVE  IInv'
  <1>1. /\ UNCHANGED <<gen, status, local, var, closed, next, head, snapTop, snap, chain,
                       remembered>>
        /\ regs' = regs \cup {u} /\ Running' = Running
        /\ Young' = Young /\ Old' = Old /\ Allocated' = Allocated
    BY DEF Recapture, stackVars, listVars, snapVars, Running, Young, Old, Allocated
  <1>2. /\ \A c \in Co : /\ Open(c)' = Open(c) /\ Variables(c)' = Variables(c)
                         /\ Snapshot(c)' = Snapshot(c)
        /\ Links' /\ Order' /\ Heads' /\ Listed'
    BY <1>1, Untouched
  <1>3. u \in Allocated /\ u \in Obj
    <2>1. Of[u] \in Running /\ u \in Open(Of[u])
      BY ExecutingRuns, CoroutineAssumption DEF Recapture, Open, Variables
    <2>2. QED
      BY <2>1 DEF IInv, RootsLive, Obj
  <1>4. TypeOK' /\ Phases' /\ ChainDistinct'
    BY <1>1, <1>2, <1>3 DEF IInv, TypeOK, Phases, ChainDistinct
  <1>5. RootsLive' /\ ClosedLive' /\ Remembered' /\ OpenHeld' /\ StackLive' /\ CoroutinesLive'
    BY <1>1, <1>2, <1>3 DEF IInv, TypeOK, RootsLive, ClosedLive, Remembered, OpenHeld,
                            StackLive, CoroutinesLive, Running
  <1>6. QED
    BY <1>2, <1>4, <1>5 DEF IInv

\* Where a new upvalue goes, the list stays in order and complete.
LEMMA InsertKeeps ==
    ASSUME IInv, NEW u \in Up, Insert(u), var[u] = "none",
           var' = [var EXCEPT ![u] = "open"], UNCHANGED snap
    PROVE  /\ next' \in [Up -> Up \cup {None}] /\ head' \in [Co -> Up \cup {None}]
           /\ \A c \in Co : c # Of[u] => head'[c] = head[c] /\ Open(c)' = Open(c)
           /\ Open(Of[u])' = Open(Of[u]) \cup {u}
           /\ Links' /\ Order' /\ Heads' /\ Listed'
  <1> DEFINE c == Of[u]
             above == {w \in Open(c) : Slot[w] > Slot[u]}
  <1>1. /\ c \in Co /\ u \notin Open(c) /\ Open(c) \subseteq Up /\ next[u] = None
        /\ u # None /\ Slot \in [Up -> Nat]
        /\ \A w \in Open(c) : Of[w] = c /\ var[w] = "open" /\ w # None /\ Slot[w] # Slot[u]
    BY CoroutineAssumption DEF Open, Variables, IInv, Links, Obj
  <1>2. /\ \A d \in Co : d # c => Open(d)' = Open(d)
        /\ Open(c)' = Open(c) \cup {u}
        /\ var' \in [Up -> {"none", "open", "closed"}]
    BY <1>1, CoroutineAssumption DEF Open, Variables, IInv, TypeOK
  <1>3. CASE /\ above = {}
             /\ next' = [next EXCEPT ![u] = head[c]]
             /\ head' = [head EXCEPT ![c] = u]
    <2>1. /\ next' \in [Up -> Up \cup {None}] /\ head' \in [Co -> Up \cup {None}]
          /\ next'[u] = head[c] /\ head'[c] = u
          /\ \A w \in Up : w # u => next'[w] = next[w]
          /\ \A d \in Co : d # c => head'[d] = head[d]
      BY <1>1, <1>3 DEF IInv, TypeOK
    <2>2. /\ head[c] # None => head[c] \in Open(c) /\ Slot[head[c]] < Slot[u]
          /\ \A w \in Open(c) : /\ Slot[w] < Slot[u]
                                /\ head[c] # None /\ Slot[w] <= Slot[head[c]]
      BY <1>1, <1>3 DEF IInv, Heads
    <2>3. Links'
      <3>1. \A w \in Up : var'[w] = "none" <=> var[w] = "none" /\ w # u
        BY <1>2 DEF IInv, TypeOK
      <3>2. \A w \in Up : w # u =>
               /\ next'[w] # None => Of[next'[w]] = Of[w] /\ var'[next'[w]] # "none"
               /\ var'[w] = "none" => next'[w] = None
        BY <2>1, <3>1 DEF IInv, TypeOK, Links
      <3>3. next'[u] # None => Of[next'[u]] = Of[u] /\ var'[next'[u]] # "none"
        BY <1>1, <2>1, <2>2, <3>1
      <3>4. \A d \in Co : snap'[d] # None => Of[snap'[d]] = d /\ var'[snap'[d]] # "none"
        BY <3>1 DEF IInv, TypeOK, Links
      <3>5. QED
        BY <3>1, <3>2, <3>3, <3>4 DEF Links
    <2>4. Order'
      <3>1. ASSUME NEW d \in Co, d # c
            PROVE  \A x \in Open(d)' :
                     /\ next'[x] # None => next'[x] \in Open(d)' /\ Slot[next'[x]] < Slot[x]
                     /\ \A w \in Open(d)' :
                          Slot[w] < Slot[x] => next'[x] # None /\ Slot[w] <= Slot[next'[x]]
        <4>1. \A x \in Open(d) : x \in Up /\ x # u
          BY <1>1, <3>1 DEF Open, Variables
        <4>2. QED
          BY <1>2, <2>1, <3>1, <4>1 DEF IInv, Order
      <3>2. ASSUME NEW x \in Open(c)
            PROVE  /\ next'[x] # None => next'[x] \in Open(c)' /\ Slot[next'[x]] < Slot[x]
                   /\ \A w \in Open(c)' :
                        Slot[w] < Slot[x] => next'[x] # None /\ Slot[w] <= Slot[next'[x]]
        <4>1. next'[x] = next[x] /\ x \in Up
          BY <1>1, <2>1
        <4>2. Slot[x] < Slot[u] /\ Slot[x] \in Nat /\ Slot[u] \in Nat
          BY <1>1, <2>2
        <4>3. /\ next[x] # None => next[x] \in Open(c) /\ Slot[next[x]] < Slot[x]
              /\ \A w \in Open(c) :
                   Slot[w] < Slot[x] => next[x] # None /\ Slot[w] <= Slot[next[x]]
          BY <1>1 DEF IInv, Order
        <4>4. QED
          BY <1>2, <4>1, <4>2, <4>3
      <3>3. /\ next'[u] # None => next'[u] \in Open(c)' /\ Slot[next'[u]] < Slot[u]
            /\ \A w \in Open(c)' :
                 Slot[w] < Slot[u] => next'[u] # None /\ Slot[w] <= Slot[next'[u]]
        BY <1>1, <1>2, <2>1, <2>2
      <3>4. QED
        BY <1>2, <3>1, <3>2, <3>3 DEF Order
    <2>5. Heads'
      <3>1. ASSUME NEW d \in Co, d # c
            PROVE  /\ head'[d] # None => head'[d] \in Open(d)'
                   /\ \A w \in Open(d)' : head'[d] # None /\ Slot[w] <= Slot[head'[d]]
        BY <1>2, <2>1, <3>1 DEF IInv, Heads
      <3>2. /\ head'[c] # None => head'[c] \in Open(c)'
            /\ \A w \in Open(c)' : head'[c] # None /\ Slot[w] <= Slot[head'[c]]
        BY <1>1, <1>2, <2>1, <2>2
      <3>3. QED
        BY <3>1, <3>2 DEF Heads
    <2>6. Listed'
      <3>1. ASSUME NEW d \in Co, NEW w \in Open(d)'
            PROVE  w \in OpenList(d)'
        <4>1. head'[d] # None /\ w \in Up
          BY <2>5, <1>2, CoroutineAssumption DEF Heads, Open, Variables
        <4>2. ASSUME NEW S \in SUBSET Up, head'[d] \in S,
                     \A x \in S : next'[x] # None => next'[x] \in S
              PROVE  w \in S
          <5>1. \A x \in S : next[x] # None => next[x] \in S
            BY <1>1, <2>1, <4>2
          <5>2. CASE d = c
            <6>1. u \in S /\ (head[c] # None => head[c] \in S)
              BY <2>1, <4>2, <5>2
            <6>2. w # u => w \in OpenList(c)
              BY <1>2, <3>1, <5>2 DEF IInv, Listed
            <6>3. QED
              BY <5>1, <6>1, <6>2 DEF OpenList, List, From, Linked
          <5>3. CASE d # c
            <6>1. w \in OpenList(d) /\ head[d] \in S
              BY <1>2, <2>1, <3>1, <4>2, <5>3 DEF IInv, Listed
            <6>2. QED
              BY <5>1, <6>1 DEF OpenList, List, From, Linked
          <5>4. QED
            BY <5>2, <5>3
        <4>3. QED
          BY <4>1, <4>2 DEF OpenList, List, From, Linked
      <3>2. QED
        BY <3>1 DEF Listed
    <2>7. QED
      BY <1>2, <2>1, <2>3, <2>4, <2>5, <2>6
  <1>4. CASE \E p \in above :
               /\ \A w \in above : Slot[p] <= Slot[w]
               /\ next' = [next EXCEPT ![u] = next[p], ![p] = u]
               /\ UNCHANGED head
    <2>1. PICK p \in above : /\ \A w \in above : Slot[p] <= Slot[w]
                             /\ next' = [next EXCEPT ![u] = next[p], ![p] = u]
                             /\ head' = head
      BY <1>4
    <2>2. p \in Open(c) /\ p \in Up /\ p # u /\ Slot[p] > Slot[u] /\ Of[p] = c
      BY <1>1
    <2>3. /\ next' \in [Up -> Up \cup {None}] /\ head' \in [Co -> Up \cup {None}]
          /\ next'[u] = next[p] /\ next'[p] = u
          /\ \A w \in Up : w # u /\ w # p => next'[w] = next[w]
      BY <2>1, <2>2 DEF IInv, TypeOK
    <2>4. /\ next[p] # None => next[p] \in Open(c) /\ Slot[next[p]] < Slot[p]
          /\ \A w \in Open(c) : Slot[w] < Slot[p] => next[p] # None /\ Slot[w] <= Slot[next[p]]
      BY <1>1, <2>2 DEF IInv, Order
    <2>5. /\ next[p] # None => Slot[next[p]] < Slot[u]
          /\ \A w \in Open(c) : w # p => Slot[w] < Slot[u] \/ Slot[w] > Slot[p]
      <3>1. ASSUME NEW w \in Open(c), w # p
            PROVE  Slot[w] < Slot[u] \/ Slot[w] > Slot[p]
        <4>1. Slot[w] # Slot[p] /\ Slot[w] # Slot[u]
          BY <1>1, <2>2, <3>1, CoroutineAssumption
        <4>2. Slot[w] > Slot[u] => Slot[p] <= Slot[w]
          BY <2>1
        <4>3. Slot[w] \in Nat /\ Slot[p] \in Nat /\ Slot[u] \in Nat
          BY <1>1, <2>2
        <4>4. QED
          BY <4>1, <4>2, <4>3
      <3>2. ASSUME next[p] # None PROVE Slot[next[p]] < Slot[u]
        <4>1. next[p] \in Open(c) /\ Slot[next[p]] < Slot[p]
          BY <2>4, <3>2
        <4>2. Slot[next[p]] \in Nat /\ Slot[p] \in Nat
          BY <1>1, <2>2, <4>1
        <4>3. next[p] # p
          BY <4>1, <4>2
        <4>4. QED
          BY <3>1, <4>1, <4>2, <4>3
      <3>3. QED
        BY <3>1, <3>2
    <2>6. Links'
      <3>1. \A w \in Up : var'[w] = "none" <=> var[w] = "none" /\ w # u
        BY <1>2 DEF IInv, TypeOK
      <3>2. \A w \in Up : w # u /\ w # p =>
               /\ next'[w] # None => Of[next'[w]] = Of[w] /\ var'[next'[w]] # "none"
               /\ var'[w] = "none" => next'[w] = None
        BY <2>3, <3>1 DEF IInv, TypeOK, Links
      <3>3. /\ Of[next'[p]] = Of[p] /\ var'[next'[p]] # "none"
            /\ var'[p] # "none"
        BY <1>1, <2>2, <2>3, <3>1
      <3>4. next'[u] # None => Of[next'[u]] = Of[u] /\ var'[next'[u]] # "none"
        BY <1>1, <2>3, <2>4, <3>1
      <3>5. \A d \in Co : snap'[d] # None => Of[snap'[d]] = d /\ var'[snap'[d]] # "none"
        BY <3>1 DEF IInv, TypeOK, Links
      <3>6. QED
        BY <3>1, <3>2, <3>3, <3>4, <3>5 DEF Links
    <2>7. Order'
      <3>1. ASSUME NEW d \in Co, d # c
            PROVE  \A x \in Open(d)' :
                     /\ next'[x] # None => next'[x] \in Open(d)' /\ Slot[next'[x]] < Slot[x]
                     /\ \A w \in Open(d)' :
                          Slot[w] < Slot[x] => next'[x] # None /\ Slot[w] <= Slot[next'[x]]
        <4>1. \A x \in Open(d) : x \in Up /\ x # u /\ x # p
          BY <1>1, <2>2, <3>1 DEF Open, Variables
        <4>2. QED
          BY <1>2, <2>3, <3>1, <4>1 DEF IInv, Order
      <3>2. ASSUME NEW x \in Open(c), x # p
            PROVE  /\ next'[x] # None => next'[x] \in Open(c)' /\ Slot[next'[x]] < Slot[x]
                   /\ \A w \in Open(c)' :
                        Slot[w] < Slot[x] => next'[x] # None /\ Slot[w] <= Slot[next'[x]]
        <4>1. next'[x] = next[x] /\ x \in Up /\ x # u
          BY <1>1, <2>3, <3>2
        <4>2. /\ next[x] # None => next[x] \in Open(c) /\ Slot[next[x]] < Slot[x]
              /\ \A w \in Open(c) :
                   Slot[w] < Slot[x] => next[x] # None /\ Slot[w] <= Slot[next[x]]
          BY <1>1 DEF IInv, Order
        <4>3. ASSUME Slot[u] < Slot[x] PROVE next[x] # None /\ Slot[u] <= Slot[next[x]]
          <5>1. Slot[x] \in Nat /\ Slot[p] \in Nat /\ Slot[u] \in Nat
            BY <1>1, <2>2, <4>1
          <5>2. Slot[p] < Slot[x]
            BY <2>5, <3>2, <4>3, <5>1
          <5>3. next[x] # None /\ Slot[p] <= Slot[next[x]] /\ next[x] \in Up
            BY <1>1, <2>2, <4>2, <5>2
          <5>4. Slot[next[x]] \in Nat
            BY <1>1, <5>3
          <5>5. QED
            BY <2>2, <5>1, <5>3, <5>4
        <4>4. QED
          BY <1>2, <4>1, <4>2, <4>3
      <3>3. /\ next'[p] # None => next'[p] \in Open(c)' /\ Slot[next'[p]] < Slot[p]
            /\ \A w \in Open(c)' :
                 Slot[w] < Slot[p] => next'[p] # None /\ Slot[w] <= Slot[next'[p]]
        <4>1. Slot[u] \in Nat /\ \A w \in Open(c) : Slot[w] \in Nat
          BY <1>1
        <4>2. QED
          BY <1>1, <1>2, <2>2, <2>3, <2>5, <4>1
      <3>4. /\ next'[u] # None => next'[u] \in Open(c)' /\ Slot[next'[u]] < Slot[u]
            /\ \A w \in Open(c)' :
                 Slot[w] < Slot[u] => next'[u] # None /\ Slot[w] <= Slot[next'[u]]
        <4>1. Slot[u] \in Nat /\ Slot[p] \in Nat /\ \A w \in Open(c) : Slot[w] \in Nat
          BY <1>1, <2>2
        <4>2. QED
          BY <1>2, <2>2, <2>3, <2>4, <2>5, <4>1
      <3>5. QED
        BY <1>2, <3>1, <3>2, <3>3, <3>4 DEF Order
    <2>8. Heads'
      <3>1. ASSUME NEW d \in Co, d # c
            PROVE  /\ head'[d] # None => head'[d] \in Open(d)'
                   /\ \A w \in Open(d)' : head'[d] # None /\ Slot[w] <= Slot[head'[d]]
        BY <1>2, <2>1, <3>1 DEF IInv, Heads
      <3>2. /\ head'[c] # None => head'[c] \in Open(c)'
            /\ \A w \in Open(c)' : head'[c] # None /\ Slot[w] <= Slot[head'[c]]
        <4>1. /\ head[c] # None => head[c] \in Open(c)
              /\ \A w \in Open(c) : head[c] # None /\ Slot[w] <= Slot[head[c]]
          BY <1>1 DEF IInv, Heads
        <4>2. head[c] # None /\ Slot[p] <= Slot[head[c]] /\ head[c] \in Up
          BY <1>1, <2>2, <4>1
        <4>3. Slot[u] <= Slot[head[c]]
          BY <1>1, <2>2, <4>2
        <4>4. QED
          BY <1>2, <2>1, <4>1, <4>2, <4>3
      <3>3. QED
        BY <3>1, <3>2 DEF Heads
    <2>9. Listed'
      <3>1. ASSUME NEW d \in Co, NEW w \in Open(d)'
            PROVE  w \in OpenList(d)'
        <4>1. head'[d] # None /\ w \in Up
          BY <2>8, <1>2, CoroutineAssumption DEF Heads, Open, Variables
        <4>2. ASSUME NEW S \in SUBSET Up, head'[d] \in S,
                     \A x \in S : next'[x] # None => next'[x] \in S
              PROVE  w \in S
          <5>1. \A x \in S : next[x] # None => next[x] \in S
            <6>1. p \in S => (next[p] # None => next[p] \in S)
              BY <1>1, <2>3, <4>2
            <6>2. QED
              BY <1>1, <2>3, <4>2, <6>1
          <5>2. Open(d) \subseteq S
            <6>1. Open(d) \subseteq OpenList(d) /\ head[d] \in S
              BY <2>1, <4>2 DEF IInv, Listed
            <6>2. QED
              BY <5>1, <6>1 DEF OpenList, List, From, Linked
          <5>3. CASE w = u
            <6>1. d = c
              BY <1>2, <3>1, <5>3 DEF Open, Variables
            <6>2. QED
              BY <1>1, <2>2, <2>3, <4>2, <5>2, <5>3, <6>1
          <5>4. CASE w # u
            BY <1>2, <3>1, <5>2, <5>4
          <5>5. QED
            BY <5>3, <5>4
        <4>3. QED
          BY <4>1, <4>2 DEF OpenList, List, From, Linked
      <3>2. QED
        BY <3>1 DEF Listed
    <2>10. QED
      BY <1>2, <2>1, <2>3, <2>6, <2>7, <2>8, <2>9
  <1>5. QED
    BY <1>3, <1>4 DEF Insert

LEMMA CaptureInv ==
    ASSUME ~LateCaptures, IInv, NEW u \in Up, Capture(u)
    PROVE  IInv'
  <1> DEFINE c == Of[u]
  <1>1. /\ c \in Co /\ c \in Running /\ Running' = Running /\ u \in Obj /\ var[u] = "none"
        /\ status[c] = "running"
    <2>1. c \in Co /\ u \in Obj
      BY CoroutineAssumption DEF Obj
    <2>2. c \in Running
      BY <2>1, ExecutingRuns DEF Capture
    <2>3. QED
      BY <2>1, <2>2 DEF Capture, Running, IInv, TypeOK
  <1>2. /\ gen' = [gen EXCEPT ![u] = "newborn"]
        /\ var' = [var EXCEPT ![u] = "open"]
        /\ regs' = regs \cup {u}
        /\ UNCHANGED <<status, local, closed, snapTop, snap, chain, remembered>>
    BY DEF Capture, snapVars
  <1>3. /\ next' \in [Up -> Up \cup {None}] /\ head' \in [Co -> Up \cup {None}]
        /\ \A d \in Co : d # c => head'[d] = head[d] /\ Open(d)' = Open(d)
        /\ Open(c)' = Open(c) \cup {u}
        /\ Links' /\ Order' /\ Heads' /\ Listed'
    BY <1>1, <1>2, InsertKeeps DEF Capture
  <1>4. gen[u] = "none" /\ closed[u] = None
    BY <1>1 DEF IInv, Phases
  <1>5. /\ Allocated' = Allocated \cup {u} /\ u \notin Allocated
        /\ Young' = Young \cup {u} /\ Old' = Old
    BY <1>1, <1>2, <1>4 DEF IInv, TypeOK, Allocated, Young, Old
  <1>6. ASSUME NEW d \in Co
        PROVE  Snapshot(d)' \subseteq Snapshot(d) /\ u \notin Snapshot(d)
    <2>1. /\ Snapshot(d) \subseteq {w \in Variables(d) : var[w] # "none"}
          /\ Snapshot(d) \in SUBSET Up /\ (snap[d] \in Snapshot(d) \/ snap[d] = None)
          /\ \A w \in Snapshot(d) : next[w] # None => next[w] \in Snapshot(d)
      BY SnapshotIs DEF Variables
    <2>2. u \notin Snapshot(d)
      BY <1>1, <2>1
    <2>3. \A w \in Snapshot(d) : next'[w] = next[w]
      <3>1. CASE next' = [next EXCEPT ![u] = head[c]]
        BY <2>1, <2>2, <3>1 DEF IInv, TypeOK
      <3>2. CASE \E p \in Open(c) : /\ p \notin Snapshot(c)
                                    /\ next' = [next EXCEPT ![u] = next[p], ![p] = u]
        <4>1. PICK p \in Open(c) : /\ p \notin Snapshot(c)
                                   /\ next' = [next EXCEPT ![u] = next[p], ![p] = u]
          BY <3>2
        <4>2. p \notin Snapshot(d)
          BY <2>1, <4>1 DEF Open, Variables
        <4>3. QED
          BY <2>1, <2>2, <4>1, <4>2 DEF IInv, TypeOK
      <3>3. QED
        BY <3>1, <3>2 DEF Capture, Insert
    <2>4. QED
      BY <1>2, <2>1, <2>2, <2>3, SnapshotBound
  <1>7. TypeOK'
    BY <1>1, <1>2, <1>3 DEF IInv, TypeOK
  <1>8. Phases'
    <2>1. \A d \in Co : d # u /\ gen'[d] = gen[d] /\ Variables(d)' = Variables(d)
      BY <1>1, <1>2, CoroutineAssumption DEF IInv, TypeOK, Variables, Obj
    <2>2. \A w \in Up : w # u => gen'[w] = gen[w] /\ var'[w] = var[w]
      BY <1>2, CoroutineAssumption DEF IInv, TypeOK, Obj
    <2>3. gen'[u] = "newborn" /\ var'[u] = "open"
      BY <1>1, <1>2 DEF IInv, TypeOK
    <2>4. ASSUME NEW d \in Co
          PROVE  /\ snapTop'[d] <=> status'[d] \in {"running", "suspended"}
                 /\ ~snapTop'[d] => /\ snap'[d] = None
                                    /\ \A w \in Variables(d)' : local'[w] = None
                 /\ gen'[d] = "none" => status'[d] = "new"
      BY <1>2, <2>1 DEF IInv, Phases
    <2>5. ASSUME NEW d \in Co, status'[d] # "running"
          PROVE  head'[d] = snap'[d] /\ d # c
      BY <1>1, <1>2, <1>3, <2>5 DEF IInv, Phases
    <2>6. ASSUME NEW d \in Co, status'[d] = "new"
          PROVE  \A w \in Variables(d)' : var'[w] = "none"
      BY <1>2, <2>1, <2>2, <2>5, <2>6 DEF IInv, Phases, Variables
    <2>7. \A w \in Up : (var'[w] = "none" <=> gen'[w] = "none")
                        /\ (var'[w] # "closed" => closed'[w] = None)
      BY <1>2, <1>4, <2>2, <2>3 DEF IInv, Phases
    <2>8. QED
      BY <2>4, <2>5, <2>6, <2>7 DEF Phases
  <1>9. ChainDistinct' /\ RootsLive' /\ OpenHeld'
    <2>1. Running \subseteq Co
      BY DEF IInv, TypeOK, Running
    <2>2. QED
      BY <1>1, <1>2, <1>3, <1>5, <2>1 DEF IInv, ChainDistinct, RootsLive, OpenHeld
  <1>10. ClosedLive' /\ StackLive' /\ CoroutinesLive'
    <2>1. \A d \in Co : d # u
      BY CoroutineAssumption
    <2>2. \A w \in Up : Of[w] # u
      BY CoroutineAssumption
    <2>3. QED
      BY <1>1, <1>2, <1>4, <1>5, <1>6, <2>1, <2>2
         DEF IInv, ClosedLive, StackLive, CoroutinesLive
  <1>11. Remembered'
    <2>1. \A w \in Up : local[w] # u /\ closed[w] # u
      BY CoroutineAssumption DEF IInv, TypeOK, Obj
    <2>2. QED
      BY <1>1, <1>2, <1>5, <1>6, <2>1 DEF IInv, Remembered
  <1>12. QED
    BY <1>3, <1>7, <1>8, <1>9, <1>10, <1>11 DEF IInv

LEMMA AssignLocalInv ==
    ASSUME IInv, NEW u \in Up, NEW v \in Val, AssignLocal(u, v)
    PROVE  IInv'
  <1>1. /\ Of[u] \in Co /\ Of[u] \in Running /\ Running' = Running /\ v \in Allocated
        /\ Young' = Young /\ Old' = Old /\ Allocated' = Allocated
        /\ UNCHANGED <<gen, status, var, closed, next, head, snapTop, snap, chain, regs,
                       remembered>>
    BY ExecutingRuns, CoroutineAssumption
       DEF AssignLocal, Running, IInv, RootsLive, Young, Old, Allocated, listVars, snapVars
  <1>2. status[Of[u]] = "running" /\ local' = [local EXCEPT ![u] = v]
    BY <1>1 DEF AssignLocal, IInv, TypeOK
  <1>3. /\ \A c \in Co : /\ Open(c)' = Open(c) /\ Variables(c)' = Variables(c)
                         /\ Snapshot(c)' = Snapshot(c)
        /\ Links' /\ Order' /\ Heads' /\ Listed'
    BY <1>1, Untouched
  <1>4. TypeOK'
    BY <1>1, <1>2 DEF IInv, TypeOK
  <1>5. Phases'
    <2>1. \A c \in Co : ~snapTop[c] => u \notin Variables(c)
      BY <1>2 DEF IInv, Phases, Variables
    <2>2. QED
      BY <1>1, <1>2, <1>3, <2>1 DEF IInv, TypeOK, Phases, Variables
  <1>6. ChainDistinct' /\ RootsLive' /\ ClosedLive' /\ OpenHeld' /\ CoroutinesLive'
    BY <1>1, <1>3 DEF IInv, TypeOK, ChainDistinct, RootsLive, ClosedLive, OpenHeld,
                      CoroutinesLive, Running
  <1>7. StackLive' /\ Remembered'
    BY <1>1, <1>2, <1>3 DEF IInv, TypeOK, StackLive, Remembered
  <1>8. QED
    BY <1>3, <1>4, <1>5, <1>6, <1>7 DEF IInv

LEMMA SetUpvalInv ==
    ASSUME ~OutsideStores, IInv, NEW u \in Up, NEW v \in Val, SetUpval(u, v)
    PROVE  IInv'
  <1>1. /\ Of[u] \in Co /\ u \in Obj
        /\ Running' = Running /\ v \in Allocated /\ u \in Allocated
        /\ Young' = Young /\ Old' = Old /\ Allocated' = Allocated
        /\ remembered \subseteq remembered' /\ remembered' \subseteq remembered \cup {u}
        /\ UNCHANGED <<gen, status, var, next, head, snapTop, snap, chain, regs>>
    BY CoroutineAssumption DEF SetUpval, Barrier, Running, IInv, RootsLive, Young, Old,
                               Allocated, listVars, snapVars, Obj
  <1>2. /\ \A c \in Co : /\ Open(c)' = Open(c) /\ Variables(c)' = Variables(c)
                         /\ Snapshot(c)' = Snapshot(c)
        /\ Links' /\ Order' /\ Heads' /\ Listed'
    BY <1>1, Untouched
  <1>3. ChainDistinct' /\ RootsLive' /\ OpenHeld' /\ CoroutinesLive'
    BY <1>1, <1>2 DEF IInv, TypeOK, ChainDistinct, RootsLive, OpenHeld, CoroutinesLive,
                      Running
  <1>4. CASE var[u] = "open"
    <2>1. Of[u] \in Running /\ local' = [local EXCEPT ![u] = v] /\ closed' = closed
      BY <1>4 DEF SetUpval
    <2>2. status[Of[u]] = "running"
      BY <1>1, <2>1 DEF IInv, TypeOK
    <2>3. TypeOK'
      BY <1>1, <2>1 DEF IInv, TypeOK
    <2>4. Phases'
      <3>1. \A c \in Co : ~snapTop[c] => u \notin Variables(c)
        BY <2>2 DEF IInv, Phases, Variables
      <3>2. QED
        BY <1>1, <1>2, <2>1, <3>1 DEF IInv, TypeOK, Phases, Variables
    <2>5. ClosedLive' /\ StackLive' /\ Remembered'
      BY <1>1, <1>2, <2>1 DEF IInv, TypeOK, ClosedLive, StackLive, Remembered
    <2>6. QED
      BY <1>2, <1>3, <2>3, <2>4, <2>5 DEF IInv
  <1>5. CASE var[u] # "open"
    <2>1. closed' = [closed EXCEPT ![u] = v] /\ local' = local
      BY <1>5 DEF SetUpval
    <2>2. var[u] = "closed"
      BY <1>1, <1>5 DEF IInv, TypeOK, Phases, Allocated, Young, Old
    <2>3. TypeOK'
      BY <1>1, <2>1 DEF IInv, TypeOK
    <2>4. Phases'
      BY <1>1, <1>2, <2>1, <2>2 DEF IInv, TypeOK, Phases
    <2>5. ClosedLive' /\ StackLive'
      BY <1>1, <2>1 DEF IInv, TypeOK, ClosedLive, StackLive
    <2>6. u \in Old /\ v \in Young => u \in remembered'
      BY DEF SetUpval, Barrier, Old
    <2>7. Remembered'
      BY <1>1, <1>2, <2>1, <2>6 DEF IInv, TypeOK, Remembered
    <2>8. QED
      BY <1>2, <1>3, <2>3, <2>4, <2>5, <2>7 DEF IInv
  <1>6. QED
    BY <1>4, <1>5

LEMMA ReadInv ==
    ASSUME IInv, NEW u \in Up, Read(u)
    PROVE  IInv'
  <1>1. PICK v : /\ v = IF var[u] = "closed" THEN closed[u] ELSE local[u]
                 /\ v # None /\ regs' = regs \cup {v}
    BY DEF Read
  <1>2. v \in Allocated
    <2>1. CASE var[u] = "closed"
      BY <1>1, <2>1 DEF Read, IInv, RootsLive, ClosedLive
    <2>2. CASE var[u] # "closed"
      BY <1>1, <2>2 DEF Read, IInv, StackLive
    <2>3. QED
      BY <2>1, <2>2
  <1>3. Allocated \subseteq Obj
    BY DEF Allocated, Young, Old
  <1>4. /\ Running' = Running /\ Allocated' = Allocated /\ Young' = Young /\ Old' = Old
        /\ UNCHANGED <<gen, status, local, var, closed, next, head, snapTop, snap, chain,
                       remembered>>
    BY DEF Read, Running, Allocated, Young, Old, stackVars, listVars, snapVars
  <1>5. /\ \A c \in Co : /\ Open(c)' = Open(c) /\ Variables(c)' = Variables(c)
                         /\ Snapshot(c)' = Snapshot(c)
        /\ Links' /\ Order' /\ Heads' /\ Listed'
    BY <1>4, Untouched
  <1>6. TypeOK' /\ Phases' /\ ChainDistinct'
    BY <1>1, <1>2, <1>3, <1>4, <1>5 DEF IInv, TypeOK, Phases, ChainDistinct
  <1>7. RootsLive' /\ OpenHeld'
    <2>1. Running \subseteq Co
      BY DEF IInv, TypeOK, Running
    <2>2. QED
      BY <1>1, <1>2, <1>4, <1>5, <2>1 DEF IInv, RootsLive, OpenHeld
  <1>8. ClosedLive' /\ Remembered' /\ StackLive' /\ CoroutinesLive'
    BY <1>4, <1>5 DEF IInv, ClosedLive, Remembered, StackLive, CoroutinesLive
  <1>9. QED
    BY <1>5, <1>6, <1>7, <1>8 DEF IInv

LEMMA UnrootInv ==
    ASSUME IInv, NEW o \in Obj, Unroot(o)
    PROVE  IInv'
  <1>1. /\ Running' = Running /\ Allocated' = Allocated /\ Young' = Young /\ Old' = Old
        /\ UNCHANGED <<gen, status, local, var, closed, next, head, snapTop, snap, chain,
                       remembered>>
        /\ regs' = regs \ {o}
    BY DEF Unroot, Running, Allocated, Young, Old, stackVars, listVars, snapVars
  <1>2. /\ \A c \in Co : /\ Open(c)' = Open(c) /\ Variables(c)' = Variables(c)
                         /\ Snapshot(c)' = Snapshot(c)
        /\ Links' /\ Order' /\ Heads' /\ Listed'
    BY <1>1, Untouched
  <1>3. TypeOK' /\ Phases' /\ ChainDistinct'
    BY <1>1, <1>2 DEF IInv, TypeOK, Phases, ChainDistinct
  <1>4. OpenHeld'
    BY <1>1, <1>2 DEF Unroot, IInv, OpenHeld
  <1>5. RootsLive' /\ ClosedLive' /\ Remembered' /\ StackLive' /\ CoroutinesLive'
    BY <1>1, <1>2 DEF IInv, TypeOK, RootsLive, ClosedLive, Remembered, StackLive,
                      CoroutinesLive, Running
  <1>6. QED
    BY <1>2, <1>3, <1>4, <1>5 DEF IInv

\* What closing remembers.
LEMMA CloseBarriersAre ==
    ASSUME NEW us
    PROVE  /\ remembered \subseteq CloseBarriers(us)
           /\ CloseBarriers(us) \subseteq remembered \cup us
           /\ \A u \in us : u \in Old /\ local[u] \in Young => u \in CloseBarriers(us)
  <1>1. \A u \in us : Barrier(u, local[u]) \subseteq remembered \cup {u}
    BY DEF Barrier
  <1>2. \A u \in us : u \in Old /\ local[u] \in Young => u \in Barrier(u, local[u])
    BY DEF Barrier, Old
  <1>3. QED
    BY <1>1, <1>2 DEF CloseBarriers

LEMMA CloseInv ==
    ASSUME IInv, NEW u \in Up, Close(u)
    PROVE  IInv'
  <1> DEFINE c == Of[u]
             us == {w \in Open(c) : Slot[w] >= Slot[u]}
  <1>1. /\ c \in Co /\ c \in Running /\ Running' = Running /\ status[c] = "running"
        /\ Young' = Young /\ Old' = Old /\ Allocated' = Allocated
        /\ UNCHANGED <<gen, status, next, snapTop, snap, chain, regs>>
        /\ c \in Allocated
    BY ExecutingRuns, CoroutineAssumption
       DEF Close, Running, IInv, TypeOK, CoroutinesLive, Young, Old, Allocated, snapVars
  <1>2. /\ local' = [w \in Up |-> IF w \in us THEN None ELSE local[w]]
        /\ var' = [w \in Up |-> IF w \in us THEN "closed" ELSE var[w]]
        /\ closed' = [w \in Up |-> IF w \in us THEN local[w] ELSE closed[w]]
        /\ head' = [head EXCEPT ![c] = next[u]]
    BY DEF Close, CloseUpvalues
  <1>3. /\ remembered \subseteq remembered' /\ remembered' \subseteq remembered \cup us
        /\ \A w \in us : w \in Old /\ local[w] \in Young => w \in remembered'
    BY CloseBarriersAre DEF Close
  <1>4. /\ us \subseteq Open(c) /\ Open(c) \subseteq Up /\ u \in us /\ u \in Open(c)
        /\ \A w \in us : Of[w] = c /\ var[w] = "open" /\ w \in Up /\ w \in Obj
        /\ \A w \in Open(c) : Slot[w] \in Nat
    BY CoroutineAssumption DEF Close, Open, Variables, Obj
  <1>5. /\ Open(c)' = {w \in Open(c) : Slot[w] < Slot[u]}
        /\ Open(c)' = Open(c) \ us
        /\ \A d \in Co : /\ d # c => Open(d)' = Open(d) /\ head'[d] = head[d]
                         /\ Variables(d)' = Variables(d) /\ Snapshot(d)' = Snapshot(d)
        /\ head'[c] = next[u]
    <2>1. \A d \in Co : d # c => Open(d)' = Open(d)
      BY <1>2, <1>4 DEF Open, Variables
    <2>2. Open(c)' = Open(c) \ us
      BY <1>2, <1>4 DEF Open, Variables
    <2>3. Open(c) \ us = {w \in Open(c) : Slot[w] < Slot[u]}
      BY <1>4
    <2>4. \A d \in Co : Variables(d)' = Variables(d) /\ Snapshot(d)' = Snapshot(d)
      BY <1>1, ListsKept DEF Variables
    <2>5. QED
      BY <1>1, <1>2, <2>1, <2>2, <2>3, <2>4 DEF IInv, TypeOK
  <1>6. \A w \in us : local[w] # None => local[w] \in Allocated
    BY <1>1, <1>4 DEF IInv, StackLive
  <1>7. TypeOK'
    <2>1. next[u] \in Up \cup {None}
      BY DEF IInv, TypeOK
    <2>2. remembered' \subseteq Obj
      BY <1>3, <1>4 DEF IInv, TypeOK
    <2>3. QED
      BY <1>1, <1>2, <1>4, <2>1, <2>2 DEF IInv, TypeOK
  <1>8. Phases'
    <2>1. ASSUME NEW d \in Co
          PROVE  /\ snapTop'[d] <=> status'[d] \in {"running", "suspended"}
                 /\ ~snapTop'[d] => /\ snap'[d] = None
                                    /\ \A w \in Variables(d)' : local'[w] = None
                 /\ status'[d] # "running" => head'[d] = snap'[d]
                 /\ gen'[d] = "none" => status'[d] = "new"
      BY <1>1, <1>2, <1>5 DEF IInv, Phases, Variables
    <2>2. ASSUME NEW d \in Co, status'[d] = "new", NEW w \in Variables(d)
          PROVE  var'[w] = "none"
      <3>1. d # c /\ w \notin us /\ w \in Up
        BY <1>1, <1>4, <2>2 DEF Variables
      <3>2. QED
        BY <1>1, <1>2, <2>2, <3>1 DEF IInv, Phases
    <2>3. ASSUME NEW w \in Up
          PROVE  /\ var'[w] = "none" <=> gen'[w] = "none"
                 /\ var'[w] # "closed" => closed'[w] = None
      <3>1. CASE w \in us
        BY <1>1, <1>2, <1>4, <3>1 DEF IInv, Phases
      <3>2. CASE w \notin us
        BY <1>1, <1>2, <3>2 DEF IInv, Phases
      <3>3. QED
        BY <3>1, <3>2
    <2>4. QED
      BY <1>5, <2>1, <2>2, <2>3 DEF Phases
  <1>9. Links'
    <2>1. \A w \in Up : var'[w] = "none" <=> var[w] = "none"
      BY <1>2, <1>4
    <2>2. QED
      BY <1>1, <2>1 DEF IInv, TypeOK, Links
  <1>10. ASSUME NEW x \in Open(c)
         PROVE  /\ next[x] # None => next[x] \in Open(c) /\ Slot[next[x]] < Slot[x]
                /\ \A w \in Open(c) :
                     Slot[w] < Slot[x] => next[x] # None /\ Slot[w] <= Slot[next[x]]
    BY <1>1 DEF IInv, Order
  <1>11. Order'
    <2>1. ASSUME NEW x \in Open(c)'
          PROVE  /\ next'[x] # None => next'[x] \in Open(c)' /\ Slot[next'[x]] < Slot[x]
                 /\ \A w \in Open(c)' :
                      Slot[w] < Slot[x] => next'[x] # None /\ Slot[w] <= Slot[next'[x]]
      <3>1. x \in Open(c) /\ Slot[x] < Slot[u] /\ next'[x] = next[x]
        BY <1>1, <1>5
      <3>2. next[x] # None => next[x] \in Open(c) /\ Slot[next[x]] < Slot[u]
        BY <1>4, <1>10, <3>1
      <3>3. QED
        BY <1>5, <1>10, <3>1, <3>2
    <2>2. \A d \in Co : d # c => \A x \in Open(d)' :
             /\ next'[x] # None => next'[x] \in Open(d)' /\ Slot[next'[x]] < Slot[x]
             /\ \A w \in Open(d)' :
                  Slot[w] < Slot[x] => next'[x] # None /\ Slot[w] <= Slot[next'[x]]
      BY <1>1, <1>5 DEF IInv, Order
    <2>3. QED
      BY <2>1, <2>2 DEF Order
  <1>12. Heads'
    <2>1. /\ head'[c] # None => head'[c] \in Open(c)'
          /\ \A w \in Open(c)' : head'[c] # None /\ Slot[w] <= Slot[head'[c]]
      BY <1>4, <1>5, <1>10
    <2>2. \A d \in Co : d # c =>
             /\ head'[d] # None => head'[d] \in Open(d)'
             /\ \A w \in Open(d)' : head'[d] # None /\ Slot[w] <= Slot[head'[d]]
      BY <1>5 DEF IInv, Heads
    <2>3. QED
      BY <2>1, <2>2 DEF Heads
  <1>13. Listed'
    <2>1. ASSUME NEW w \in Open(c)' PROVE w \in OpenList(c)'
      <3>1. head'[c] # None /\ w \in Open(c) /\ w \notin us /\ w \in Up
        BY <1>1, <1>4, <1>5, <1>12 DEF Heads
      <3>2. ASSUME NEW S \in SUBSET Up, head'[c] \in S,
                   \A x \in S : next'[x] # None => next'[x] \in S
            PROVE  w \in S
        <4>1. S \cup us \in SUBSET Up /\ Linked(S \cup us)
          <5>1. ASSUME NEW x \in us, next[x] # None PROVE next[x] \in S \cup us
            <6>1. CASE x = u
              BY <1>5, <3>2, <6>1
            <6>2. CASE x # u
              <7>1. Slot[u] < Slot[x] /\ x \in Open(c)
                BY <1>4, <5>1, <6>2, CoroutineAssumption
              <7>2. next[x] \in Open(c) /\ Slot[u] <= Slot[next[x]]
                BY <1>4, <1>10, <5>1, <7>1
              <7>3. QED
                BY <1>4, <7>2
            <6>3. QED
              BY <6>1, <6>2
          <5>2. QED
            BY <1>1, <1>4, <3>2, <5>1 DEF Linked
        <4>2. head[c] # None /\ head[c] \in us
          <5>1. head[c] # None /\ Slot[u] <= Slot[head[c]] /\ head[c] \in Open(c)
            BY <1>1, <1>4 DEF IInv, Heads
          <5>2. QED
            BY <1>4, <5>1
        <4>3. w \in OpenList(c)
          BY <1>1, <3>1 DEF IInv, Listed
        <4>4. w \in S \cup us
          BY <4>1, <4>2, <4>3 DEF OpenList, List, From
        <4>5. QED
          BY <3>1, <4>4
      <3>3. QED
        BY <3>1, <3>2 DEF OpenList, List, From, Linked
    <2>2. \A d \in Co : d # c => OpenList(d)' = OpenList(d)
      BY <1>1, <1>5, ListsKept
    <2>3. QED
      BY <1>5, <2>1, <2>2 DEF IInv, Listed
  <1>14. ChainDistinct' /\ RootsLive' /\ OpenHeld' /\ CoroutinesLive'
    <2>1. Running \subseteq Co /\ \A d \in Co : Open(d)' \subseteq Open(d)
      BY <1>5 DEF IInv, TypeOK, Running
    <2>2. QED
      BY <1>1, <1>5, <2>1 DEF IInv, ChainDistinct, RootsLive, OpenHeld, CoroutinesLive
  <1>15. ClosedLive' /\ StackLive'
    BY <1>1, <1>2, <1>6 DEF IInv, ClosedLive, StackLive
  <1>16. Remembered'
    <2>1. None \notin Young
      BY CoroutineAssumption DEF Young
    <2>2. QED
      BY <1>1, <1>2, <1>3, <1>5, <2>1 DEF IInv, Remembered
  <1>17. QED
    BY <1>7, <1>8, <1>9, <1>11, <1>12, <1>13, <1>14, <1>15, <1>16 DEF IInv

LEMMA ResumeInv ==
    ASSUME IInv, NEW c \in Co, Resume(c)
    PROVE  IInv'
  <1>1. c \notin Running /\ c \in Allocated /\ head[c] = snap[c]
    BY DEF Resume, IInv, TypeOK, RootsLive, Phases
  <1>2. chain' \in Seq(Co) /\ ChainDistinct' /\ Running' = Running \cup {c}
    BY <1>1, ChainGrows DEF Resume
  <1>3. /\ status' = [status EXCEPT ![c] = "running"]
        /\ snapTop' = [snapTop EXCEPT ![c] = TRUE]
        /\ Young' = Young /\ Old' = Old /\ Allocated' = Allocated
        /\ UNCHANGED <<gen, local, var, closed, next, snap, regs, remembered>>
        /\ head' = head
    BY <1>1 DEF Resume, stackVars, Young, Old, Allocated, IInv, TypeOK
  <1>4. /\ \A d \in Co : /\ Open(d)' = Open(d) /\ Variables(d)' = Variables(d)
                         /\ Snapshot(d)' = Snapshot(d)
        /\ Links' /\ Order' /\ Heads' /\ Listed'
    BY <1>3, Untouched
  <1>5. TypeOK'
    BY <1>2, <1>3 DEF IInv, TypeOK
  <1>6. Phases'
    <2>1. gen[c] # "none"
      BY <1>1 DEF Allocated, Young, Old
    <2>2. QED
      BY <1>3, <1>4, <2>1 DEF IInv, TypeOK, Phases
  <1>7. RootsLive'
    <2>1. Open(c) \subseteq Allocated
      <3>1. Open(c) \subseteq Snapshot(c)
        BY <1>1 DEF IInv, Listed, OpenList, Snapshot
      <3>2. QED
        BY <1>1, <3>1 DEF IInv, CoroutinesLive
    <2>2. Running \subseteq Co
      BY DEF IInv, TypeOK, Running
    <2>3. QED
      BY <1>2, <1>3, <1>4, <2>1, <2>2 DEF IInv, RootsLive
  <1>8. ClosedLive' /\ Remembered' /\ OpenHeld' /\ StackLive' /\ CoroutinesLive'
    BY <1>1, <1>2, <1>3, <1>4
       DEF IInv, ClosedLive, Remembered, OpenHeld, StackLive, CoroutinesLive
  <1>9. QED
    BY <1>2, <1>4, <1>5, <1>6, <1>7, <1>8 DEF IInv

LEMMA YieldInv ==
    ASSUME IInv, NEW c \in Co, Yield(c)
    PROVE  IInv'
  <1>1. /\ chain' \in Seq(Co) /\ ChainDistinct'
        /\ Running' = Running \ {c} /\ c \in Running
    BY ChainShrinks DEF Yield
  <1>2. /\ status' = [status EXCEPT ![c] = "suspended"]
        /\ snap' = [snap EXCEPT ![c] = head[c]]
        /\ remembered' = RememberIfOld(c)
        /\ Young' = Young /\ Old' = Old /\ Allocated' = Allocated
        /\ UNCHANGED <<gen, local, var, closed, next, head, snapTop, regs>>
    BY DEF Yield, stackVars, listVars, Young, Old, Allocated
  <1>3. /\ remembered \subseteq remembered' /\ remembered' \subseteq remembered \cup {c}
        /\ c \in Old => c \in remembered'
    BY <1>2 DEF RememberIfOld, Old
  <1>4. c \in Obj /\ status[c] = "running" /\ gen[c] # "none"
    BY <1>1 DEF IInv, TypeOK, Obj, Phases
  <1>5. /\ \A d \in Co : /\ Open(d)' = Open(d) /\ Variables(d)' = Variables(d)
                         /\ OpenList(d)' = OpenList(d)
                         /\ d # c => snap'[d] = snap[d] /\ Snapshot(d)' = Snapshot(d)
        /\ snap'[c] = head[c] /\ Snapshot(c)' = Open(c)
    <2>1. \A d \in Co : d # c => snap'[d] = snap[d]
      BY <1>2 DEF IInv, TypeOK
    <2>2. snap'[c] = head[c]
      BY <1>2 DEF IInv, TypeOK
    <2>3. Snapshot(c)' = OpenList(c)
      BY <1>2, <2>2, ListsKept
    <2>4. \A d \in Co : /\ Open(d)' = Open(d) /\ Variables(d)' = Variables(d)
                        /\ OpenList(d)' = OpenList(d)
                        /\ d # c => Snapshot(d)' = Snapshot(d)
      BY <1>2, <2>1, ListsKept DEF Open, Variables
    <2>5. QED
      BY <2>1, <2>2, <2>3, <2>4, OpenListIs
  <1>6. TypeOK'
    BY <1>1, <1>2, <1>3, <1>4 DEF IInv, TypeOK
  <1>7. Phases'
    BY <1>2, <1>4, <1>5 DEF IInv, TypeOK, Phases
  <1>8. Links' /\ Order' /\ Heads' /\ Listed'
    <2>1. head[c] # None => Of[head[c]] = c /\ var[head[c]] # "none"
      BY DEF IInv, Heads, Open, Variables
    <2>2. Links'
      BY <1>2, <1>5, <2>1 DEF IInv, Links
    <2>3. QED
      BY <1>2, <1>5, <2>2 DEF IInv, Order, Heads, Listed
  <1>9. RootsLive' /\ ClosedLive' /\ OpenHeld' /\ StackLive'
    <2>1. Running \subseteq Co
      BY DEF IInv, TypeOK, Running
    <2>2. QED
      BY <1>1, <1>2, <1>5, <2>1 DEF Yield, IInv, RootsLive, ClosedLive, OpenHeld, StackLive
  <1>10. CoroutinesLive'
    BY <1>1, <1>2, <1>5 DEF IInv, RootsLive, CoroutinesLive
  <1>11. Remembered'
    BY <1>1, <1>2, <1>3, <1>5 DEF IInv, Remembered
  <1>12. QED
    BY <1>1, <1>6, <1>7, <1>8, <1>9, <1>10, <1>11 DEF IInv

LEMMA FinishInv ==
    ASSUME IInv, NEW c \in Co, Finish(c)
    PROVE  IInv'
  <1>1. /\ chain' \in Seq(Co) /\ ChainDistinct'
        /\ Running' = Running \ {c} /\ c \in Running
    BY ChainShrinks DEF Finish
  <1>2. /\ status' = [status EXCEPT ![c] = "dead"]
        /\ local' = [u \in Up |-> IF u \in Variables(c) THEN None ELSE local[u]]
        /\ var' = [u \in Up |-> IF u \in Open(c) THEN "closed" ELSE var[u]]
        /\ closed' = [u \in Up |-> IF u \in Open(c) THEN local[u] ELSE closed[u]]
        /\ head' = [head EXCEPT ![c] = None]
        /\ snapTop' = [snapTop EXCEPT ![c] = FALSE]
        /\ snap' = [snap EXCEPT ![c] = None]
        /\ Young' = Young /\ Old' = Old /\ Allocated' = Allocated
        /\ UNCHANGED <<gen, next, regs>>
    BY DEF Finish, CloseUpvalues, Young, Old, Allocated
  <1>3. /\ c \in Obj /\ status[c] = "running" /\ gen[c] # "none" /\ c \in Allocated
        /\ Open(c) \subseteq Obj /\ Open(c) \subseteq Variables(c) /\ Variables(c) \subseteq Up
        /\ \A u \in Variables(c) : Of[u] = c
        /\ \A u \in Open(c) : var[u] = "open"
    BY <1>1 DEF IInv, TypeOK, Phases, Obj, CoroutinesLive, Open, Variables
  <1>4. /\ remembered \subseteq remembered' /\ remembered' \subseteq remembered \cup Open(c) \cup {c}
        /\ \A u \in Open(c) : u \in Old /\ local[u] \in Young => u \in remembered'
    <2>1. RememberIfOld(c) \subseteq remembered \cup {c}
      BY DEF RememberIfOld
    <2>2. QED
      BY <2>1, CloseBarriersAre DEF Finish
  <1>5. /\ Open(c)' = {} /\ head'[c] = None /\ snap'[c] = None /\ Snapshot(c)' = {}
        /\ \A d \in Co : Variables(d)' = Variables(d)
        /\ \A d \in Co : d # c => /\ Open(d)' = Open(d) /\ head'[d] = head[d]
                                  /\ snap'[d] = snap[d] /\ Snapshot(d)' = Snapshot(d)
                                  /\ OpenList(d)' = OpenList(d)
    <2>1. head'[c] = None /\ snap'[c] = None
      BY <1>2 DEF IInv, TypeOK
    <2>2. \A d \in Co : d # c => head'[d] = head[d] /\ snap'[d] = snap[d]
      BY <1>2 DEF IInv, TypeOK
    <2>3. Open(c)' = {} /\ \A d \in Co : d # c => Open(d)' = Open(d)
      BY <1>2, <1>3 DEF Open, Variables
    <2>4. /\ \A d \in Co : Variables(d)' = Variables(d)
          /\ Snapshot(c)' = {}
          /\ \A d \in Co : d # c => Snapshot(d)' = Snapshot(d) /\ OpenList(d)' = OpenList(d)
      BY <1>2, <2>1, <2>2, ListsKept DEF Variables
    <2>5. QED
      BY <2>1, <2>2, <2>3, <2>4
  <1>6. \A u \in Open(c) : local[u] # None => local[u] \in Allocated
    BY <1>3 DEF IInv, StackLive
  <1>7. TypeOK'
    <2>1. remembered' \subseteq Obj
      BY <1>3, <1>4 DEF IInv, TypeOK
    <2>2. QED
      BY <1>1, <1>2, <2>1 DEF IInv, TypeOK
  <1>8. Phases'
    <2>1. ASSUME NEW d \in Co
          PROVE  /\ snapTop'[d] <=> status'[d] \in {"running", "suspended"}
                 /\ ~snapTop'[d] => /\ snap'[d] = None
                                    /\ \A u \in Variables(d) : local'[u] = None
                 /\ status'[d] # "running" => head'[d] = snap'[d]
                 /\ status'[d] = "new" => \A u \in Variables(d) : var'[u] = "none"
                 /\ gen'[d] = "none" => status'[d] = "new"
      <3>1. CASE d = c
        BY <1>2, <1>3, <1>5, <3>1 DEF IInv, TypeOK
      <3>2. CASE d # c
        <4>1. \A u \in Variables(d) : u \in Up /\ u \notin Variables(c)
          BY <1>3, <3>2 DEF Variables
        <4>2. status'[d] = status[d] /\ snapTop'[d] = snapTop[d] /\ gen'[d] = gen[d]
          BY <1>2, <3>2 DEF IInv, TypeOK
        <4>3. QED
          BY <1>2, <1>3, <1>5, <3>2, <4>1, <4>2 DEF IInv, Phases
      <3>3. QED
        BY <3>1, <3>2
    <2>2. ASSUME NEW u \in Up
          PROVE  /\ var'[u] = "none" <=> gen'[u] = "none"
                 /\ var'[u] # "closed" => closed'[u] = None
      <3>1. CASE u \in Open(c)
        BY <1>2, <1>3, <3>1 DEF IInv, Phases
      <3>2. CASE u \notin Open(c)
        BY <1>2, <3>2 DEF IInv, Phases
      <3>3. QED
        BY <3>1, <3>2
    <2>3. QED
      BY <1>5, <2>1, <2>2 DEF Phases
  <1>9. Links'
    <2>1. \A w \in Up : var'[w] = "none" <=> var[w] = "none"
      BY <1>2, <1>3
    <2>2. QED
      BY <1>2, <1>5, <2>1 DEF IInv, TypeOK, Links
  <1>10. Order' /\ Heads' /\ Listed'
    BY <1>2, <1>5 DEF IInv, Order, Heads, Listed
  <1>11. RootsLive' /\ OpenHeld' /\ CoroutinesLive'
    <2>1. Running \subseteq Co
      BY DEF IInv, TypeOK, Running
    <2>2. QED
      BY <1>1, <1>2, <1>5, <2>1 DEF IInv, RootsLive, OpenHeld, CoroutinesLive
  <1>12. ClosedLive' /\ StackLive'
    BY <1>2, <1>3, <1>6 DEF IInv, ClosedLive, StackLive
  <1>13. Remembered'
    <2>1. None \notin Young
      BY CoroutineAssumption DEF Young
    <2>2. ASSUME NEW u \in Up, Of[u] \in Old', Of[u] \notin Running', local'[u] \in Young'
          PROVE  Of[u] \in remembered'
      <3>1. u \notin Variables(c) /\ Of[u] # c /\ local'[u] = local[u]
        BY <1>2, <2>1, <2>2 DEF Variables
      <3>2. QED
        BY <1>1, <1>2, <1>4, <2>2, <3>1 DEF IInv, Remembered
    <2>3. ASSUME NEW u \in Up, u \in Old', closed'[u] \in Young'
          PROVE  u \in remembered'
      BY <1>2, <1>4, <2>3 DEF IInv, Remembered
    <2>4. ASSUME NEW d \in Co, NEW u \in Snapshot(d)', d \in Old', u \in Young'
          PROVE  d \in remembered'
      BY <1>2, <1>4, <1>5, <2>4 DEF IInv, Remembered
    <2>5. QED
      BY <2>2, <2>3, <2>4 DEF Remembered
  <1>14. QED
    BY <1>1, <1>7, <1>8, <1>9, <1>10, <1>11, <1>12, <1>13 DEF IInv
-----------------------------------------------------------------------------
LEMMA NextInv ==
    ASSUME ~OutsideStores, ~LateCaptures, IInv, [Next]_vars
    PROVE  IInv'
  <1>1. CASE \E o \in Co \cup Val : Create(o)
    BY <1>1, CreateInv
  <1>2. CASE \E o \in Obj : Unroot(o)
    BY <1>2, UnrootInv
  <1>3. ASSUME NEW u \in Up,
               \/ Recapture(u) \/ Capture(u) \/ Read(u) \/ Close(u)
               \/ \E v \in Val : AssignLocal(u, v) \/ SetUpval(u, v)
        PROVE  IInv'
    BY <1>3, RecaptureInv, CaptureInv, ReadInv, CloseInv, AssignLocalInv, SetUpvalInv
  <1>4. CASE \E c \in Co : Resume(c) \/ Yield(c) \/ Finish(c)
    BY <1>4, ResumeInv, YieldInv, FinishInv
  <1>5. CASE \E gc \in {"minor", "major"} : Collect(gc)
    BY <1>5, CollectInv
  <1>6. CASE UNCHANGED vars
    <2>1. UNCHANGED <<gen, status, local, var, closed, next, head, snapTop, snap, chain, regs,
                      remembered>>
      BY <1>6 DEF vars, stackVars, listVars, snapVars
    <2>2. /\ Running' = Running /\ Allocated' = Allocated /\ Young' = Young /\ Old' = Old
          /\ \A c \in Co : /\ Open(c)' = Open(c) /\ Variables(c)' = Variables(c)
                           /\ Snapshot(c)' = Snapshot(c)
          /\ Links' /\ Order' /\ Heads' /\ Listed'
      BY <2>1, Untouched DEF Running, Allocated, Young, Old
    <2>3. TypeOK' /\ Phases' /\ ChainDistinct'
      BY <2>1, <2>2 DEF IInv, TypeOK, Phases, ChainDistinct
    <2>4. /\ RootsLive' /\ ClosedLive' /\ Remembered' /\ OpenHeld'
          /\ StackLive' /\ CoroutinesLive'
      BY <2>1, <2>2 DEF IInv, TypeOK, RootsLive, ClosedLive, Remembered, OpenHeld,
                        StackLive, CoroutinesLive, Running
    <2>5. QED
      BY <2>2, <2>3, <2>4 DEF IInv
  <1>7. QED
    BY <1>1, <1>2, <1>3, <1>4, <1>5, <1>6 DEF Next

LEMMA Invariance == ASSUME ~OutsideStores, ~LateCaptures PROVE Spec => []IInv
  <1>1. IInv /\ [Next]_vars => IInv'
    BY NextInv
  <1>2. QED
    BY <1>1, InitInv, PTL DEF Spec

\* While no closure assigns the variable of a suspended coroutine, and no
\* resumed one captures behind an upvalue of its snapshot, no collection
\* reclaims what a variable of a running or suspended coroutine refers to:
\* resuming puts the coroutine among the roots, yielding remembers it, and
\* closing goes through the barrier.
THEOREM StacksSurvive ==
    ASSUME ~OutsideStores, ~LateCaptures
    PROVE  Spec => []StackLive
  <1>1. IInv => StackLive
    BY DEF IInv
  <1>2. QED
    BY <1>1, Invariance, PTL

\* The same for coroutines that run, and for every upvalue that the collector
\* passes when it follows the links from the snapshot of the last suspension,
\* whatever the coroutine has captured and closed since: what an allocated
\* coroutine's walk reaches is marked with it, or the coroutine is remembered.
THEOREM CoroutinesSurvive ==
    ASSUME ~OutsideStores, ~LateCaptures
    PROVE  Spec => []CoroutinesLive
  <1>1. IInv => CoroutinesLive
    BY DEF IInv
  <1>2. QED
    BY <1>1, Invariance, PTL

\* If scripts also keep every suspended coroutine whose variable is captured,
\* an open upvalue points into a stack that is still there, and a closed one
\* keeps its value.
THEOREM UpvaluesSurvive ==
    ASSUME ~OutsideStores, ~LateCaptures, ~DropSuspended
    PROVE  Spec => []UpvaluesLive
  <1>1. IInv => UpvaluesLive
    <2>1. SUFFICES ASSUME IInv, NEW u \in Up, u \in Allocated
                   PROVE  /\ var[u] = "open" => Of[u] \in Allocated
                          /\ closed[u] # None => closed[u] \in Allocated
      BY DEF UpvaluesLive
    <2>2. var[u] = "open" => Of[u] \in Allocated
      <3>1. Of[u] \in Co
        BY CoroutineAssumption
      <3>2. var[u] = "open" => u \in Open(Of[u])
        BY DEF Open, Variables
      <3>3. Open(Of[u]) # {} => Of[u] \in Running \cup regs
        BY <2>1, <3>1 DEF IInv, OpenHeld
      <3>4. Running \cup regs \subseteq Allocated
        BY <2>1 DEF IInv, RootsLive, CoroutinesLive
      <3>5. QED
        BY <3>2, <3>3, <3>4
    <2>3. QED
      BY <2>1, <2>2 DEF IInv, ClosedLive
  <1>2. QED
    BY <1>1, Invariance, PTL
=============================================================================
