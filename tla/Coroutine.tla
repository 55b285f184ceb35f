----------------------------- MODULE Coroutine -----------------------------
(***************************************************************************)
(* Coroutines, captured variables and the generational collector           *)
(* (src/src/vm.c:2962-3210 and 3271-3354, src/src/gc.c).                   *)
(*                                                                         *)
(* Each coroutine has local variables that closures may capture.  While    *)
(* the coroutine runs or is suspended a variable is a slot of its stack,   *)
(* and its upvalue points into that stack and stands on the list of open   *)
(* upvalues, highest slot first; when its scope or the coroutine ends the  *)
(* value moves into the upvalue, which keeps its link to the next one.     *)
(* A resumed coroutine runs on its own stack, and its object keeps the     *)
(* snapshot of the last suspension (co->stack_top and the head of the list *)
(* in co->open_upvalues), which the collector still reads.                 *)
(*                                                                         *)
(* Collections are those of module Heap, for these three kinds of object.  *)
(***************************************************************************)
EXTENDS Naturals, Sequences, FiniteSets

CONSTANTS
    Co,             \* coroutines
    Up,             \* upvalues, one for each variable that closures capture
    Of,             \* the coroutine whose variable it is
    Slot,           \* its place in the stack of that coroutine
    Val,            \* other objects
    None,           \* a value that is not an object
    OutsideStores,  \* whether closures assign a suspended coroutine's variable
    DropSuspended,  \* whether scripts drop a coroutine whose open variable a
                    \* closure they keep refers to
    LateCaptures    \* whether a resumed coroutine captures the variable next
                    \* below one it had captured when it was suspended

Obj == Co \cup Up \cup Val

ASSUME CoroutineAssumption ==
    /\ Of \in [Up -> Co] /\ Slot \in [Up -> Nat]
    /\ \A u, w \in Up : Of[u] = Of[w] /\ Slot[u] = Slot[w] => u = w
    /\ Co \cap Up = {} /\ Co \cap Val = {} /\ Up \cap Val = {} /\ None \notin Obj
    /\ {OutsideStores, DropSuspended, LateCaptures} \subseteq BOOLEAN

VARIABLES
    gen,            \* the space and age of each object
    status,         \* co->state
    local,          \* the variable's slot in co->stack
    var,            \* where the variable is: its upvalue is none, open or closed
    closed,         \* upvalue->closed
    next,           \* upvalue->next
    head,           \* open_upvalues of the VM or saved context that runs it
    snapTop,        \* co->stack_top covers the variables
    snap,           \* co->open_upvalues, the head at the last suspension
    chain,          \* the running coroutines, innermost last
    regs,           \* the objects in registers and globals of the script
    remembered      \* vm->remembered_set

stackVars == <<local, var, closed>>
listVars == <<next, head>>
snapVars == <<snapTop, snap>>
vars == <<gen, status, stackVars, listVars, snapVars, chain, regs, remembered>>

Young     == {o \in Obj : gen[o] \in {"newborn", "aged"}}
Newborn   == {o \in Obj : gen[o] = "newborn"}
Old       == {o \in Obj : gen[o] = "old"}
Allocated == Young \cup Old

Running   == {chain[i] : i \in DOMAIN chain}
Current   == chain[Len(chain)]
Executing(c) == chain # <<>> /\ c = Current

\* The upvalues of a coroutine's variables, and those that are open.
Variables(c) == {u \in Up : Of[u] = c}
Open(c)      == {u \in Variables(c) : var[u] = "open"}

\* The upvalues a walk along upvalue->next passes from the first one.
Linked(S)   == \A u \in S : next[u] # None => next[u] \in S
From(first) == {u \in Up : \A S \in SUBSET Up : first \in S /\ Linked(S) => u \in S}
List(first) == IF first = None THEN {} ELSE From(first)

OpenList(c) == List(head[c])
Snapshot(c) == List(snap[c])

\* What blacken_object finds in an object.
Refs(o) ==
    ( IF o \in Co
      THEN (IF snapTop[o] THEN {local[u] : u \in Variables(o)} ELSE {})
           \cup Snapshot(o)
      ELSE {closed[u] : u \in {w \in Up : w = o}} ) \ {None}

Fields(S) == UNION {Refs(o) : o \in S}

\* The stacks and open upvalues of the VM and of every saved context.
Contexts ==
    {local[u] : u \in {w \in Up : Of[w] \in Running}}
    \cup UNION {OpenList(c) : c \in Running}

\* Mutant of Roots: coroutines that run are taken to be reachable otherwise.
RootsWithoutCoroutines == (regs \cup Contexts) \ {None}

\* mark_roots: those, their coroutines, registers and globals.
Roots == (regs \cup Running \cup Contexts) \ {None}

\* Marking: the closure of the seeds under the references inside a region.
\* References have depth two here: a coroutine, its upvalues, their values.
Trace(seeds, region) ==
    LET once == seeds \cap region
        more == once \cup (Fields(once) \cap region)
    IN  more \cup (Fields(more) \cap region)

Marked(gc) ==
    IF gc = "minor" THEN Trace(Roots \cup Fields(Newborn) \cup Fields(remembered), Young)
                    ELSE Trace(Roots \cup Newborn, Allocated)

\* The objects a collection frees unless it marks them.
Reclaimable(gc) == IF gc = "minor" THEN Young \ Newborn ELSE Allocated

\* Mutants of Barrier and RememberIfOld.
NoBarrier(p, v) == remembered
NeverRemember(c) == remembered

\* gc_write_barrier and remembered_set_add
Barrier(p, v) ==
    IF gen[p] = "old" /\ v \in Young THEN remembered \cup {p} ELSE remembered
RememberIfOld(c) ==
    IF gen[c] = "old" THEN remembered \cup {c} ELSE remembered
-----------------------------------------------------------------------------
Init ==
    /\ gen = [o \in Obj |-> "none"]
    /\ status = [c \in Co |-> "new"]
    /\ local = [u \in Up |-> None] /\ closed = [u \in Up |-> None]
    /\ var = [u \in Up |-> "none"]
    /\ next = [u \in Up |-> None] /\ head = [c \in Co |-> None]
    /\ snapTop = [c \in Co |-> FALSE] /\ snap = [c \in Co |-> None]
    /\ chain = <<>> /\ regs = {} /\ remembered = {}

\* A script creates an object, or calls coroutine.create.
Create(o) ==
    /\ gen[o] = "none"
    /\ gen' = [gen EXCEPT ![o] = "newborn"]
    /\ regs' = regs \cup {o}
    /\ UNCHANGED <<status, stackVars, listVars, snapVars, chain, remembered>>

\* A closure over a captured variable: capture_upvalue finds the open upvalue.
Recapture(u) ==
    /\ Executing(Of[u]) /\ var[u] = "open"
    /\ regs' = regs \cup {u}
    /\ UNCHANGED <<gen, status, stackVars, listVars, snapVars, chain, remembered>>

\* capture_upvalue puts a new upvalue on the list: at its head, or behind the
\* open upvalue with the lowest of the higher slots.  No barrier.
Insert(u) ==
    LET c     == Of[u]
        above == {w \in Open(c) : Slot[w] > Slot[u]}
    IN  \/ /\ above = {}
           /\ next' = [next EXCEPT ![u] = head[c]]
           /\ head' = [head EXCEPT ![c] = u]
        \/ \E p \in above :
             /\ \A w \in above : Slot[p] <= Slot[w]
             /\ LateCaptures \/ p \notin Snapshot(c)
             /\ next' = [next EXCEPT ![u] = next[p], ![p] = u]
             /\ UNCHANGED head

\* The first closure over a variable of the running function.
Capture(u) ==
    /\ Executing(Of[u]) /\ var[u] = "none"
    /\ Insert(u)
    /\ gen' = [gen EXCEPT ![u] = "newborn"]
    /\ var' = [var EXCEPT ![u] = "open"]
    /\ regs' = regs \cup {u}
    /\ UNCHANGED <<status, local, closed, snapVars, chain, remembered>>

\* The function assigns its own variable: a register, no barrier.
AssignLocal(u, v) ==
    /\ Executing(Of[u]) /\ var[u] # "closed" /\ v \in regs
    /\ local' = [local EXCEPT ![u] = v]
    /\ UNCHANGED <<gen, status, var, closed, listVars, snapVars, chain, regs, remembered>>

\* OP_SETUPVAL: a closure assigns the variable wherever it is.
SetUpval(u, v) ==
    /\ u \in regs /\ v \in regs
    /\ IF var[u] = "open"
       THEN /\ Of[u] \in Allocated
            /\ OutsideStores \/ Of[u] \in Running
            /\ local' = [local EXCEPT ![u] = v] /\ UNCHANGED closed
       ELSE closed' = [closed EXCEPT ![u] = v] /\ UNCHANGED local
    /\ remembered' = Barrier(u, v)
    /\ UNCHANGED <<gen, status, var, listVars, snapVars, chain, regs>>

\* OP_GETUPVAL, or the function reads its variable.
Read(u) ==
    /\ u \in regs \/ (Executing(Of[u]) /\ var[u] # "closed")
    /\ var[u] # "closed" => Of[u] \in Allocated
    /\ LET v == IF var[u] = "closed" THEN closed[u] ELSE local[u]
       IN  v # None /\ regs' = regs \cup {v}
    /\ UNCHANGED <<gen, status, stackVars, listVars, snapVars, chain, remembered>>

\* close_upvalues: the variables leave the stack, each upvalue through the
\* barrier; upvalue->next stays as it is.
CloseUpvalues(us, gone) ==
    /\ local' = [u \in Up |-> IF u \in gone THEN None ELSE local[u]]
    /\ var' = [u \in Up |-> IF u \in us THEN "closed" ELSE var[u]]
    /\ closed' = [u \in Up |-> IF u \in us THEN local[u] ELSE closed[u]]

CloseBarriers(us) == remembered \cup UNION {Barrier(u, local[u]) : u \in us}

\* The end of a scope, or of the function that declared the variable: every
\* open upvalue at its slot or above is closed.
Close(u) ==
    LET c  == Of[u]
        us == {w \in Open(c) : Slot[w] >= Slot[u]}
    IN  /\ Executing(c) /\ var[u] = "open"
        /\ CloseUpvalues(us, us)
        /\ remembered' = CloseBarriers(us)
        /\ head' = [head EXCEPT ![c] = next[u]]
        /\ UNCHANGED <<gen, status, next, snapVars, chain, regs>>

\* coroutine.resume of a new or suspended coroutine, by the script or by a
\* running coroutine; a new one starts on a cleared stack.
Resume(c) ==
    /\ c \in regs /\ status[c] \in {"new", "suspended"}
    /\ status' = [status EXCEPT ![c] = "running"]
    /\ snapTop' = [snapTop EXCEPT ![c] = TRUE]
    /\ head' = [head EXCEPT ![c] = snap[c]]
    /\ chain' = Append(chain, c)
    /\ UNCHANGED <<gen, stackVars, next, snap, regs, remembered>>

\* save_coroutine_context, restore_vm_context
Leave(c) ==
    /\ Executing(c)
    /\ chain' = SubSeq(chain, 1, Len(chain) - 1)

\* coroutine.yield
Yield(c) ==
    /\ Leave(c)
    /\ DropSuspended \/ c \in regs \/ Open(c) = {}
    /\ status' = [status EXCEPT ![c] = "suspended"]
    /\ snap' = [snap EXCEPT ![c] = head[c]]
    /\ remembered' = RememberIfOld(c)
    /\ UNCHANGED <<gen, stackVars, listVars, snapTop, regs>>

\* The body returns or fails: its upvalues are closed and the snapshot emptied.
Finish(c) ==
    /\ Leave(c)
    /\ status' = [status EXCEPT ![c] = "dead"]
    /\ CloseUpvalues(Open(c), Variables(c))
    /\ remembered' = CloseBarriers(Open(c)) \cup RememberIfOld(c)
    /\ head' = [head EXCEPT ![c] = None]
    /\ snapTop' = [snapTop EXCEPT ![c] = FALSE]
    /\ snap' = [snap EXCEPT ![c] = None]
    /\ UNCHANGED <<gen, next, regs>>

\* A register or global is overwritten.
Unroot(o) ==
    /\ o \in regs
    /\ o \in Co => DropSuspended \/ Open(o) = {} \/ o \in Running
    /\ regs' = regs \ {o}
    /\ UNCHANGED <<gen, status, stackVars, listVars, snapVars, chain, remembered>>

\* An allocation runs a collection; free_object frees a coroutine's stack.
Collect(gc) ==
    /\ LET marked == Marked(gc)
           dead   == Reclaimable(gc) \ marked
       IN  gen' = [o \in Obj |-> IF o \in dead THEN "freed"
                                ELSE IF o \in marked THEN "old"
                                ELSE IF o \in Newborn THEN "aged" ELSE gen[o]]
    /\ remembered' = {}
    /\ UNCHANGED <<status, stackVars, listVars, snapVars, chain, regs>>

Next ==
    \/ \E o \in Co \cup Val : Create(o)
    \/ \E o \in Obj : Unroot(o)
    \/ \E u \in Up : \/ Recapture(u) \/ Capture(u) \/ Read(u) \/ Close(u)
                     \/ \E v \in Val : AssignLocal(u, v) \/ SetUpval(u, v)
    \/ \E c \in Co : Resume(c) \/ Yield(c) \/ Finish(c)
    \/ \E gc \in {"minor", "major"} : Collect(gc)

Spec == Init /\ [][Next]_vars
-----------------------------------------------------------------------------
\* Every variable has its type; only an allocated coroutine runs.
TypeOK ==
    /\ gen \in [Obj -> {"none", "newborn", "aged", "old", "freed"}]
    /\ status \in [Co -> {"new", "running", "suspended", "dead"}]
    /\ local \in [Up -> Val \cup {None}] /\ closed \in [Up -> Val \cup {None}]
    /\ var \in [Up -> {"none", "open", "closed"}]
    /\ next \in [Up -> Up \cup {None}] /\ head \in [Co -> Up \cup {None}]
    /\ snapTop \in [Co -> BOOLEAN] /\ snap \in [Co -> Up \cup {None}]
    /\ chain \in Seq(Co) /\ \A c \in Co : c \in Running <=> status[c] = "running"
    /\ regs \subseteq Obj /\ remembered \subseteq Obj

\* A variable of a running or suspended coroutine never refers to reclaimed
\* memory.  gc.c:12-14: the write barrier is there "so minor GC can find the
\* young object through the old one".
StackLive ==
    \A u \in Up : Of[u] \in Allocated /\ local[u] # None => local[u] \in Allocated

\* A coroutine is not reclaimed while it or one it resumed runs, and no upvalue
\* that the collector passes when it walks the list of the last suspension has
\* been reclaimed, whatever was closed and linked since.
CoroutinesLive ==
    /\ Running \subseteq Allocated
    /\ \A c \in Co \cap Allocated : Snapshot(c) \subseteq Allocated

\* An open upvalue points into the stack of a coroutine that is still there
\* (the comment at magnesium.h:580: location is "on stack or closed"), and a
\* closed one keeps the value that left the stack.
UpvaluesLive ==
    \A u \in Up : u \in Allocated =>
        /\ var[u] = "open" => Of[u] \in Allocated
        /\ closed[u] # None => closed[u] \in Allocated
=============================================================================
