------------------------------- MODULE Frames -------------------------------
(***************************************************************************)
(* Call frames, registers and captured variables of the interpreter        *)
(* (src/src/vm.c), on a stack that moves when it grows, and the switch to  *)
(* a coroutine's stack and back.                                           *)
(*                                                                         *)
(* A pointer into a stack is <<block, index>>: block names the allocation, *)
(* and realloc may answer another one.  Functions are straight-line code:  *)
(* a frame's live registers are those below frame.live, and instructions   *)
(* write the next one, as the compiler allocates them.  stack_size always  *)
(* equals stack_top here and is left out.                                  *)
(***************************************************************************)
EXTENDS Naturals, Sequences, FiniteSets

CONSTANTS
    True, Err, Fn, Null, \* contents of registers
    Cell,       \* upvalues
    None,       \* no upvalue, no stack
    MainCap,    \* STACK_INIT_SIZE
    CoCap,      \* new_coroutine's stack_capacity
    Needs,      \* reg_counts of functions run by the host, called, in coroutines
    Wanted,     \* numbers of results that calls ask for
    MaxStack,   \* bound on what a call may need of a stack
    MaxFrames   \* MAX_CALL_FRAMES

Contents == {True, Err, Fn, Null}

\* What an instruction assigns, and what a native answers or a yield hands over
Literal == {True}
Lists == {<<>>, <<Err>>, <<True, Err, Err>>}
Arguments == {<<>>, <<Err>>}

Block == {"main", "co"} \X {0, 1}
Pointer == Block \X Nat

Upvalue == [location : Pointer \cup {None}, closed : Contents]

CallFrame ==
    [slots : Pointer, live : Nat, need : Nat, dest : Nat, expected : Nat, callerTop : Nat]

Capacities == 0 .. MainCap + CoCap + 2 * MaxStack

ContextOn(stacks) ==
    [block : Block, stack : stacks, top : Nat, frames : Seq(CallFrame), open : Seq(Cell)]

Context == ContextOn(UNION {[0 .. n - 1 -> Contents] : n \in Capacities})

ASSUME FramesAssumption ==
    /\ MainCap \in Nat \ {0} /\ CoCap \in Nat /\ MaxStack \in Nat
    /\ MaxFrames \in Nat \ {0}
    /\ Needs \in [{"run", "called", "co"} -> SUBSET (Nat \ {0})]
    /\ Needs["co"] \subseteq 1 .. CoCap /\ Needs["co"] \subseteq 1 .. MaxStack
    /\ Wanted \subseteq Nat
    /\ None \notin Cell \cup Pointer \cup Upvalue \cup Context \cup Contents
    /\ Contents \cap [cell : Cell] = {} /\ Err \notin {True, Null}

VARIABLES
    vm,         \* the VM's stack, frames and open upvalues
    caller,     \* the context that coroutine.resume saved, or None
    expected,   \* the results its call of resume asked for
    co,         \* the context saved in the coroutine, None while it runs
                \* and when it is dead: nothing reads it then
    state,      \* co->state
    up,         \* where each upvalue is: location (None: in itself), closed
    cache,      \* vm->upvalue_cache
    host        \* "in": vm_execute runs, "out", "between" two closures

upvalueVars == <<up, cache>>
switchVars == <<caller, expected, co, state>>
vars == <<vm, upvalueVars, host, switchVars>>

FreshStack(name, capacity) ==
    [block |-> <<name, 0>>, stack |-> [s \in 0 .. capacity - 1 |-> Null],
     top |-> 0, frames |-> <<>>, open |-> <<>>]

NoCache == [s \in 0 .. MaxStack - 1 |-> None]

\* The coroutine was created by an earlier run of the host.
Init ==
    /\ vm = FreshStack("main", MainCap)
    /\ caller = None /\ expected = 0
    /\ co = FreshStack("co", CoCap) /\ state = "new"
    /\ up = [u \in Cell |-> None] /\ cache = NoCache
    /\ host = "out"

----------------------------------------------------------------------------
(* Registers *)

Depth(c) == Len(c.frames)
Frame(c) == c.frames[Depth(c)]
Live(c) == Frame(c).live
SlotOf(c, i) == <<Frame(c).slots[1], Frame(c).slots[2] + i>>
R(c, i) == c.stack[SlotOf(c, i)[2]]

\* Registers i, i + 1, ... get these values, and are the last ones live.
Put(c, i, values) ==
    LET first == SlotOf(c, i)[2]
    IN  [c EXCEPT !.frames[Depth(c)].live = i + Len(values),
                  !.stack = [s \in DOMAIN @ |->
                                IF s \in first .. first + Len(values) - 1
                                THEN values[s - first + 1] ELSE @[s]]]

Fits(c, n) == Live(c) + n <= Frame(c).need

\* clear_stack_range
Cleared(stack, from, to) ==
    [s \in DOMAIN stack |-> IF s \in from .. to - 1 THEN Null ELSE stack[s]]

Executing == host = "in"

----------------------------------------------------------------------------
(* Growth of the running stack *)

Capacity(c) == Cardinality(DOMAIN c.stack)

\* The capacity is doubled until it is enough.
Sizes(needed) ==
    IF Capacity(vm) >= needed THEN {Capacity(vm)}
    ELSE {n \in needed .. 2 * needed - 1 : \E k \in 1 .. needed : n = Capacity(vm) * 2 ^ k}

\* realloc moves the stack only if it is called.
Growths(needed) ==
    IF needed > MaxStack THEN {}
    ELSE [size : Sizes(needed),
          moves : IF Capacity(vm) < needed THEN BOOLEAN ELSE {FALSE}]

Moved(block) == <<block[1], 1 - block[2]>>
Relocate(p, block) == IF p # None /\ p[1] = block THEN <<Moved(block), p[2]>> ELSE p

\* ensure_stack, for the context itself
Grown(c, g) ==
    [c EXCEPT
        !.stack = [s \in 0 .. g.size - 1 |-> IF s \in DOMAIN @ THEN @[s] ELSE Null],
        !.block = IF g.moves THEN Moved(@) ELSE @,
        !.frames = [d \in DOMAIN c.frames |->
                    [c.frames[d] EXCEPT
                        !.slots = IF g.moves THEN Relocate(@, c.block) ELSE @]]]

\* Mutant of GrowUpvalues: open upvalues keep pointing into the old block.
UpvaluesStay(g) == UNCHANGED up /\ cache' = IF g.moves THEN NoCache ELSE cache

\* ensure_stack, for the open upvalues and the cache
GrowUpvalues(g) ==
    IF g.moves
    THEN /\ up' = [u \in Cell |->
                    IF u \in {vm.open[k] : k \in DOMAIN vm.open}
                    THEN [up[u] EXCEPT !.location = Relocate(@, vm.block)]
                    ELSE up[u]]
         /\ cache' = NoCache
    ELSE UNCHANGED upvalueVars

----------------------------------------------------------------------------
(* Captured variables *)

\* close_upvalues takes upvalues off the list while they are at slot s or above.
Closing(c, s) ==
    CHOOSE n \in 0 .. Len(c.open) :
        /\ \A k \in 1 .. n : up[c.open[k]].location[2] >= s
        /\ n < Len(c.open) => up[c.open[n + 1]].location[2] < s

Closed(c, s) == [c EXCEPT !.open = SubSeq(@, Closing(c, s) + 1, Len(@))]

\* Mutant of Uncached: the cache keeps what was closed.
CacheKept(c, s) == cache

Gone(c, s) == {c.open[k] : k \in 1 .. Closing(c, s)}

Uncached(c, s) ==
    [t \in DOMAIN cache |->
        IF t \in {up[u].location[2] : u \in Gone(c, s)} THEN None ELSE cache[t]]

\* The value moves from the stack into the upvalue.
MovedIn(c, s) ==
    [u \in Cell |-> IF u \in Gone(c, s)
                    THEN [location |-> None, closed |-> c.stack[up[u].location[2]]]
                    ELSE up[u]]

CloseUpvalues(c, s) == up' = MovedIn(c, s) /\ cache' = Uncached(c, s)

\* capture_upvalue: what the cache or the walk of the list finds for a slot
Cached(local) ==
    LET u == cache[local[2]]
    IN  IF u # None /\ up[u] # None /\ up[u].location = local THEN u ELSE None

\* Mutant of Passed: a new upvalue goes to the head of the list.
PassedNone(local) == 0

\* How many upvalues of the list the walk passes
Passed(local) ==
    CHOOSE n \in 0 .. Len(vm.open) :
        /\ \A k \in 1 .. n : up[vm.open[k]].location[2] > local[2]
        /\ n < Len(vm.open) => up[vm.open[n + 1]].location[2] <= local[2]

Listed(local) ==
    LET n == Passed(local)
    IN  IF n < Len(vm.open) /\ up[vm.open[n + 1]].location = local
        THEN vm.open[n + 1] ELSE None

Unused == {u \in Cell : up[u] = None}
NewUpvalue == CHOOSE u \in Unused : TRUE

\* OP_CLOSURE: a new closure in the next register captures register i.
Capture(i, u) ==
    LET with == Put(vm, Live(vm), <<Fn>>)
        local == SlotOf(vm, i)
        n == Passed(local)
    IN  /\ Executing /\ Fits(vm, 1) /\ i \in 1 .. Live(vm)
        /\ IF Cached(local) # None
           THEN vm' = with /\ u = Cached(local) /\ UNCHANGED upvalueVars
           ELSE /\ cache' = [cache EXCEPT ![local[2]] = u]
                /\ IF Listed(local) # None
                   THEN vm' = with /\ u = Listed(local) /\ UNCHANGED up
                   ELSE /\ Unused # {} /\ u = NewUpvalue
                        /\ up' = [up EXCEPT ![u] = [location |-> local, closed |-> Null]]
                        /\ vm' = [with EXCEPT !.open =
                                    SubSeq(@, 1, n) \o <<u>> \o SubSeq(@, n + 1, Len(@))]
        /\ UNCHANGED <<host, switchVars>>

\* The context whose stack is this block
Owner(block) == CHOOSE c \in {vm, caller, co} \ {None} : c.block = block

Deref(u) ==
    IF up[u] = None THEN None
    ELSE IF up[u].location = None THEN up[u].closed
    ELSE Owner(up[u].location[1]).stack[up[u].location[2]]

\* OP_GETUPVAL
GetUpval(u) ==
    /\ Executing /\ Fits(vm, 1) /\ up[u] # None
    /\ vm' = Put(vm, Live(vm), <<Deref(u)>>)
    /\ UNCHANGED <<upvalueVars, host, switchVars>>

\* OP_SETUPVAL writes through the location, into whichever stack it is in.
SetUpval(u, v) ==
    /\ Executing /\ up[u] # None
    /\ LET p == up[u].location
           Write(c) == IF c # None /\ p # None /\ c.block = p[1]
                       THEN [c EXCEPT !.stack[p[2]] = v] ELSE c
       IN  /\ vm' = Write(vm) /\ caller' = Write(caller) /\ co' = Write(co)
           /\ up' = IF p = None THEN [up EXCEPT ![u].closed = v] ELSE up
    /\ UNCHANGED <<cache, expected, state, host>>

----------------------------------------------------------------------------
(* Straight-line instructions *)

\* A literal, a local variable, a temporary in the next register
Declare(v) ==
    /\ Executing /\ Fits(vm, 1)
    /\ vm' = Put(vm, Live(vm), <<v>>)
    /\ UNCHANGED <<upvalueVars, host, switchVars>>

Assign(i, v) ==
    /\ Executing /\ i \in 1 .. Live(vm) - 1
    /\ vm' = [vm EXCEPT !.stack[SlotOf(vm, i)[2]] = v]
    /\ UNCHANGED <<upvalueVars, host, switchVars>>

\* Control runs to the end of a scope: its registers are free again.  end_scope
\* looks for captured variables deeper than the scope it ends, of which there
\* are none, so nothing is closed.
EndScope(n) ==
    /\ Executing /\ n \in 1 .. Live(vm) - 1
    /\ vm' = [vm EXCEPT !.frames[Depth(vm)].live = n]
    /\ UNCHANGED <<upvalueVars, host, switchVars>>

\* A jump leaves scopes: OP_CLOSE_UPVAL for their captured variables, of which
\* m is the first.
LeaveScope(n, m) ==
    /\ Executing /\ n \in 1 .. m /\ m \in 1 .. Live(vm) - 1
    /\ CloseUpvalues(vm, SlotOf(vm, m)[2])
    /\ vm' = [Closed(vm, SlotOf(vm, m)[2]) EXCEPT !.frames[Depth(vm)].live = n]
    /\ UNCHANGED <<host, switchVars>>

----------------------------------------------------------------------------
(* Calls *)

\* OP_CALL of a closure: callee and arguments are put into the next
\* registers, where the callee's frame starts.
Call(args, wanted, need) ==
    LET base   == Live(vm)
        needed == SlotOf(vm, base)[2] + need
    IN  /\ Executing /\ Depth(vm) < MaxFrames
        /\ Fits(vm, 1 + Len(args)) /\ Fits(vm, wanted)
        /\ need > Len(args)
        /\ \E g \in Growths(needed) :
             LET c     == Grown(Put(vm, base, <<Fn>> \o args), g)
                 frame == [slots |-> SlotOf(c, base), live |-> 1 + Len(args), need |-> need,
                           dest |-> base, expected |-> wanted, callerTop |-> c.top]
             IN  /\ vm' = [c EXCEPT
                            !.frames = Append([@ EXCEPT ![Depth(c)].live = base], frame),
                            !.top = IF needed > @ THEN needed ELSE @]
                 /\ GrowUpvalues(g)
        /\ UNCHANGED <<host, switchVars>>

\* STORE_NATIVE_RESULT: n registers get the results of a native function,
\* listed in native_return_values or the single one it returned.
Stored(results, single, n) ==
    IF single /\ n > 1 /\ results[1] = Err
    THEN [i \in 1 .. n |-> IF i = 2 THEN Err ELSE Null]
    ELSE [i \in 1 .. n |-> IF i <= Len(results) THEN results[i] ELSE Null]

\* A native, FFI function or struct constructor.  A native may push a value to
\* root it, and pop it: what remains is that a full stack has grown.
Native(results, single, n, pushes) ==
    LET needed == IF pushes THEN vm.top + 1 ELSE 0
    IN  /\ Executing /\ Fits(vm, 1) /\ Fits(vm, n)
        /\ (single => Len(results) = 1) /\ results # <<>>
        /\ (pushes => Capacity(vm) < needed)
        /\ \E g \in Growths(needed) :
             /\ vm' = Put(Grown(vm, g), Live(vm), Stored(results, single, n))
             /\ GrowUpvalues(g)
        /\ UNCHANGED <<host, switchVars>>

\* The registers of the running frame from i, count of them
Values(i, count) == [k \in 1 .. count |-> R(vm, i + k - 1)]

\* RETURN_VALUES: the context once the frame is popped, without the results.
Popped ==
    LET frame == Frame(vm)
    IN  [Closed(vm, frame.slots[2]) EXCEPT
            !.frames = SubSeq(@, 1, Depth(vm) - 1),
            !.stack = Cleared(@, frame.callerTop, vm.top),
            !.top = frame.callerTop]

Returns(i, count) == Executing /\ i + count <= Live(vm) /\ (count = 0 => i = 1)

\* OP_RETURN to a calling frame
Return(i, count) ==
    LET frame == Frame(vm)
    IN  /\ Returns(i, count) /\ Depth(vm) > 1
        /\ CloseUpvalues(vm, frame.slots[2])
        /\ vm' = Put(Popped, frame.dest, Stored(Values(i, count), FALSE, frame.expected))
        /\ UNCHANGED <<host, switchVars>>

----------------------------------------------------------------------------
(* Coroutines *)

\* start_coroutine_context and vm_run_closure: one frame for the closure
Started(c, need) ==
    [c EXCEPT
        !.stack = [Cleared(@, 0, need) EXCEPT ![0] = Fn],
        !.top = need,
        !.frames = <<[slots |-> <<c.block, 0>>, live |-> 1, need |-> need,
                      dest |-> 0, expected |-> 1, callerTop |-> 0]>>]

\* coroutine.resume from the main script, for n results
Resume(n, need) ==
    /\ Executing /\ caller = None /\ Fits(vm, 1) /\ Fits(vm, n)
    /\ \/ state = "new" /\ vm' = [Started(co, need) EXCEPT !.open = <<>>]
       \/ state = "suspended" /\ need = co.frames[1].need /\ vm' = co
    /\ caller' = vm /\ expected' = n
    /\ co' = None /\ state' = "running"
    /\ cache' = NoCache
    /\ UNCHANGED <<up, host>>

\* restore_vm_context, and the results of resume
Back(answer) ==
    /\ vm' = Put(caller, Live(caller), answer)
    /\ caller' = None /\ expected' = 0
    /\ cache' = NoCache

\* What the values handed over become in the registers of the resumer
Produced(values) ==
    IF values = <<>> THEN Stored(<<True>>, TRUE, expected)
    ELSE Stored(values, FALSE, expected)

\* coroutine.yield in a call that asks for n results
Yield(args, n) ==
    /\ Executing /\ state = "running"
    /\ Fits(vm, 1 + Len(args)) /\ Fits(vm, n)
    /\ co' = Put(vm, Live(vm), Stored(<<Null>>, TRUE, n))
    /\ state' = "suspended"
    /\ Back(Produced(args))
    /\ UNCHANGED <<up, host>>

\* The coroutine ends: what is open on its stack is closed.
Die(answer) ==
    /\ Executing /\ state = "running"
    /\ up' = MovedIn(vm, 0)
    /\ state' = "dead"
    /\ Back(answer)
    /\ UNCHANGED <<co, host>>

\* OP_RETURN from its last frame, and a runtime error at any depth
Complete(i, count) ==
    /\ Returns(i, count) /\ state = "running" /\ Depth(vm) = 1
    /\ Die(Produced(Values(i, count)))

Break == Die(Stored(<<Err>>, TRUE, expected))

----------------------------------------------------------------------------
(* The host: vm_run_function.  Whether closures wait in vm->task_queue when  *)
(* one has ended is left open.                                              *)

\* vm_run_closure, of the script or of the first closure scheduled
Run(need) ==
    /\ host \in {"out", "between"}
    /\ \E g \in Growths(need) :
         /\ vm' = Started(Grown(vm, g), need)
         /\ GrowUpvalues(g)
    /\ host' = "in"
    /\ UNCHANGED switchVars

\* OP_RETURN from the last frame of the main script: its values go nowhere.
Finish ==
    /\ Executing /\ caller = None /\ Depth(vm) = 1
    /\ CloseUpvalues(vm, Frame(vm).slots[2])
    /\ vm' = Popped /\ host' = "between"
    /\ UNCHANGED switchVars

\* All is done, or a runtime error stopped the main script at any depth.
EndRun ==
    /\ \/ host = "between"
       \/ Executing /\ caller = None
    /\ up' = MovedIn(vm, 0) /\ cache' = NoCache
    /\ vm' = [vm EXCEPT !.stack = Cleared(@, 0, vm.top), !.top = 0,
                        !.frames = <<>>, !.open = <<>>]
    /\ host' = "out"
    /\ UNCHANGED switchVars

----------------------------------------------------------------------------

\* Instructions inside a frame
Straight ==
    \/ \E v \in Literal : Declare(v) \/ \E i \in 1 .. MaxStack : Assign(i, v)
    \/ \E i \in 1 .. MaxStack : EndScope(i) \/ \E m \in 1 .. MaxStack : LeaveScope(i, m)
    \/ \E u \in Cell :
        \/ GetUpval(u)
        \/ \E v \in Literal : SetUpval(u, v)
        \/ \E i \in 1 .. MaxStack : Capture(i, u)

Calls ==
    \/ \E args \in Arguments, n \in Wanted, need \in Needs["called"] : Call(args, n, need)
    \/ \E results \in Lists, n \in Wanted, single, pushes \in BOOLEAN :
            Native(results, single, n, pushes)

Ends ==
    \/ \E i \in 1 .. MaxStack, count \in 0 .. 2 : Return(i, count) \/ Complete(i, count)
    \/ Finish

Switches ==
    \/ \E n \in Wanted, need \in Needs["co"] : Resume(n, need)
    \/ \E args \in Lists, n \in Wanted : Yield(args, n)
    \/ Break

Host == EndRun \/ \E need \in Needs["run"] : Run(need)

Next == Straight \/ Calls \/ Ends \/ Switches \/ Host
Spec == Init /\ [][Next]_vars

----------------------------------------------------------------------------
(* Properties *)

Contexts == {vm, caller, co} \ {None}

\* The state is of its type: a coroutine's context is where its state says.
TypeOK ==
    /\ \A c \in Contexts : /\ c \in ContextOn({c.stack})
                           /\ \E n \in Capacities : c.stack \in [0 .. n - 1 -> Contents]
    /\ vm # None
    /\ state \in {"new", "running", "suspended", "dead"}
    /\ (caller # None) = (state = "running")
    /\ (co = None) = (state \in {"running", "dead"})
    /\ host \in {"in", "out", "between"}
    /\ expected \in Wanted \cup {0}
    /\ up \in [Cell -> Upvalue \cup {None}]
    /\ cache \in [0 .. MaxStack - 1 -> Cell \cup {None}]

\* A register of some frame, and one that is in use
FrameSlot(c, s) ==
    \E d \in DOMAIN c.frames :
        s \in c.frames[d].slots[2] .. c.frames[d].slots[2] + c.frames[d].need - 1

LiveSlot(c, s) ==
    \E d \in DOMAIN c.frames :
        s \in c.frames[d].slots[2] .. c.frames[d].slots[2] + c.frames[d].live - 1

\* No frame or open upvalue points into a block that realloc gave back, no open
\* upvalue outlives the frame whose register it points at, and the collector,
\* which scans a stack up to its top (vm->stack_top), sees every register and
\* finds only null when the top rises.
StackExact ==
    \A c \in Contexts :
        /\ \A d \in DOMAIN c.frames :
            /\ c.frames[d].slots[1] = c.block
            /\ c.frames[d].slots[2] + c.frames[d].need <= c.top
        /\ c.top <= Capacity(c)
        /\ \A s \in DOMAIN c.stack : s >= c.top => c.stack[s] = Null
        /\ \A k \in DOMAIN c.open :
            /\ up[c.open[k]].location[1] = c.block
            /\ FrameSlot(c, up[c.open[k]].location[2])

\* A cache entry is the open upvalue of the running stack at that slot: the
\* collector does not see the cache, and capture_upvalue reads its entries.
CacheExact ==
    \A s \in DOMAIN cache : cache[s] # None =>
        /\ cache[s] \in {vm.open[k] : k \in DOMAIN vm.open}
        /\ up[cache[s]].location = <<vm.block, s>>

\* A register is a variable; if an open upvalue points at it, it is the cell's.
Variable(c, s) ==
    IF \E k \in DOMAIN c.open : up[c.open[k]].location = <<c.block, s>>
    THEN [cell |-> CHOOSE u \in Cell : up[u] # None /\ up[u].location = <<c.block, s>>]
    ELSE c.stack[s]

Activated(c) ==
    [d \in DOMAIN c.frames |->
        [vars |-> [k \in 1 .. c.frames[d].live |-> Variable(c, c.frames[d].slots[2] + k - 1)],
         want |-> c.frames[d].expected]]

\* What Activations sees of this state
Acts ==
    [main |-> Activated(IF caller = None THEN vm ELSE caller),
     co   |-> IF caller # None THEN Activated(vm)
              ELSE IF co = None THEN <<>> ELSE Activated(co)]

Cells == [u \in Cell |-> Deref(u)]

Thread ==
    IF host # "in" THEN [out |-> "host", between |-> "between"][host]
    ELSE IF caller = None THEN "main" ELSE "co"

A == INSTANCE Activations WITH
        act <- Acts, cell <- Cells, asked <- expected, ended <- state = "dead",
        running <- Thread

\* A variable whose scope has ended is still captured at its register, which
\* the next value put there overwrites.
Leaked ==
    \E c \in Contexts : \E k \in DOMAIN c.open : ~LiveSlot(c, up[c.open[k]].location[2])

\* Calls, returns, captures and coroutine switches do to the variables of a
\* script what Activations says, wherever the stacks are and however they move,
\* except while the end of a scope has left a variable captured.
CallsRefined == A!Init /\ [][Leaked \/ A!Next]_(A!vars)
=============================================================================
