---------------------------- MODULE FramesProofs ----------------------------
(***************************************************************************)
(* For any stacks, frames and upvalues: wherever realloc puts the stacks,  *)
(* no frame, open upvalue or cache entry points at a block given back, and *)
(* no open upvalue outlives the frame of its register.  While every open   *)
(* upvalue points at a live register, a step is one of Activations.        *)
(***************************************************************************)
EXTENDS Frames, FiniteSetTheorems, SequenceTheorems, TLAPS

\* Frames lie one after the other, the callee's at the register its results go
\* to, where there is room for them.
FramesNested(c) ==
    /\ \A d \in 1 .. Len(c.frames) : LET f == c.frames[d] IN
         /\ f.slots[1] = c.block /\ f.live \in 1 .. f.need
         /\ f.slots[2] + f.need <= c.top /\ f.slots[2] + f.need <= MaxStack
         /\ f.callerTop <= c.top
         /\ d = 1 => f.slots[2] = 0 /\ f.callerTop = 0
    /\ \A d, e \in 1 .. Len(c.frames) : LET f == c.frames[d]  g == c.frames[e] IN
         /\ d < e => f.slots[2] + f.need <= g.callerTop /\ f.callerTop <= g.callerTop
         /\ e = d + 1 => /\ g.slots[2] = f.slots[2] + f.live /\ g.dest = f.live
                         /\ f.live + g.expected <= f.need

NullAbove(c) ==
    /\ c.top <= Capacity(c)
    /\ \A s \in DOMAIN c.stack : s >= c.top => c.stack[s] = Null

\* The open upvalues point at registers of frames, from the highest to the lowest.
OpenSorted(c, ups) ==
    /\ \A k \in 1 .. Len(c.open) :
         /\ ups[c.open[k]] \in Upvalue /\ ups[c.open[k]].location \in Pointer
         /\ ups[c.open[k]].location[1] = c.block
         /\ FrameSlot(c, ups[c.open[k]].location[2])
    /\ \A k, m \in 1 .. Len(c.open) :
         k < m => ups[c.open[m]].location[2] < ups[c.open[k]].location[2]

ContextOK(c, ups) == FramesNested(c) /\ NullAbove(c) /\ OpenSorted(c, ups)

\* The two stacks have different blocks.
BlocksApart ==
    /\ vm.block[1] = IF caller = None THEN "main" ELSE "co"
    /\ caller # None => caller.block[1] = "main"
    /\ co # None => co.block[1] = "co"

\* What the host, the resumer and the coroutine have on their stacks.
Phases ==
    /\ host = "in" => Depth(vm) > 0
    /\ host # "in" => /\ caller = None
                      /\ vm.frames = <<>> /\ vm.open = <<>> /\ vm.top = 0
    /\ caller # None => Depth(caller) > 0 /\ Fits(caller, expected)
    /\ state = "new" => /\ co.frames = <<>> /\ co.open = <<>> /\ co.top = 0
                        /\ Capacity(co) = CoCap
    /\ state = "suspended" => Depth(co) > 0

\* An upvalue that is not closed is on the list of some stack.
OpenListed ==
    \A u \in Cell : up[u] # None /\ up[u].location # None =>
        \E c \in Contexts : \E k \in 1 .. Len(c.open) : c.open[k] = u

IInv ==
    /\ TypeOK
    /\ \A c \in Contexts : ContextOK(c, up)
    /\ BlocksApart
    /\ Phases
    /\ OpenListed
    /\ CacheExact
-----------------------------------------------------------------------------
(***************************************************************************)
(* Contexts, and what the operators on them return.                        *)
(***************************************************************************)
LEMMA ContextShape ==
    ASSUME NEW c \in Context
    PROVE  /\ c # None /\ c.block \in Block /\ c.top \in Nat
           /\ Capacity(c) \in Capacities /\ Capacity(c) \in Nat
           /\ c.stack \in [0 .. Capacity(c) - 1 -> Contents]
           /\ c.frames \in Seq(CallFrame) /\ Len(c.frames) \in Nat
           /\ DOMAIN c.frames = 1 .. Len(c.frames)
           /\ \A d \in 1 .. Len(c.frames) : c.frames[d] \in CallFrame
           /\ c.open \in Seq(Cell) /\ Len(c.open) \in Nat
           /\ DOMAIN c.open = 1 .. Len(c.open)
           /\ \A k \in 1 .. Len(c.open) : c.open[k] \in Cell
  <1>1. PICK n \in Capacities : c.stack \in [0 .. n - 1 -> Contents]
    BY DEF Context, ContextOn
  <1>2. n \in Nat
    BY FramesAssumption DEF Capacities
  <1>3. DOMAIN c.stack = 0 .. n - 1 /\ Cardinality(0 .. n - 1) = n
    BY <1>1, <1>2, FS_Interval
  <1>4. Capacity(c) = n
    BY <1>3 DEF Capacity
  <1>5. c # None
    BY FramesAssumption
  <1>6. c.frames \in Seq(CallFrame) /\ c.open \in Seq(Cell) /\ c.block \in Block /\ c.top \in Nat
    BY DEF Context, ContextOn
  <1>7. QED
    BY <1>1, <1>2, <1>4, <1>5, <1>6

LEMMA ContextMade ==
    ASSUME NEW b \in Block, NEW n \in Capacities, NEW s \in [0 .. n - 1 -> Contents],
           NEW t \in Nat, NEW f \in Seq(CallFrame), NEW o \in Seq(Cell), NEW c,
           c = [block |-> b, stack |-> s, top |-> t, frames |-> f, open |-> o]
    PROVE  /\ c \in Context /\ Capacity(c) = n
           /\ c.block = b /\ c.stack = s /\ c.top = t /\ c.frames = f /\ c.open = o
  <1>1. s \in UNION {[0 .. m - 1 -> Contents] : m \in Capacities}
    OBVIOUS
  <1>2. c \in Context
    BY <1>1 DEF Context, ContextOn
  <1>3. DOMAIN s = 0 .. n - 1 /\ Cardinality(0 .. n - 1) = n
    <2>1. n \in Nat
      BY FramesAssumption DEF Capacities
    <2>2. QED
      BY <2>1, FS_Interval
  <1>4. QED
    BY <1>2, <1>3 DEF Capacity

LEMMA ContextFields ==
    ASSUME NEW c \in Context
    PROVE  c = [block |-> c.block, stack |-> c.stack, top |-> c.top,
                frames |-> c.frames, open |-> c.open]
  BY DEF Context, ContextOn

LEMMA TypedContexts ==
    ASSUME TypeOK
    PROVE  /\ vm \in Context /\ caller \in Context \cup {None} /\ co \in Context \cup {None}
           /\ Contexts \subseteq Context /\ vm \in Contexts
  <1>1. ASSUME NEW c \in Contexts PROVE c \in Context
    BY <1>1 DEF TypeOK, ContextOn, Context
  <1>2. vm \in Contexts
    BY DEF TypeOK, Contexts
  <1>3. QED
    BY <1>1, <1>2 DEF Contexts

\* The innermost frame and its registers.
LEMMA FrameShape ==
    ASSUME NEW c \in Context, Depth(c) > 0, FramesNested(c), NullAbove(c)
    PROVE  /\ Depth(c) = Len(c.frames) /\ Depth(c) \in 1 .. Len(c.frames)
           /\ Frame(c) = c.frames[Depth(c)] /\ Frame(c) \in CallFrame
           /\ Frame(c).slots \in Pointer
           /\ Frame(c).slots[1] = c.block /\ Frame(c).slots[2] \in Nat
           /\ Live(c) = Frame(c).live /\ Live(c) \in 1 .. Frame(c).need /\ Frame(c).need \in Nat
           /\ Frame(c).slots[2] + Frame(c).need <= c.top
           /\ Frame(c).slots[2] + Frame(c).need <= MaxStack
           /\ Frame(c).slots[2] + Frame(c).need <= Capacity(c)
           /\ \A i \in Nat : SlotOf(c, i) = <<c.block, Frame(c).slots[2] + i>>
  <1>1. Depth(c) \in 1 .. Len(c.frames) /\ Frame(c) = c.frames[Depth(c)] /\ Frame(c) \in CallFrame
    BY ContextShape DEF Depth, Frame
  <1>2. /\ Frame(c).slots[1] = c.block /\ Frame(c).live \in 1 .. Frame(c).need
        /\ Frame(c).slots[2] + Frame(c).need <= c.top
        /\ Frame(c).slots[2] + Frame(c).need <= MaxStack
    BY <1>1 DEF FramesNested
  <1>3. Frame(c).slots \in Pointer /\ Frame(c).need \in Nat
    BY <1>1 DEF CallFrame
  <1>4. Frame(c).slots[1] = c.block /\ Frame(c).slots[2] \in Nat
    BY <1>2, <1>3 DEF Pointer
  <1>5. Frame(c).slots[2] + Frame(c).need <= Capacity(c)
    BY <1>2, <1>3, <1>4, ContextShape DEF NullAbove
  <1>6. QED
    BY <1>1, <1>2, <1>3, <1>4, <1>5 DEF Depth, Live, SlotOf

\* Frames that differ at most in the number of live registers
SameFrame(f, g) ==
    /\ f.slots = g.slots /\ f.need = g.need /\ f.dest = g.dest
    /\ f.expected = g.expected /\ f.callerTop = g.callerTop

LEMMA PutIs ==
    ASSUME NEW c \in Context, Depth(c) > 0, FramesNested(c), NullAbove(c),
           NEW values \in Seq(Contents), Live(c) + Len(values) <= Frame(c).need
    PROVE  LET p == Put(c, Live(c), values)  from == Frame(c).slots[2] + Live(c)  D == Depth(c)
           IN  /\ p \in Context /\ p.block = c.block /\ p.top = c.top /\ p.open = c.open
               /\ Capacity(p) = Capacity(c) /\ Len(p.frames) = Len(c.frames) /\ Depth(p) = D
               /\ \A d \in 1 .. Len(c.frames) : SameFrame(p.frames[d], c.frames[d])
               /\ \A d \in 1 .. Len(c.frames) :
                    p.frames[d].live = IF d = D THEN Live(c) + Len(values)
                                       ELSE c.frames[d].live
               /\ \A s \in 0 .. Capacity(c) - 1 :
                    p.stack[s] = IF s \in from .. from + Len(values) - 1
                                 THEN values[s - from + 1] ELSE c.stack[s]
  <1> DEFINE D == Depth(c)
             from == Frame(c).slots[2] + Live(c)
             live == Live(c) + Len(values)
             fr == [c.frames EXCEPT ![D] = [c.frames[D] EXCEPT !.live = live]]
             st == [s \in DOMAIN c.stack |->
                      IF s \in from .. from + Len(values) - 1
                      THEN values[s - from + 1] ELSE c.stack[s]]
             p == Put(c, Live(c), values)
  <1>0. Capacity(c) \in Nat
    BY ContextShape
  <1>1. /\ D \in 1 .. Len(c.frames) /\ c.frames[D] \in CallFrame /\ Live(c) \in Nat
        /\ SlotOf(c, Live(c))[2] = from /\ Frame(c).slots[2] \in Nat
    <2>1. /\ D \in 1 .. Len(c.frames) /\ c.frames[D] \in CallFrame
          /\ Live(c) \in 1 .. Frame(c).need /\ Frame(c).need \in Nat
          /\ Frame(c).slots[2] \in Nat
          /\ \A i \in Nat : SlotOf(c, i) = <<c.block, Frame(c).slots[2] + i>>
      BY FrameShape
    <2>2. QED
      BY <2>1
  <1>2. c.frames \in Seq(CallFrame) /\ c.stack \in [0 .. Capacity(c) - 1 -> Contents]
        /\ Capacity(c) \in Capacities /\ c.open \in Seq(Cell) /\ c.block \in Block /\ c.top \in Nat
    BY ContextShape
  <1>3. Len(values) \in Nat /\ live \in Nat /\ from \in Nat
    BY <1>1
  <1>4. fr \in Seq(CallFrame) /\ Len(fr) = Len(c.frames)
        /\ \A d \in 1 .. Len(c.frames) :
             /\ SameFrame(fr[d], c.frames[d])
             /\ fr[d].live = IF d = D THEN live ELSE c.frames[d].live
    <2> DEFINE top == [c.frames[D] EXCEPT !.live = live]
    <2>1. top \in CallFrame /\ SameFrame(top, c.frames[D]) /\ top.live = live
      BY <1>1, <1>3 DEF CallFrame, SameFrame
    <2> HIDE DEF top
    <2>2. fr \in Seq(CallFrame) /\ Len(fr) = Len(c.frames) /\ fr[D] = top
          /\ \A d \in 1 .. Len(c.frames) : d # D => fr[d] = c.frames[d]
      BY <1>1, <1>2, <2>1 DEF top
    <2>3. QED
      BY <2>1, <2>2 DEF SameFrame
  <1>5. /\ st \in [0 .. Capacity(c) - 1 -> Contents]
        /\ \A s \in 0 .. Capacity(c) - 1 :
             st[s] = IF s \in from .. from + Len(values) - 1
                     THEN values[s - from + 1] ELSE c.stack[s]
    <2>1. DOMAIN c.stack = 0 .. Capacity(c) - 1
      BY <1>2
    <2>2. ASSUME NEW s \in 0 .. Capacity(c) - 1
          PROVE  (IF s \in from .. from + Len(values) - 1
                  THEN values[s - from + 1] ELSE c.stack[s]) \in Contents
      <3> HIDE DEF from
      <3>1. CASE s \in from .. from + Len(values) - 1
        <4>1. s - from + 1 \in 1 .. Len(values)
          BY <3>1, <1>1, <1>3, <1>0
        <4>2. QED
          BY <3>1, <4>1
      <3>2. QED
        BY <3>1, <1>2
    <2>3. QED
      BY <2>1, <2>2
  <1>6. p = [block |-> c.block, stack |-> st, top |-> c.top, frames |-> fr, open |-> c.open]
    <2>1. p = [c EXCEPT !.frames = fr, !.stack = st]
      BY <1>1 DEF Put
    <2>2. QED
      BY <2>1 DEF Context, ContextOn
  <1>7. p \in Context /\ Capacity(p) = Capacity(c) /\ p.block = c.block /\ p.stack = st
        /\ p.top = c.top /\ p.frames = fr /\ p.open = c.open
    <2> HIDE DEF p, st, fr
    <2>1. QED
      BY <1>2, <1>4, <1>5, <1>6, ContextMade
  <1>8. QED
    <2> HIDE DEF fr, st
    <2>1. Depth(p) = D
      BY <1>4, <1>7 DEF Depth
    <2>2. \A d \in 1 .. Len(c.frames) : SameFrame(p.frames[d], c.frames[d])
      BY <1>4, <1>7
    <2>3. \A d \in 1 .. Len(c.frames) :
             p.frames[d].live = IF d = D THEN live ELSE c.frames[d].live
      BY <1>4, <1>7
    <2>4. \A s \in 0 .. Capacity(c) - 1 :
             p.stack[s] = IF s \in from .. from + Len(values) - 1
                     THEN values[s - from + 1] ELSE c.stack[s]
      BY <1>5, <1>7
    <2>5. Len(p.frames) = Len(c.frames)
      BY <1>4, <1>7
    <2>6. QED
      BY <1>7, <2>1, <2>2, <2>3, <2>4, <2>5
\* The frames stay nested when the innermost one has another number of live
\* registers.
LEMMA NestedAfter ==
    ASSUME NEW c \in Context, NEW p \in Context, FramesNested(c), Depth(c) > 0,
           Len(p.frames) = Len(c.frames), p.block = c.block, c.top <= p.top,
           \A d \in 1 .. Len(c.frames) : SameFrame(p.frames[d], c.frames[d]),
           NEW n \in 1 .. Frame(c).need,
           \A d \in 1 .. Len(c.frames) :
               p.frames[d].live = IF d = Depth(c) THEN n ELSE c.frames[d].live
    PROVE  FramesNested(p)
  <1>1. \A d \in 1 .. Len(c.frames) : c.frames[d] \in CallFrame /\ p.frames[d] \in CallFrame
    BY ContextShape
  <1>2. Len(c.frames) \in Nat /\ c.top \in Nat /\ p.top \in Nat
    BY ContextShape
  <1>3. \A d \in 1 .. Len(c.frames) :
          /\ c.frames[d].slots[2] \in Nat /\ c.frames[d].need \in Nat
          /\ c.frames[d].live \in Nat /\ c.frames[d].dest \in Nat
          /\ c.frames[d].expected \in Nat /\ c.frames[d].callerTop \in Nat
    BY <1>1 DEF CallFrame, Pointer
  <1>4. Depth(c) = Len(c.frames) /\ Frame(c) = c.frames[Len(c.frames)]
    BY DEF Depth, Frame
  <1>5. \A d \in 1 .. Len(c.frames) : LET f == p.frames[d] IN
         /\ f.slots[1] = p.block /\ f.live \in 1 .. f.need
         /\ f.slots[2] + f.need <= p.top /\ f.slots[2] + f.need <= MaxStack
         /\ f.callerTop <= p.top
         /\ d = 1 => f.slots[2] = 0 /\ f.callerTop = 0
    <2> SUFFICES ASSUME NEW d \in 1 .. Len(c.frames)
                 PROVE  LET f == p.frames[d] IN
                         /\ f.slots[1] = p.block /\ f.live \in 1 .. f.need
                         /\ f.slots[2] + f.need <= p.top /\ f.slots[2] + f.need <= MaxStack
                         /\ f.callerTop <= p.top
                         /\ d = 1 => f.slots[2] = 0 /\ f.callerTop = 0
      OBVIOUS
    <2>1. LET f == c.frames[d] IN
         /\ f.slots[1] = c.block /\ f.live \in 1 .. f.need
         /\ f.slots[2] + f.need <= c.top /\ f.slots[2] + f.need <= MaxStack
         /\ f.callerTop <= c.top
         /\ d = 1 => f.slots[2] = 0 /\ f.callerTop = 0
      BY DEF FramesNested
    <2>2. SameFrame(p.frames[d], c.frames[d])
      OBVIOUS
    <2>3. p.frames[d].live \in 1 .. c.frames[d].need
      BY <1>2, <1>4, <2>1
    <2>4. /\ p.frames[d].slots = c.frames[d].slots /\ p.frames[d].need = c.frames[d].need
          /\ p.frames[d].callerTop = c.frames[d].callerTop
      BY <2>2 DEF SameFrame
    <2>5. c.frames[d].slots[2] + c.frames[d].need <= p.top /\ c.frames[d].callerTop <= p.top
      <3>1. /\ c.frames[d].slots[2] \in Nat /\ c.frames[d].need \in Nat
            /\ c.frames[d].callerTop \in Nat
        BY <1>3
      <3>2. QED
        BY <1>2, <2>1, <3>1
    <2>6. QED
      BY <2>1, <2>3, <2>4, <2>5
  <1>6. \A d, e \in 1 .. Len(c.frames) : LET f == p.frames[d]  g == p.frames[e] IN
         /\ d < e => f.slots[2] + f.need <= g.callerTop /\ f.callerTop <= g.callerTop
         /\ e = d + 1 => /\ g.slots[2] = f.slots[2] + f.live /\ g.dest = f.live
                         /\ f.live + g.expected <= f.need
    <2> SUFFICES ASSUME NEW d \in 1 .. Len(c.frames), NEW e \in 1 .. Len(c.frames)
                 PROVE  LET f == p.frames[d]  g == p.frames[e] IN
                         /\ d < e => f.slots[2] + f.need <= g.callerTop /\ f.callerTop <= g.callerTop
                         /\ e = d + 1 => /\ g.slots[2] = f.slots[2] + f.live /\ g.dest = f.live
                                         /\ f.live + g.expected <= f.need
      OBVIOUS
    <2>1. LET f == c.frames[d]  g == c.frames[e] IN
         /\ d < e => f.slots[2] + f.need <= g.callerTop /\ f.callerTop <= g.callerTop
         /\ e = d + 1 => /\ g.slots[2] = f.slots[2] + f.live /\ g.dest = f.live
                         /\ f.live + g.expected <= f.need
      BY DEF FramesNested
    <2>2. SameFrame(p.frames[d], c.frames[d]) /\ SameFrame(p.frames[e], c.frames[e])
      OBVIOUS
    <2>3. e = d + 1 => p.frames[d].live = c.frames[d].live
      BY <1>2, <1>4
    <2>4. QED
      BY <2>1, <2>2, <2>3 DEF SameFrame
  <1>7. QED
    BY <1>5, <1>6 DEF FramesNested

\* So do the upvalues, if frames still have the registers they point at.
LEMMA SortedAfter ==
    ASSUME NEW c, NEW p, NEW ups, OpenSorted(c, ups),
           p.open = c.open, p.block = c.block,
           \A s \in Nat : FrameSlot(c, s) => FrameSlot(p, s)
    PROVE  OpenSorted(p, ups)
  <1>1. \A k \in 1 .. Len(c.open) : ups[c.open[k]].location[2] \in Nat
    BY DEF OpenSorted, Pointer
  <1>2. QED
    BY <1>1 DEF OpenSorted

\* Frames keep the registers they have.
LEMMA SameSlots ==
    ASSUME NEW c \in Context, NEW p \in Context, Len(p.frames) = Len(c.frames),
           \A d \in 1 .. Len(c.frames) : SameFrame(p.frames[d], c.frames[d]), NEW s
    PROVE  FrameSlot(c, s) <=> FrameSlot(p, s)
  <1>1. DOMAIN c.frames = 1 .. Len(c.frames) /\ DOMAIN p.frames = 1 .. Len(c.frames)
    BY ContextShape
  <1>2. \A d \in 1 .. Len(c.frames) : /\ p.frames[d].slots = c.frames[d].slots
                                       /\ p.frames[d].need = c.frames[d].need
    BY DEF SameFrame
  <1>3. QED
    BY <1>1, <1>2 DEF FrameSlot

LEMMA PutSlots ==
    ASSUME NEW c \in Context, Depth(c) > 0, FramesNested(c), NullAbove(c),
           NEW values \in Seq(Contents), Live(c) + Len(values) <= Frame(c).need,
           NEW s \in Nat, FrameSlot(c, s)
    PROVE  FrameSlot(Put(c, Live(c), values), s)
  <1> DEFINE p == Put(c, Live(c), values)
  <1>1. /\ p \in Context /\ Len(p.frames) = Len(c.frames)
        /\ \A d \in 1 .. Len(c.frames) : SameFrame(p.frames[d], c.frames[d])
    BY PutIs
  <1> HIDE DEF p
  <1>2. QED
    BY <1>1, SameSlots DEF p

\* New values in the next registers
LEMMA PutKeeps ==
    ASSUME NEW c \in Context, NEW ups, ContextOK(c, ups), Depth(c) > 0,
           NEW values \in Seq(Contents), Live(c) + Len(values) <= Frame(c).need
    PROVE  ContextOK(Put(c, Live(c), values), ups)
  <1> DEFINE p == Put(c, Live(c), values)
             from == Frame(c).slots[2] + Live(c)
  <1>1. FramesNested(c) /\ NullAbove(c) /\ OpenSorted(c, ups)
    BY DEF ContextOK
  <1>2. /\ p \in Context /\ p.block = c.block /\ p.top = c.top /\ p.open = c.open
        /\ Capacity(p) = Capacity(c) /\ Len(p.frames) = Len(c.frames)
        /\ \A d \in 1 .. Len(c.frames) : SameFrame(p.frames[d], c.frames[d])
        /\ \A d \in 1 .. Len(c.frames) :
             p.frames[d].live = IF d = Depth(c) THEN Live(c) + Len(values) ELSE c.frames[d].live
        /\ \A s \in 0 .. Capacity(c) - 1 :
             p.stack[s] = IF s \in from .. from + Len(values) - 1
                          THEN values[s - from + 1] ELSE c.stack[s]
    BY <1>1, PutIs
  <1>3. /\ Depth(c) = Len(c.frames) /\ Depth(c) \in 1 .. Len(c.frames)
        /\ Live(c) \in 1 .. Frame(c).need /\ Live(c) = Frame(c).live
        /\ Frame(c) = c.frames[Depth(c)]
        /\ Frame(c).need \in Nat /\ Frame(c).slots[2] \in Nat
        /\ Frame(c).slots[2] + Frame(c).need <= c.top
    BY <1>1, FrameShape
  <1>4. /\ c.top \in Nat /\ Len(values) \in Nat /\ Capacity(c) \in Nat
        /\ DOMAIN c.stack = 0 .. Capacity(c) - 1 /\ DOMAIN p.stack = 0 .. Capacity(c) - 1
        /\ DOMAIN c.frames = 1 .. Len(c.frames) /\ DOMAIN p.frames = 1 .. Len(c.frames)
    BY <1>2, ContextShape
  <1>5. from \in Nat /\ from + Len(values) <= c.top
    <2>1. Live(c) \in Nat /\ Frame(c).slots[2] \in Nat /\ Frame(c).need \in Nat
      BY <1>3
    <2>2. Len(values) \in Nat /\ c.top \in Nat
      BY <1>4
    <2>3. Frame(c).slots[2] + Frame(c).need <= c.top
      BY <1>3
    <2>4. QED
      BY <2>1, <2>2, <2>3
  <1> HIDE DEF p, from
  <1>6. FramesNested(p)
    <2>1. Live(c) + Len(values) \in 1 .. Frame(c).need
      BY <1>3, <1>4
    <2>2. /\ p \in Context /\ p.block = c.block /\ c.top <= p.top
          /\ Len(p.frames) = Len(c.frames)
          /\ \A d \in 1 .. Len(c.frames) : SameFrame(p.frames[d], c.frames[d])
      BY <1>2, <1>4
    <2> DEFINE n == Live(c) + Len(values)
    <2>3. \A d \in 1 .. Len(c.frames) :
            p.frames[d].live = IF d = Depth(c) THEN n ELSE c.frames[d].live
      BY <1>2
    <2>4. n \in 1 .. Frame(c).need
      BY <2>1
    <2> HIDE DEF n
    <2>5. QED
      BY <1>1, <2>2, <2>3, <2>4, NestedAfter
  <1>7. NullAbove(p)
    <2>1. ASSUME NEW s \in 0 .. Capacity(c) - 1, s >= c.top PROVE p.stack[s] = Null
      <3>1. s \notin from .. from + Len(values) - 1
        BY <1>5, <1>4, <2>1
      <3>2. c.stack[s] = Null
        BY <1>1, <1>4, <2>1 DEF NullAbove
      <3>3. QED
        BY <1>2, <3>1, <3>2
    <2>2. QED
      BY <1>1, <1>2, <1>4, <2>1 DEF NullAbove
  <1>8. \A s \in Nat : FrameSlot(c, s) => FrameSlot(p, s)
    BY <1>1, PutSlots DEF p
  <1>9. OpenSorted(p, ups)
    BY <1>1, <1>2, <1>8, SortedAfter
  <1>10. QED
    BY <1>6, <1>7, <1>9 DEF ContextOK, p

(***************************************************************************)
(* Growth moves registers and what points at them together.                *)
(***************************************************************************)
LEMMA GrowthIs ==
    ASSUME vm \in Context, NEW needed \in Nat, NEW g \in Growths(needed)
    PROVE  /\ g.size \in Capacities /\ g.size \in Nat /\ g.moves \in BOOLEAN
           /\ g.size >= Capacity(vm) /\ g.size >= needed /\ needed <= MaxStack
  <1>1. Capacity(vm) \in Capacities /\ Capacity(vm) \in Nat
    BY ContextShape
  <1>2. needed <= MaxStack /\ g.size \in Sizes(needed) /\ g.moves \in BOOLEAN
    <2>1. ~(needed > MaxStack)
      BY DEF Growths
    <2>2. needed <= MaxStack
      BY <2>1, FramesAssumption
    <2>3. g \in [size : Sizes(needed),
                moves : IF Capacity(vm) < needed THEN BOOLEAN ELSE {FALSE}]
      BY <2>1 DEF Growths
    <2>4. QED
      BY <2>2, <2>3
  <1>3. MaxStack \in Nat /\ MainCap \in Nat /\ CoCap \in Nat
    BY FramesAssumption
  <1>4. CASE Capacity(vm) >= needed
    BY <1>1, <1>2, <1>4 DEF Sizes
  <1>5. CASE ~(Capacity(vm) >= needed)
    <2>1. g.size \in needed .. 2 * needed - 1
      BY <1>2, <1>5 DEF Sizes
    <2>2. g.size \in Nat /\ g.size <= 2 * MaxStack
      BY <1>2, <1>3, <2>1
    <2>3. g.size \in Capacities
      BY <1>3, <2>2 DEF Capacities
    <2>4. QED
      BY <1>1, <1>2, <1>5, <2>1, <2>2, <2>3
  <1>6. QED
    BY <1>4, <1>5

LEMMA MovedBlock ==
    ASSUME NEW b \in Block
    PROVE  Moved(b) \in Block /\ Moved(b)[1] = b[1]
  BY DEF Moved, Block

LEMMA RelocateIs ==
    ASSUME NEW b \in Block, NEW p \in Pointer, p[1] = b
    PROVE  /\ Relocate(p, b) \in Pointer
           /\ Relocate(p, b)[1] = Moved(b) /\ Relocate(p, b)[2] = p[2]
  <1>1. p # None
    BY FramesAssumption
  <1>2. p[2] \in Nat
    BY DEF Pointer
  <1>3. QED
    BY <1>1, <1>2, MovedBlock DEF Relocate, Pointer

LEMMA GrownIs ==
    ASSUME NEW c \in Context, FramesNested(c), NEW g,
           g.size \in Capacities, g.size >= Capacity(c), g.moves \in BOOLEAN
    PROVE  LET p == Grown(c, g) IN
           /\ p \in Context /\ p.top = c.top /\ p.open = c.open /\ Capacity(p) = g.size
           /\ p.block = IF g.moves THEN Moved(c.block) ELSE c.block
           /\ p.block[1] = c.block[1]
           /\ Len(p.frames) = Len(c.frames)
           /\ \A d \in 1 .. Len(c.frames) :
                /\ p.frames[d].slots = <<p.block, c.frames[d].slots[2]>>
                /\ p.frames[d].need = c.frames[d].need /\ p.frames[d].live = c.frames[d].live
                /\ p.frames[d].dest = c.frames[d].dest
                /\ p.frames[d].expected = c.frames[d].expected
                /\ p.frames[d].callerTop = c.frames[d].callerTop
           /\ \A s \in 0 .. g.size - 1 :
                p.stack[s] = IF s < Capacity(c) THEN c.stack[s] ELSE Null
  <1> DEFINE p == Grown(c, g)
             st == [s \in 0 .. g.size - 1 |-> IF s \in DOMAIN c.stack THEN c.stack[s] ELSE Null]
             bl == IF g.moves THEN Moved(c.block) ELSE c.block
             fr == [d \in DOMAIN c.frames |->
                     [c.frames[d] EXCEPT
                        !.slots = IF g.moves THEN Relocate(@, c.block) ELSE @]]
  <1>1. /\ c.frames \in Seq(CallFrame) /\ Len(c.frames) \in Nat
        /\ DOMAIN c.frames = 1 .. Len(c.frames)
        /\ \A d \in 1 .. Len(c.frames) : c.frames[d] \in CallFrame
        /\ c.stack \in [0 .. Capacity(c) - 1 -> Contents] /\ Capacity(c) \in Nat
        /\ c.block \in Block /\ c.top \in Nat /\ c.open \in Seq(Cell)
    BY ContextShape
  <1>2. g.size \in Nat /\ Null \in Contents
    BY FramesAssumption DEF Capacities, Contents
  <1>3. bl \in Block /\ bl[1] = c.block[1]
    BY <1>1, MovedBlock
  <1>4. st \in [0 .. g.size - 1 -> Contents]
        /\ \A s \in 0 .. g.size - 1 : st[s] = IF s < Capacity(c) THEN c.stack[s] ELSE Null
    BY <1>1, <1>2
  <1>5. ASSUME NEW d \in 1 .. Len(c.frames)
        PROVE  /\ fr[d] \in CallFrame
               /\ fr[d].slots = <<bl, c.frames[d].slots[2]>>
               /\ fr[d].need = c.frames[d].need /\ fr[d].live = c.frames[d].live
               /\ fr[d].dest = c.frames[d].dest
               /\ fr[d].expected = c.frames[d].expected
               /\ fr[d].callerTop = c.frames[d].callerTop
    <2> DEFINE sl == IF g.moves THEN Relocate(c.frames[d].slots, c.block)
                     ELSE c.frames[d].slots
    <2>1. c.frames[d] \in CallFrame /\ c.frames[d].slots[1] = c.block
          /\ c.frames[d].slots \in Pointer
      BY <1>1 DEF FramesNested, CallFrame
    <2>2. sl \in Pointer /\ sl[1] = bl /\ sl[2] = c.frames[d].slots[2]
      BY <1>1, <2>1, RelocateIs
    <2>3. sl = <<bl, c.frames[d].slots[2]>>
      BY <2>2 DEF Pointer
    <2>4. fr[d] = [c.frames[d] EXCEPT !.slots = sl]
      BY <1>1
    <2> HIDE DEF sl, fr, bl
    <2>5. QED
      BY <2>1, <2>2, <2>3, <2>4 DEF CallFrame
  <1>6. fr \in Seq(CallFrame) /\ Len(fr) = Len(c.frames)
    <2>1. DOMAIN fr = 1 .. Len(c.frames)
      BY <1>1
    <2> HIDE DEF fr
    <2>2. fr \in [1 .. Len(c.frames) -> CallFrame]
      <3>1. fr = [d \in 1 .. Len(c.frames) |-> fr[d]]
        BY <2>1 DEF fr
      <3>2. QED
        BY <1>5, <3>1
    <2>3. Len(c.frames) \in Nat
      BY <1>1
    <2> DEFINE n == Len(c.frames)
    <2> HIDE DEF n
    <2>4. fr \in [1 .. n -> CallFrame] /\ n \in Nat
      BY <2>2, <2>3 DEF n
    <2>5. fr \in Seq(CallFrame) /\ Len(fr) = n
      BY <2>4
    <2>6. QED
      BY <2>5 DEF n
  <1>7. p = [block |-> bl, stack |-> st, top |-> c.top, frames |-> fr, open |-> c.open]
    <2>1. p = [c EXCEPT !.stack = st, !.block = bl, !.frames = fr]
      BY DEF Grown
    <2> HIDE DEF st, bl, fr
    <2>2. QED
      BY <2>1 DEF Context, ContextOn
  <1>8. p \in Context /\ Capacity(p) = g.size /\ p.block = bl /\ p.stack = st
        /\ p.top = c.top /\ p.frames = fr /\ p.open = c.open
    <2> DEFINE n == g.size
               t == c.top
               o == c.open
    <2>1. /\ bl \in Block /\ n \in Capacities /\ st \in [0 .. n - 1 -> Contents] /\ t \in Nat
          /\ fr \in Seq(CallFrame) /\ o \in Seq(Cell)
          /\ p = [block |-> bl, stack |-> st, top |-> t, frames |-> fr, open |-> o]
      BY <1>1, <1>3, <1>4, <1>6, <1>7
    <2> HIDE DEF st, bl, fr, p, n, t, o
    <2>2. /\ p \in Context /\ Capacity(p) = n /\ p.block = bl /\ p.stack = st
          /\ p.top = t /\ p.frames = fr /\ p.open = o
      BY <2>1, ContextMade
    <2>3. QED
      BY <2>2 DEF n, t, o
  <1>9. QED
    <2> HIDE DEF st, fr
    <2>1. QED
      BY <1>3, <1>4, <1>5, <1>6, <1>8

\* In ups1 the open upvalues of c have moved as its stack does.
MovedAlong(c, g, ups, ups1) ==
    \A k \in 1 .. Len(c.open) :
        ups1[c.open[k]] =
            IF g.moves
            THEN [ups[c.open[k]] EXCEPT !.location = Relocate(ups[c.open[k]].location, c.block)]
            ELSE ups[c.open[k]]

\* Growth keeps a context in order, with the upvalues moved along.
LEMMA GrownKeeps ==
    ASSUME NEW c \in Context, NEW ups, NEW ups1, ContextOK(c, ups), NEW g,
           g.size \in Capacities, g.size >= Capacity(c), g.moves \in BOOLEAN,
           MovedAlong(c, g, ups, ups1)
    PROVE  ContextOK(Grown(c, g), ups1)
  <1> DEFINE p == Grown(c, g)
  <1>1. FramesNested(c) /\ NullAbove(c) /\ OpenSorted(c, ups)
    BY DEF ContextOK
  <1>2. /\ p \in Context /\ p.top = c.top /\ p.open = c.open /\ Capacity(p) = g.size
        /\ p.block = IF g.moves THEN Moved(c.block) ELSE c.block
        /\ Len(p.frames) = Len(c.frames)
        /\ \A d \in 1 .. Len(c.frames) :
                /\ p.frames[d].slots = <<p.block, c.frames[d].slots[2]>>
                /\ p.frames[d].need = c.frames[d].need /\ p.frames[d].live = c.frames[d].live
                /\ p.frames[d].dest = c.frames[d].dest
                /\ p.frames[d].expected = c.frames[d].expected
                /\ p.frames[d].callerTop = c.frames[d].callerTop
        /\ \A s \in 0 .. g.size - 1 : p.stack[s] = IF s < Capacity(c) THEN c.stack[s] ELSE Null
    BY <1>1, GrownIs
  <1>3. /\ c.top \in Nat /\ Capacity(c) \in Nat /\ g.size \in Nat /\ Len(c.open) \in Nat
        /\ DOMAIN c.stack = 0 .. Capacity(c) - 1 /\ DOMAIN p.stack = 0 .. g.size - 1
        /\ DOMAIN c.frames = 1 .. Len(c.frames) /\ DOMAIN p.frames = 1 .. Len(c.frames)
        /\ c.block \in Block
    BY <1>2, ContextShape
  <1> HIDE DEF p
  <1>4. FramesNested(p)
    <2>1. \A d \in 1 .. Len(c.frames) :
            p.frames[d].slots[1] = p.block /\ p.frames[d].slots[2] = c.frames[d].slots[2]
      BY <1>2
    <2>2. QED
      BY <1>1, <1>2, <2>1 DEF FramesNested
  <1>5. NullAbove(p)
    <2>1. ASSUME NEW s \in 0 .. g.size - 1, s >= c.top PROVE p.stack[s] = Null
      <3>1. CASE s < Capacity(c)
        <4>1. s \in DOMAIN c.stack
          BY <1>3, <3>1
        <4>2. c.stack[s] = Null
          BY <1>1, <2>1, <4>1 DEF NullAbove
        <4>3. QED
          BY <1>2, <3>1, <4>2
      <3>2. CASE ~(s < Capacity(c))
        BY <1>2, <3>2
      <3>3. QED
        BY <3>1, <3>2
    <2>2. QED
      BY <1>1, <1>2, <1>3, <2>1 DEF NullAbove
  <1>6. \A s : FrameSlot(p, s) <=> FrameSlot(c, s)
    <2>1. \A d \in 1 .. Len(c.frames) : p.frames[d].slots[2] = c.frames[d].slots[2]
                                       /\ p.frames[d].need = c.frames[d].need
      BY <1>2
    <2>2. QED
      BY <1>3, <2>1 DEF FrameSlot
  <1>7. ASSUME NEW k \in 1 .. Len(c.open)
        PROVE  /\ ups1[c.open[k]] \in Upvalue /\ ups1[c.open[k]].location \in Pointer
               /\ ups1[c.open[k]].location[1] = p.block
               /\ ups1[c.open[k]].location[2] = ups[c.open[k]].location[2]
    <2>1. /\ ups[c.open[k]] \in Upvalue /\ ups[c.open[k]].location \in Pointer
          /\ ups[c.open[k]].location[1] = c.block
      BY <1>1 DEF OpenSorted
    <2>2. CASE g.moves
      <3> DEFINE loc == Relocate(ups[c.open[k]].location, c.block)
      <3>1. loc \in Pointer /\ loc[1] = Moved(c.block)
            /\ loc[2] = ups[c.open[k]].location[2]
        BY <1>3, <2>1, RelocateIs
      <3>2. ups1[c.open[k]] = [ups[c.open[k]] EXCEPT !.location = loc]
        BY <2>2 DEF MovedAlong
      <3> HIDE DEF loc
      <3>3. ups1[c.open[k]] \in Upvalue /\ ups1[c.open[k]].location = loc
        BY <2>1, <3>1, <3>2 DEF Upvalue
      <3>4. QED
        BY <1>2, <2>2, <3>1, <3>3
    <2>3. CASE ~g.moves
      BY <1>2, <2>1, <2>3 DEF MovedAlong
    <2>4. QED
      BY <2>2, <2>3
  <1>8. OpenSorted(p, ups1)
    BY <1>1, <1>2, <1>6, <1>7 DEF OpenSorted
  <1>9. QED
    BY <1>4, <1>5, <1>8 DEF ContextOK, p

\* A register below the top gets another value.
LEMMA OverwriteKeeps ==
    ASSUME NEW c \in Context, NEW ups, ContextOK(c, ups), NEW v \in Contents,
           NEW s \in Nat, s < c.top
    PROVE  LET p == [c EXCEPT !.stack[s] = v] IN
           /\ p \in Context /\ ContextOK(p, ups) /\ Capacity(p) = Capacity(c)
           /\ p.block = c.block /\ p.top = c.top /\ p.frames = c.frames /\ p.open = c.open
           /\ s \in 0 .. Capacity(c) - 1 /\ p.stack = [c.stack EXCEPT ![s] = v]
  <1> DEFINE p == [c EXCEPT !.stack[s] = v]
             st == [c.stack EXCEPT ![s] = v]
  <1>1. FramesNested(c) /\ NullAbove(c) /\ OpenSorted(c, ups)
    BY DEF ContextOK
  <1>2. /\ c.frames \in Seq(CallFrame) /\ c.open \in Seq(Cell) /\ c.top \in Nat
        /\ c.block \in Block /\ Capacity(c) \in Capacities /\ Capacity(c) \in Nat
        /\ c.stack \in [0 .. Capacity(c) - 1 -> Contents]
    BY ContextShape
  <1>3. s \in 0 .. Capacity(c) - 1
    BY <1>1, <1>2 DEF NullAbove
  <1>4. st \in [0 .. Capacity(c) - 1 -> Contents]
    BY <1>2, <1>3
  <1>5. p = [block |-> c.block, stack |-> st, top |-> c.top, frames |-> c.frames,
             open |-> c.open]
    <2>1. p = [c EXCEPT !.stack = st]
      OBVIOUS
    <2> HIDE DEF st
    <2>2. QED
      BY <2>1 DEF Context, ContextOn
  <1>6. p \in Context /\ Capacity(p) = Capacity(c) /\ p.block = c.block /\ p.stack = st
        /\ p.top = c.top /\ p.frames = c.frames /\ p.open = c.open
    <2> HIDE DEF p, st
    <2>1. QED
      BY <1>2, <1>4, <1>5, ContextMade
  <1>7. ContextOK(p, ups)
    <2>1. \A t \in 0 .. Capacity(c) - 1 : t >= c.top => st[t] = Null
      BY <1>1, <1>2 DEF NullAbove
    <2>2. DOMAIN st = 0 .. Capacity(c) - 1
      BY <1>2
    <2> HIDE DEF p, st
    <2>3. NullAbove(p)
      BY <1>1, <1>6, <2>1, <2>2 DEF NullAbove
    <2>4. FramesNested(p)
      BY <1>1, <1>6 DEF FramesNested
    <2>5. OpenSorted(p, ups)
      BY <1>1, <1>6 DEF OpenSorted, FrameSlot
    <2>6. QED
      BY <2>3, <2>4, <2>5 DEF ContextOK
  <1>8. QED
    BY <1>3, <1>6, <1>7

(***************************************************************************)
(* The walks along the list of open upvalues.                              *)
(***************************************************************************)
LEMMA Least ==
    ASSUME NEW S \in SUBSET Nat, S # {}
    PROVE  \E m \in S : \A n \in S : m <= n
  <1> DEFINE Less == StrictSubsetOrdering(Nat)
             T == {0 .. n : n \in S}
  <1>1. IsWellFoundedOn(Less, FiniteSubsetsOf(Nat))
    BY FS_StrictSubsetOrderingWellFounded
  <1>2. \A n \in Nat : IsFiniteSet(0 .. n)
    BY FS_Interval
  <1>3. T \subseteq FiniteSubsetsOf(Nat) /\ T # {}
    <2>1. ASSUME NEW n \in S PROVE 0 .. n \in FiniteSubsetsOf(Nat)
      <3>1. n \in Nat /\ 0 .. n \subseteq Nat /\ IsFiniteSet(0 .. n)
        BY <1>2
      <3>2. QED
        BY <3>1 DEF FiniteSubsetsOf
    <2>2. QED
      BY <2>1
  <1>4. PICK x \in T : \A y \in T : ~(<<y, x>> \in Less)
    <2> HIDE DEF Less, T
    <2>1. QED
      BY <1>1, <1>3, WFMin
  <1>5. PICK m \in S : x = 0 .. m
    BY DEF T
  <1>6. ASSUME NEW n \in S PROVE m <= n
    <2>1. SUFFICES ASSUME n < m PROVE FALSE
      BY <1>5
    <2>2. 0 .. n \subseteq 0 .. m /\ 0 .. n # 0 .. m
      <3>1. m \in 0 .. m /\ m \notin 0 .. n
        BY <2>1
      <3>2. QED
        BY <2>1, <3>1
    <2>3. <<0 .. n, 0 .. m>> \in Less
      BY <2>2 DEF StrictSubsetOrdering
    <2>4. QED
      BY <1>4, <1>5, <2>3
  <1>7. QED
    BY <1>6

\* close_upvalues takes what is at slot s or above, and nothing else.
LEMMA ClosingIs ==
    ASSUME NEW c \in Context, OpenSorted(c, up), NEW s \in Nat
    PROVE  /\ Closing(c, s) \in 0 .. Len(c.open)
           /\ \A k \in 1 .. Len(c.open) :
                up[c.open[k]].location[2] >= s <=> k <= Closing(c, s)
  <1> DEFINE at(k) == up[c.open[k]].location[2]
             S == {n \in 0 .. Len(c.open) : n < Len(c.open) => at(n + 1) < s}
             Right(n) == /\ \A k \in 1 .. n : at(k) >= s
                         /\ n < Len(c.open) => at(n + 1) < s
  <1>1. Len(c.open) \in Nat
    BY ContextShape
  <1>2. \A k \in 1 .. Len(c.open) : at(k) \in Nat
    BY DEF OpenSorted, Pointer
  <1>3. Len(c.open) \in S
    BY <1>1
  <1>4. PICK n \in S : \A m \in S : n <= m
    <2>1. S \in SUBSET Nat /\ S # {}
      BY <1>1, <1>3
    <2> HIDE DEF S
    <2>2. QED
      BY <2>1, Least
  <1>5. ASSUME NEW k \in 1 .. n PROVE at(k) >= s
    <2>1. k - 1 \in 0 .. Len(c.open) /\ k - 1 < Len(c.open) /\ k \in 1 .. Len(c.open)
      BY <1>1, <1>5
    <2>2. k - 1 \notin S
      BY <1>1, <1>4, <1>5
    <2>3. ~(at(k - 1 + 1) < s)
      BY <2>1, <2>2
    <2>4. k - 1 + 1 = k
      BY <2>1
    <2>5. QED
      BY <1>2, <2>1, <2>3, <2>4
  <1>6. \E m \in 0 .. Len(c.open) : Right(m)
    BY <1>4, <1>5
  <1>7. Closing(c, s) \in 0 .. Len(c.open) /\ Right(Closing(c, s))
    <2> HIDE DEF Right
    <2>1. Closing(c, s) = CHOOSE m \in 0 .. Len(c.open) : Right(m)
      BY DEF Closing, Right
    <2>2. QED
      BY <1>6, <2>1
  <1>8. ASSUME NEW k \in 1 .. Len(c.open), k > Closing(c, s) PROVE at(k) < s
    <2> DEFINE n1 == Closing(c, s) + 1
    <2>1. n1 \in 1 .. Len(c.open) /\ at(n1) < s
      BY <1>1, <1>7, <1>8
    <2>2. CASE k = n1
      BY <2>1, <2>2
    <2>3. CASE k # n1
      <3>1. n1 < k
        BY <1>1, <1>7, <1>8, <2>3
      <3>2. at(k) < at(n1)
        BY <2>1, <3>1 DEF OpenSorted
      <3>3. at(k) \in Nat /\ at(n1) \in Nat
        BY <1>2, <2>1
      <3> HIDE DEF at
      <3>4. QED
        BY <2>1, <3>2, <3>3
    <2>4. QED
      BY <2>2, <2>3
  <1>9. QED
    BY <1>1, <1>2, <1>7, <1>8

\* What is closed is what pointed at slot s or above.
LEMMA GoneIs ==
    ASSUME NEW c \in Context, OpenSorted(c, up), NEW s \in Nat
    PROVE  /\ Gone(c, s) \subseteq Cell
           /\ \A k \in 1 .. Len(c.open) :
                c.open[k] \in Gone(c, s) <=> up[c.open[k]].location[2] >= s
           /\ \A u \in Gone(c, s) : \E k \in 1 .. Len(c.open) : u = c.open[k]
  <1>1. /\ Closing(c, s) \in 0 .. Len(c.open) /\ Len(c.open) \in Nat
        /\ \A k \in 1 .. Len(c.open) :
             up[c.open[k]].location[2] >= s <=> k <= Closing(c, s)
        /\ \A k \in 1 .. Len(c.open) : c.open[k] \in Cell
    BY ClosingIs, ContextShape
  <1>2. \A u \in Gone(c, s) : \E k \in 1 .. Len(c.open) : u = c.open[k] /\ k <= Closing(c, s)
    BY <1>1 DEF Gone
  <1>3. \A k \in 1 .. Len(c.open) : k <= Closing(c, s) => c.open[k] \in Gone(c, s)
    BY <1>1 DEF Gone
  <1>4. QED
    BY <1>1, <1>2, <1>3

LEMMA ClosedIs ==
    ASSUME NEW c \in Context, OpenSorted(c, up), NEW s \in Nat
    PROVE  LET p == Closed(c, s)  n == Closing(c, s) IN
           /\ p \in Context /\ Capacity(p) = Capacity(c) /\ p.block = c.block
           /\ p.stack = c.stack /\ p.top = c.top /\ p.frames = c.frames
           /\ Len(p.open) = Len(c.open) - n
           /\ \A k \in 1 .. Len(p.open) : k + n \in 1 .. Len(c.open) /\ p.open[k] = c.open[k + n]
           /\ \A k \in 1 .. Len(c.open) :
                up[c.open[k]].location[2] < s => k - n \in 1 .. Len(p.open)
                                                 /\ p.open[k - n] = c.open[k]
  <1> DEFINE n == Closing(c, s)
             op == SubSeq(c.open, n + 1, Len(c.open))
             p == Closed(c, s)
  <1>1. /\ n \in 0 .. Len(c.open) /\ Len(c.open) \in Nat /\ c.open \in Seq(Cell)
        /\ \A k \in 1 .. Len(c.open) : up[c.open[k]].location[2] >= s <=> k <= n
    BY ClosingIs, ContextShape
  <1>2. \A k \in 1 .. Len(c.open) : up[c.open[k]].location[2] \in Nat
    BY DEF OpenSorted, Pointer
  <1> HIDE DEF n
  <1>3. /\ op \in Seq(Cell) /\ Len(op) = Len(c.open) - n
        /\ \A k \in 1 .. Len(op) : k + n \in 1 .. Len(c.open) /\ op[k] = c.open[k + n]
    BY <1>1
  <1>4. p = [block |-> c.block, stack |-> c.stack, top |-> c.top, frames |-> c.frames,
             open |-> op]
    <2>1. p = [c EXCEPT !.open = op]
      BY DEF Closed, n
    <2> HIDE DEF op
    <2>2. QED
      BY <2>1 DEF Context, ContextOn
  <1>5. p \in Context /\ Capacity(p) = Capacity(c) /\ p.block = c.block /\ p.stack = c.stack
        /\ p.top = c.top /\ p.frames = c.frames /\ p.open = op
    <2> DEFINE b == c.block
               m == Capacity(c)
               st == c.stack
               t == c.top
               f == c.frames
    <2>1. /\ b \in Block /\ m \in Capacities /\ st \in [0 .. m - 1 -> Contents] /\ t \in Nat
          /\ f \in Seq(CallFrame)
      BY ContextShape
    <2>2. op \in Seq(Cell)
          /\ p = [block |-> b, stack |-> st, top |-> t, frames |-> f, open |-> op]
      BY <1>3, <1>4
    <2> HIDE DEF p, op, b, m, st, t, f
    <2>3. /\ p \in Context /\ Capacity(p) = m /\ p.block = b /\ p.stack = st
          /\ p.top = t /\ p.frames = f /\ p.open = op
      BY <2>1, <2>2, ContextMade
    <2>4. QED
      BY <2>3 DEF b, m, st, t, f
  <1>6. ASSUME NEW k \in 1 .. Len(c.open), up[c.open[k]].location[2] < s
        PROVE  k - n \in 1 .. Len(op) /\ op[k - n] = c.open[k]
    <2>1. ~(k <= n)
      BY <1>1, <1>2, <1>6
    <2>2. k - n \in 1 .. Len(op) /\ (k - n) + n = k
      BY <1>1, <1>3, <2>1
    <2>3. QED
      BY <1>3, <2>2
  <1>7. QED
    <2> HIDE DEF op, p
    <2>1. QED
      BY <1>3, <1>5, <1>6 DEF n, p
LEMMA SlotInside ==
    ASSUME NEW c \in Context, FramesNested(c), NullAbove(c), NEW s \in Nat, FrameSlot(c, s)
    PROVE  s < c.top /\ s \in 0 .. Capacity(c) - 1 /\ s \in DOMAIN c.stack
  <1>1. /\ c.top \in Nat /\ Capacity(c) \in Nat /\ DOMAIN c.stack = 0 .. Capacity(c) - 1
        /\ DOMAIN c.frames = 1 .. Len(c.frames)
    BY ContextShape
  <1>2. PICK d \in 1 .. Len(c.frames) :
          s \in c.frames[d].slots[2] .. c.frames[d].slots[2] + c.frames[d].need - 1
    BY <1>1 DEF FrameSlot
  <1>3. c.frames[d].slots[2] \in Nat /\ c.frames[d].need \in Nat
    BY ContextShape DEF CallFrame, Pointer
  <1>4. c.frames[d].slots[2] + c.frames[d].need <= c.top
    BY DEF FramesNested
  <1>5. s < c.top
    <2> DEFINE a == c.frames[d].slots[2]
               n == c.frames[d].need
    <2>1. a \in Nat /\ n \in Nat /\ s \in a .. a + n - 1 /\ a + n <= c.top /\ c.top \in Nat
      BY <1>1, <1>2, <1>3, <1>4
    <2> HIDE DEF a, n
    <2>2. QED
      BY <2>1
  <1>6. QED
    BY <1>1, <1>5 DEF NullAbove

\* A register in use is one of a frame.
LEMMA LiveInside ==
    ASSUME NEW c \in Context, FramesNested(c), NullAbove(c), NEW s \in Nat, LiveSlot(c, s)
    PROVE  FrameSlot(c, s) /\ s < c.top /\ s \in 0 .. Capacity(c) - 1 /\ s \in DOMAIN c.stack
  <1>1. DOMAIN c.frames = 1 .. Len(c.frames)
    BY ContextShape
  <1>2. PICK d \in 1 .. Len(c.frames) :
          s \in c.frames[d].slots[2] .. c.frames[d].slots[2] + c.frames[d].live - 1
    BY <1>1 DEF LiveSlot
  <1>3. c.frames[d].slots[2] \in Nat /\ c.frames[d].need \in Nat /\ c.frames[d].live \in Nat
    BY ContextShape DEF CallFrame, Pointer
  <1>4. c.frames[d].live \in 1 .. c.frames[d].need
    BY DEF FramesNested
  <1>5. s \in c.frames[d].slots[2] .. c.frames[d].slots[2] + c.frames[d].need - 1
    <2> DEFINE a == c.frames[d].slots[2]
               l == c.frames[d].live
               n == c.frames[d].need
    <2>1. a \in Nat /\ n \in Nat /\ l \in Nat /\ l \in 1 .. n /\ s \in a .. a + l - 1
      BY <1>2, <1>3, <1>4
    <2> HIDE DEF a, l, n
    <2>2. s \in a .. a + n - 1
      BY <2>1
    <2>3. QED
      BY <2>2 DEF a, n
  <1>6. FrameSlot(c, s)
    BY <1>1, <1>5 DEF FrameSlot
  <1>7. QED
    BY <1>6, SlotInside

LEMMA OpenInside ==
    ASSUME NEW c \in Context, ContextOK(c, up), NEW k \in 1 .. Len(c.open)
    PROVE  /\ up[c.open[k]] \in Upvalue /\ up[c.open[k]].location \in Pointer
           /\ up[c.open[k]].location[1] = c.block
           /\ up[c.open[k]].location[2] \in Nat
           /\ up[c.open[k]].location[2] \in 0 .. Capacity(c) - 1
           /\ c.stack[up[c.open[k]].location[2]] \in Contents
  <1>1. /\ up[c.open[k]] \in Upvalue /\ up[c.open[k]].location \in Pointer
        /\ up[c.open[k]].location[1] = c.block
        /\ FrameSlot(c, up[c.open[k]].location[2])
    BY DEF ContextOK, OpenSorted
  <1>2. up[c.open[k]].location[2] \in Nat
    BY <1>1 DEF Pointer
  <1>3. up[c.open[k]].location[2] \in 0 .. Capacity(c) - 1
    BY <1>1, <1>2, SlotInside DEF ContextOK
  <1>4. QED
    BY <1>1, <1>2, <1>3, ContextShape

\* What stays open once slots from s on are closed still points at
\* registers of frames, if those below s are.
LEMMA CloseKeeps ==
    ASSUME NEW c \in Context, ContextOK(c, up), NEW s \in Nat, NEW ups,
           NEW p, p.block = c.block, p.open = Closed(c, s).open,
           \A t \in Nat : t < s /\ FrameSlot(c, t) => FrameSlot(p, t),
           \A k \in 1 .. Len(c.open) :
               up[c.open[k]].location[2] < s => ups[c.open[k]] = up[c.open[k]]
    PROVE  OpenSorted(p, ups)
  <1> DEFINE n == Closing(c, s)
             q == Closed(c, s)
  <1>1. OpenSorted(c, up)
    BY DEF ContextOK
  <1>2. /\ n \in 0 .. Len(c.open) /\ Len(c.open) \in Nat
        /\ \A k \in 1 .. Len(c.open) : up[c.open[k]].location[2] >= s <=> k <= n
    BY <1>1, ClosingIs, ContextShape
  <1>3. /\ Len(q.open) = Len(c.open) - n
        /\ \A k \in 1 .. Len(q.open) : k + n \in 1 .. Len(c.open) /\ q.open[k] = c.open[k + n]
    BY <1>1, ClosedIs
  <1> HIDE DEF n, q
  <1>4. p.open = q.open
    BY DEF q
  <1>5. ASSUME NEW k \in 1 .. Len(q.open)
        PROVE  /\ k + n \in 1 .. Len(c.open) /\ q.open[k] = c.open[k + n]
               /\ up[c.open[k + n]].location[2] \in Nat
               /\ up[c.open[k + n]].location[2] < s
               /\ ups[q.open[k]] = up[c.open[k + n]]
    <2>1. k + n \in 1 .. Len(c.open) /\ q.open[k] = c.open[k + n]
      BY <1>3
    <2>2. ~(k + n <= n)
      BY <1>2, <1>3
    <2>3. up[c.open[k + n]].location[2] \in Nat
      BY <2>1, <1>1 DEF OpenSorted, Pointer
    <2>4. up[c.open[k + n]].location[2] < s
      BY <1>2, <2>1, <2>2, <2>3
    <2>5. QED
      BY <2>1, <2>3, <2>4
  <1>6. ASSUME NEW k \in 1 .. Len(q.open)
        PROVE  /\ ups[q.open[k]] \in Upvalue /\ ups[q.open[k]].location \in Pointer
               /\ ups[q.open[k]].location[1] = p.block
               /\ FrameSlot(p, ups[q.open[k]].location[2])
    <2>1. /\ up[c.open[k + n]] \in Upvalue /\ up[c.open[k + n]].location \in Pointer
          /\ up[c.open[k + n]].location[1] = c.block
          /\ FrameSlot(c, up[c.open[k + n]].location[2])
      BY <1>1, <1>5 DEF OpenSorted
    <2>2. QED
      BY <1>5, <2>1
  <1>7. ASSUME NEW k \in 1 .. Len(q.open), NEW m \in 1 .. Len(q.open), k < m
        PROVE  ups[q.open[m]].location[2] < ups[q.open[k]].location[2]
    <2>1. k + n \in 1 .. Len(c.open) /\ m + n \in 1 .. Len(c.open) /\ k + n < m + n
      BY <1>2, <1>3, <1>5, <1>7
    <2>2. up[c.open[m + n]].location[2] < up[c.open[k + n]].location[2]
      BY <1>1, <2>1 DEF OpenSorted
    <2>3. QED
      BY <1>5, <2>2
  <1>8. QED
    BY <1>4, <1>6, <1>7 DEF OpenSorted

\* Values move into what is closed; the other upvalues stay as they are.
LEMMA MovedInIs ==
    ASSUME NEW c \in Context, ContextOK(c, up), NEW s \in Nat,
           up \in [Cell -> Upvalue \cup {None}]
    PROVE  /\ MovedIn(c, s) \in [Cell -> Upvalue \cup {None}]
           /\ \A u \in Cell : u \notin Gone(c, s) => MovedIn(c, s)[u] = up[u]
           /\ \A u \in Gone(c, s) : MovedIn(c, s)[u].location = None
           /\ \A k \in 1 .. Len(c.open) :
               up[c.open[k]].location[2] < s => MovedIn(c, s)[c.open[k]] = up[c.open[k]]
  <1>1. OpenSorted(c, up)
    BY DEF ContextOK
  <1>2. /\ Gone(c, s) \subseteq Cell
        /\ \A k \in 1 .. Len(c.open) :
             c.open[k] \in Gone(c, s) <=> up[c.open[k]].location[2] >= s
        /\ \A u \in Gone(c, s) : \E k \in 1 .. Len(c.open) : u = c.open[k]
    BY <1>1, GoneIs
  <1>3. ASSUME NEW u \in Gone(c, s)
        PROVE  [location |-> None, closed |-> c.stack[up[u].location[2]]] \in Upvalue
    <2>1. PICK k \in 1 .. Len(c.open) : u = c.open[k]
      BY <1>2
    <2>2. c.stack[up[u].location[2]] \in Contents
      BY <2>1, OpenInside
    <2>3. QED
      BY <2>2 DEF Upvalue
  <1>4. \A u \in Cell : u \notin Gone(c, s) => MovedIn(c, s)[u] = up[u]
    BY DEF MovedIn
  <1>5. \A u \in Gone(c, s) : MovedIn(c, s)[u].location = None
    BY <1>2 DEF MovedIn
  <1>6. MovedIn(c, s) \in [Cell -> Upvalue \cup {None}]
    BY <1>3 DEF MovedIn
  <1>7. ASSUME NEW k \in 1 .. Len(c.open), up[c.open[k]].location[2] < s
        PROVE  MovedIn(c, s)[c.open[k]] = up[c.open[k]]
    <2>1. c.open[k] \in Cell /\ up[c.open[k]].location[2] \in Nat
      BY OpenInside, ContextShape
    <2>2. c.open[k] \notin Gone(c, s)
      BY <1>2, <1>7, <2>1
    <2>3. QED
      BY <1>4, <2>1, <2>2
  <1>8. QED
    BY <1>4, <1>5, <1>6, <1>7

(***************************************************************************)
(* Steps of the running stack leave the others alone.                      *)
(***************************************************************************)
LEMMA ContextTyped ==
    ASSUME NEW c \in Context
    PROVE  /\ c \in ContextOn({c.stack}) /\ c # None
           /\ \E n \in Capacities : c.stack \in [0 .. n - 1 -> Contents]
  <1>1. c \in ContextOn({c.stack})
    BY DEF Context, ContextOn
  <1>2. QED
    BY <1>1, ContextShape

\* Upvalue u is on the list of context c.
OnList(c, u) == \E k \in 1 .. Len(c.open) : c.open[k] = u

LEMMA ListsApart ==
    ASSUME NEW c, NEW d, NEW ups, OpenSorted(c, ups), OpenSorted(d, ups),
           c.block[1] # d.block[1], NEW u, OnList(c, u)
    PROVE  ~OnList(d, u)
  BY DEF OpenSorted, OnList

\* A context that no step touches is in order while its upvalues are.
LEMMA Untouched ==
    ASSUME NEW c \in Context, NEW ups, NEW ups1, ContextOK(c, ups),
           \A k \in 1 .. Len(c.open) : ups1[c.open[k]] = ups[c.open[k]]
    PROVE  ContextOK(c, ups1)
  BY DEF ContextOK, OpenSorted

LEMMA InvContexts ==
    ASSUME IInv
    PROVE  /\ vm \in Context /\ ContextOK(vm, up) /\ FramesNested(vm) /\ NullAbove(vm)
           /\ OpenSorted(vm, up)
           /\ caller # None => caller \in Context /\ ContextOK(caller, up)
                               /\ caller.block[1] # vm.block[1]
           /\ co # None => co \in Context /\ ContextOK(co, up) /\ co.block[1] # vm.block[1]
           /\ caller = None \/ co = None
           /\ up \in [Cell -> Upvalue \cup {None}]
           /\ cache \in [0 .. MaxStack - 1 -> Cell \cup {None}]
  <1>1. vm \in Contexts /\ vm \in Context /\ Contexts \subseteq Context
    BY TypedContexts DEF IInv
  <1>2. ContextOK(vm, up)
    BY <1>1 DEF IInv
  <1>3. caller # None => caller \in Contexts
    BY DEF Contexts
  <1>4. co # None => co \in Contexts
    BY DEF Contexts
  <1>5. (caller # None) = (state = "running") /\ (co = None) = (state \in {"running", "dead"})
        /\ up \in [Cell -> Upvalue \cup {None}]
        /\ cache \in [0 .. MaxStack - 1 -> Cell \cup {None}]
    BY DEF IInv, TypeOK
  <1>6. caller = None \/ co = None
    BY <1>5
  <1>7. caller # None => caller.block[1] # vm.block[1]
    BY DEF IInv, BlocksApart
  <1>8. co # None => co.block[1] # vm.block[1]
    BY <1>6 DEF IInv, BlocksApart
  <1>9. QED
    BY <1>1, <1>2, <1>3, <1>4, <1>5, <1>6, <1>7, <1>8 DEF IInv, ContextOK

LEMMA Stepped ==
    ASSUME IInv, UNCHANGED switchVars,
           vm' \in Context, vm'.block[1] = vm.block[1], ContextOK(vm', up'),
           up' \in [Cell -> Upvalue \cup {None}],
           \A u \in Cell : ~OnList(vm, u) /\ up[u] # None /\ up[u].location # None =>
               up'[u] = up[u],
           \A u \in Cell : up'[u] # None /\ up'[u].location # None =>
               OnList(vm', u) \/ (~OnList(vm, u) /\ up'[u] = up[u]),
           cache' \in [0 .. MaxStack - 1 -> Cell \cup {None}], CacheExact',
           host' \in {"in", "out", "between"}, host' = "in" => Depth(vm') > 0,
           host' # "in" => /\ caller = None
                           /\ vm'.frames = <<>> /\ vm'.open = <<>> /\ vm'.top = 0
    PROVE  IInv'
  <1>0. caller' = caller /\ co' = co /\ state' = state /\ expected' = expected
    BY DEF switchVars
  <1>1. /\ vm \in Context /\ OpenSorted(vm, up)
        /\ caller # None => caller \in Context /\ ContextOK(caller, up)
                            /\ caller.block[1] # vm.block[1]
        /\ co # None => co \in Context /\ ContextOK(co, up) /\ co.block[1] # vm.block[1]
    BY InvContexts
  <1>2. ASSUME NEW c \in Context, ContextOK(c, up), c.block[1] # vm.block[1]
        PROVE  ContextOK(c, up')
    <2>1. ASSUME NEW k \in 1 .. Len(c.open) PROVE up'[c.open[k]] = up[c.open[k]]
      <3>1. c.open[k] \in Cell /\ OnList(c, c.open[k])
        BY ContextShape DEF OnList
      <3>2. up[c.open[k]] # None /\ up[c.open[k]].location # None
        BY <1>2, FramesAssumption DEF ContextOK, OpenSorted
      <3>3. ~OnList(vm, c.open[k])
        BY <1>1, <1>2, <3>1, ListsApart DEF ContextOK
      <3>4. QED
        BY <3>1, <3>2, <3>3
    <2>2. QED
      BY <1>2, <2>1 DEF ContextOK, OpenSorted
  <1>3. /\ caller' # None => caller' \in Context /\ ContextOK(caller', up')
        /\ co' # None => co' \in Context /\ ContextOK(co', up')
    BY <1>0, <1>1, <1>2
  <1>4. \A c \in Contexts' : c \in Context /\ ContextOK(c, up')
    BY <1>3 DEF Contexts
  <1>5. TypeOK'
    <2>1. \A c \in Contexts' : /\ c \in ContextOn({c.stack})
                               /\ \E n \in Capacities : c.stack \in [0 .. n - 1 -> Contents]
      BY <1>4, ContextTyped
    <2>2. vm' # None
      BY ContextTyped
    <2>3. /\ state' \in {"new", "running", "suspended", "dead"}
          /\ (caller' # None) = (state' = "running")
          /\ (co' = None) = (state' \in {"running", "dead"})
          /\ expected' \in Wanted \cup {0}
      BY <1>0 DEF IInv, TypeOK
    <2>4. QED
      BY <2>1, <2>2, <2>3 DEF TypeOK
  <1>6. BlocksApart'
    BY <1>0 DEF IInv, BlocksApart
  <1>7. Phases'
    BY <1>0 DEF IInv, Phases
  <1>8. OpenListed'
    <2> SUFFICES ASSUME NEW u \in Cell, up'[u] # None, up'[u].location # None
                 PROVE  \E c \in Contexts' : \E k \in 1 .. Len(c.open) : c.open[k] = u
      BY DEF OpenListed
    <2>1. CASE OnList(vm', u)
      <3>1. vm' \in Contexts'
        BY ContextTyped DEF Contexts
      <3>2. QED
        BY <2>1, <3>1 DEF OnList
    <2>2. CASE ~OnList(vm', u)
      <3>1. ~OnList(vm, u) /\ up'[u] = up[u]
        BY <2>2
      <3>2. PICK c \in Contexts : \E k \in 1 .. Len(c.open) : c.open[k] = u
        BY <3>1 DEF IInv, OpenListed
      <3>3. c # vm
        BY <3>1, <3>2 DEF OnList
      <3>4. c \in Contexts'
        BY <1>0, <3>3 DEF Contexts
      <3>5. QED
        BY <3>2, <3>4
    <2>3. QED
      BY <2>1, <2>2
  <1>9. QED
    BY <1>4, <1>5, <1>6, <1>7, <1>8 DEF IInv

\* The common case: upvalues and cache stay, on the same block.
LEMMA Written ==
    ASSUME IInv, UNCHANGED <<upvalueVars, host, switchVars>>, Executing,
           vm' \in Context, vm'.block = vm.block, vm'.open = vm.open, Depth(vm') > 0,
           ContextOK(vm', up)
    PROVE  IInv'
  <1>1. up' = up /\ cache' = cache /\ host' = host /\ host = "in"
    BY DEF upvalueVars, Executing
  <1>2. CacheExact'
    BY <1>1 DEF IInv, CacheExact
  <1>3. up \in [Cell -> Upvalue \cup {None}] /\ cache \in [0 .. MaxStack - 1 -> Cell \cup {None}]
    BY InvContexts
  <1>4. \A u \in Cell : OnList(vm, u) => OnList(vm', u)
    BY DEF OnList
  <1>5. UNCHANGED switchVars
    OBVIOUS
  <1>6. QED
    BY <1>1, <1>2, <1>3, <1>4, <1>5, Stepped

LEMMA Running ==
    ASSUME IInv, Executing
    PROVE  Depth(vm) > 0
  BY DEF IInv, Phases, Executing

LEMMA PutStep ==
    ASSUME IInv, UNCHANGED <<upvalueVars, host, switchVars>>, Executing,
           NEW values \in Seq(Contents), Live(vm) + Len(values) <= Frame(vm).need,
           vm' = Put(vm, Live(vm), values)
    PROVE  IInv'
  <1>1. vm \in Context /\ ContextOK(vm, up) /\ FramesNested(vm) /\ NullAbove(vm) /\ Depth(vm) > 0
    BY InvContexts, Running
  <1>2. vm' \in Context /\ vm'.block = vm.block /\ vm'.open = vm.open /\ Depth(vm') = Depth(vm)
    BY <1>1, PutIs
  <1>3. ContextOK(vm', up)
    BY <1>1, PutKeeps
  <1>4. QED
    BY <1>1, <1>2, <1>3, Written
LEMMA ClosedStep ==
    ASSUME IInv, NEW s \in Nat, CloseUpvalues(vm, s), UNCHANGED switchVars,
           vm' \in Context, vm'.block = vm.block, vm'.open = Closed(vm, s).open,
           FramesNested(vm'), NullAbove(vm'),
           \A t \in Nat : t < s /\ FrameSlot(vm, t) => FrameSlot(vm', t),
           host' \in {"in", "out", "between"}, host' = "in" => Depth(vm') > 0,
           host' # "in" => /\ caller = None
                           /\ vm'.frames = <<>> /\ vm'.open = <<>> /\ vm'.top = 0
    PROVE  IInv'
  <1>1. /\ vm \in Context /\ ContextOK(vm, up) /\ OpenSorted(vm, up)
        /\ up \in [Cell -> Upvalue \cup {None}]
        /\ cache \in [0 .. MaxStack - 1 -> Cell \cup {None}]
    BY InvContexts
  <1>2. /\ up' = MovedIn(vm, s) /\ cache' = Uncached(vm, s)
        /\ up' \in [Cell -> Upvalue \cup {None}]
        /\ \A u \in Cell : u \notin Gone(vm, s) => up'[u] = up[u]
        /\ \A u \in Gone(vm, s) : up'[u].location = None
        /\ \A k \in 1 .. Len(vm.open) :
               up[vm.open[k]].location[2] < s => up'[vm.open[k]] = up[vm.open[k]]
    BY <1>1, MovedInIs DEF CloseUpvalues
  <1>3. OpenSorted(vm', up')
    BY <1>1, <1>2, CloseKeeps
  <1>4. ContextOK(vm', up')
    BY <1>3 DEF ContextOK
  <1>5. \A u \in Gone(vm, s) : OnList(vm, u)
    BY <1>1, GoneIs DEF OnList
  <1>6. ASSUME NEW u \in Cell, OnList(vm, u), u \notin Gone(vm, s)
        PROVE  OnList(vm', u)
    <2>1. PICK k \in 1 .. Len(vm.open) : vm.open[k] = u
      BY <1>6 DEF OnList
    <2>2. up[u].location[2] \in Nat /\ ~(up[u].location[2] >= s)
      BY <1>1, <1>6, <2>1, GoneIs, OpenInside
    <2>3. up[vm.open[k]].location[2] < s
      BY <2>1, <2>2
    <2>4. k - Closing(vm, s) \in 1 .. Len(vm'.open)
          /\ vm'.open[k - Closing(vm, s)] = vm.open[k]
      BY <1>1, <2>3, ClosedIs
    <2>5. QED
      BY <2>1, <2>4 DEF OnList
  <1>7. ASSUME NEW u \in Cell, ~OnList(vm, u), up[u] # None
        PROVE  up'[u] = up[u]
    BY <1>2, <1>5, <1>7
  <1>8. ASSUME NEW u \in Cell, up'[u] # None, up'[u].location # None
        PROVE  OnList(vm', u) \/ (~OnList(vm, u) /\ up'[u] = up[u])
    <2>1. u \notin Gone(vm, s)
      BY <1>2, <1>8
    <2>2. QED
      BY <1>2, <1>6, <2>1
  <1>9. cache' \in [0 .. MaxStack - 1 -> Cell \cup {None}]
    BY <1>1, <1>2 DEF Uncached
  <1>10. CacheExact'
    <2>1. DOMAIN vm'.open = 1 .. Len(vm'.open) /\ DOMAIN vm.open = 1 .. Len(vm.open)
      BY <1>1, ContextShape
    <2> SUFFICES ASSUME NEW t \in DOMAIN cache', cache'[t] # None
                 PROVE  /\ cache'[t] \in {vm'.open[k] : k \in DOMAIN vm'.open}
                        /\ up'[cache'[t]].location = <<vm'.block, t>>
      BY DEF CacheExact
    <2>2. t \in DOMAIN cache /\ cache'[t] = cache[t]
          /\ t \notin {up[u].location[2] : u \in Gone(vm, s)}
      BY <1>2 DEF Uncached
    <2> DEFINE u == cache[t]
    <2>3. u \in Cell /\ u \in {vm.open[k] : k \in DOMAIN vm.open}
          /\ up[u].location = <<vm.block, t>>
      BY <1>1, <2>2 DEF IInv, CacheExact
    <2>4. OnList(vm, u)
      BY <2>1, <2>3 DEF OnList
    <2>5. u \notin Gone(vm, s)
      BY <2>2, <2>3
    <2>6. OnList(vm', u) /\ up'[u] = up[u]
      BY <1>2, <1>6, <2>3, <2>4, <2>5
    <2>7. QED
      BY <2>1, <2>2, <2>3, <2>6 DEF OnList
  <1>11. vm'.block[1] = vm.block[1]
    OBVIOUS
  <1>12. QED
    BY <1>2, <1>4, <1>7, <1>8, <1>9, <1>10, <1>11, Stepped
-----------------------------------------------------------------------------
(***************************************************************************)
(* Each action keeps the invariant.                                        *)
(***************************************************************************)
LEMMA Constants ==
    /\ Literal \subseteq Contents /\ Lists \subseteq Seq(Contents)
    /\ Arguments \subseteq Seq(Contents)
    /\ True \in Contents /\ Err \in Contents /\ Fn \in Contents /\ Null \in Contents
  BY DEF Literal, Lists, Arguments, Contents

LEMMA DeclareKeeps ==
    ASSUME IInv, NEW v \in Literal, Declare(v)
    PROVE  IInv'
  <1>1. <<v>> \in Seq(Contents) /\ Len(<<v>>) = 1
    BY Constants
  <1>2. QED
    BY <1>1, PutStep DEF Declare, Fits

LEMMA AssignKeeps ==
    ASSUME IInv, NEW v \in Literal, NEW i \in 1 .. MaxStack, Assign(i, v)
    PROVE  IInv'
  <1> DEFINE s == SlotOf(vm, i)[2]
  <1>1. vm \in Context /\ ContextOK(vm, up) /\ FramesNested(vm) /\ NullAbove(vm) /\ Depth(vm) > 0
    BY InvContexts, Running DEF Assign
  <1>2. /\ Live(vm) \in 1 .. Frame(vm).need /\ Frame(vm).need \in Nat
        /\ Frame(vm).slots[2] \in Nat
        /\ Frame(vm).slots[2] + Frame(vm).need <= vm.top /\ vm.top \in Nat
        /\ \A j \in Nat : SlotOf(vm, j) = <<vm.block, Frame(vm).slots[2] + j>>
    BY <1>1, FrameShape, ContextShape
  <1>3. i \in Nat /\ i \in 1 .. Live(vm) - 1
    BY FramesAssumption DEF Assign
  <1>4. s = Frame(vm).slots[2] + i
    BY <1>2, <1>3
  <1>5. s \in Nat /\ s < vm.top
    BY <1>2, <1>3, <1>4
  <1> HIDE DEF s
  <1>6. vm' = [vm EXCEPT !.stack[s] = v]
    BY DEF Assign, s
  <1>7. /\ vm' \in Context /\ ContextOK(vm', up)
        /\ vm'.block = vm.block /\ vm'.frames = vm.frames /\ vm'.open = vm.open
    BY <1>1, <1>5, <1>6, OverwriteKeeps, Constants
  <1>8. QED
    BY <1>1, <1>7, Written DEF Assign, Depth

\* The context q with the running frame's registers free again from n on
Freed(q, n) == [q EXCEPT !.frames[Depth(vm)].live = n]

LEMMA FreedIs ==
    ASSUME IInv, Executing, NEW n \in Nat, n \in 1 .. Live(vm) - 1, NEW q \in Context,
           q.block = vm.block, q.stack = vm.stack, q.top = vm.top, q.frames = vm.frames
    PROVE  /\ Frame(vm).slots[2] \in Nat /\ n \in 1 .. Frame(vm).need
           /\ Freed(q, n) \in Context /\ Capacity(Freed(q, n)) = Capacity(vm)
           /\ Freed(q, n).block = vm.block
           /\ Freed(q, n).stack = vm.stack /\ Freed(q, n).top = vm.top
           /\ Freed(q, n).open = q.open
           /\ Len(Freed(q, n).frames) = Len(vm.frames)
           /\ \A d \in 1 .. Len(vm.frames) :
                /\ SameFrame(Freed(q, n).frames[d], vm.frames[d])
                /\ Freed(q, n).frames[d].live =
                       IF d = Depth(vm) THEN n ELSE vm.frames[d].live
           /\ FramesNested(Freed(q, n)) /\ NullAbove(Freed(q, n)) /\ Depth(Freed(q, n)) > 0
           /\ \A t : FrameSlot(vm, t) <=> FrameSlot(Freed(q, n), t)
  <1> DEFINE D == Depth(vm)
             fr == [q.frames EXCEPT ![D] = [q.frames[D] EXCEPT !.live = n]]
             p == Freed(q, n)
  <1>1. vm \in Context /\ FramesNested(vm) /\ NullAbove(vm) /\ D > 0
    BY InvContexts, Running
  <1>2. /\ Live(vm) \in 1 .. Frame(vm).need /\ Frame(vm).need \in Nat
        /\ Frame(vm) = vm.frames[D] /\ D = Len(vm.frames)
        /\ Frame(vm).slots[2] \in Nat /\ D \in 1 .. Len(vm.frames)
    BY <1>1, FrameShape
  <1>3. n \in 1 .. Frame(vm).need
    BY <1>2
  <1>4. /\ vm.frames \in Seq(CallFrame) /\ vm.stack \in [0 .. Capacity(vm) - 1 -> Contents]
        /\ Capacity(vm) \in Capacities /\ q.open \in Seq(Cell) /\ vm.block \in Block
        /\ vm.top \in Nat /\ Len(vm.frames) \in Nat /\ DOMAIN vm.frames = 1 .. Len(vm.frames)
    BY <1>1, ContextShape
  <1>5. /\ fr \in Seq(CallFrame) /\ Len(fr) = Len(vm.frames)
        /\ \A d \in 1 .. Len(vm.frames) :
             /\ SameFrame(fr[d], vm.frames[d])
             /\ fr[d].live = IF d = D THEN n ELSE vm.frames[d].live
    <2> DEFINE top == [vm.frames[D] EXCEPT !.live = n]
    <2>0. vm.frames[D] \in CallFrame
      BY <1>1, <1>2, ContextShape
    <2>1. top \in CallFrame /\ SameFrame(top, vm.frames[D]) /\ top.live = n
      BY <2>0 DEF CallFrame, SameFrame
    <2> HIDE DEF top
    <2>2. fr \in Seq(CallFrame) /\ Len(fr) = Len(vm.frames) /\ fr[D] = top
          /\ \A d \in 1 .. Len(vm.frames) : d # D => fr[d] = vm.frames[d]
      BY <1>2, <1>4, <2>1 DEF top
    <2> HIDE DEF fr
    <2>3. ASSUME NEW d \in 1 .. Len(vm.frames)
          PROVE  /\ SameFrame(fr[d], vm.frames[d])
                 /\ fr[d].live = IF d = D THEN n ELSE vm.frames[d].live
      BY <2>1, <2>2 DEF SameFrame
    <2>4. QED
      BY <2>2, <2>3
  <1>6. p = [block |-> vm.block, stack |-> vm.stack, top |-> vm.top, frames |-> fr,
             open |-> q.open]
    <2>1. p = [q EXCEPT !.frames = fr]
      BY DEF Freed
    <2>2. q = [block |-> vm.block, stack |-> vm.stack, top |-> vm.top,
               frames |-> vm.frames, open |-> q.open]
      BY ContextFields
    <2> HIDE DEF fr, p
    <2>3. QED
      BY <2>1, <2>2
  <1>7. p \in Context /\ Capacity(p) = Capacity(vm) /\ p.block = vm.block
         /\ p.stack = vm.stack /\ p.top = vm.top /\ p.frames = fr /\ p.open = q.open
    <2> DEFINE b == vm.block
               m == Capacity(vm)
               st == vm.stack
               t == vm.top
               o == q.open
    <2>1. /\ b \in Block /\ m \in Capacities /\ st \in [0 .. m - 1 -> Contents] /\ t \in Nat
          /\ fr \in Seq(CallFrame) /\ o \in Seq(Cell)
          /\ p = [block |-> b, stack |-> st, top |-> t, frames |-> fr, open |-> o]
      BY <1>4, <1>5, <1>6
    <2> HIDE DEF p, fr, b, m, st, t, o
    <2>2. /\ p \in Context /\ Capacity(p) = m /\ p.block = b /\ p.stack = st
          /\ p.top = t /\ p.frames = fr /\ p.open = o
      BY <2>1, ContextMade
    <2>3. QED
      BY <2>2 DEF b, m, st, t, o
  <1> HIDE DEF p, fr
  <1>8. /\ Len(p.frames) = Len(vm.frames)
        /\ \A d \in 1 .. Len(vm.frames) :
             /\ SameFrame(p.frames[d], vm.frames[d])
             /\ p.frames[d].live = IF d = D THEN n ELSE vm.frames[d].live
    BY <1>5, <1>7
  <1>9. FramesNested(p)
    <2>1. vm.top <= p.top
      BY <1>4, <1>7
    <2>2. QED
      BY <1>1, <1>3, <1>7, <1>8, <2>1, NestedAfter
  <1>10. NullAbove(p)
    BY <1>1, <1>7 DEF NullAbove
  <1>11. \A t : FrameSlot(vm, t) <=> FrameSlot(p, t)
    BY <1>1, <1>7, <1>8, SameSlots
  <1>12. Depth(p) > 0
    BY <1>1, <1>8 DEF Depth
  <1>13. QED
    BY <1>2, <1>3, <1>7, <1>8, <1>9, <1>10, <1>11, <1>12 DEF p

LEMMA EndScopeKeeps ==
    ASSUME IInv, NEW n \in 1 .. MaxStack, EndScope(n)
    PROVE  IInv'
  <1>1. vm \in Context /\ ContextOK(vm, up) /\ OpenSorted(vm, up) /\ FramesNested(vm)
    BY InvContexts
  <1>2. /\ Executing /\ n \in Nat /\ n \in 1 .. Live(vm) - 1
        /\ UNCHANGED <<upvalueVars, host, switchVars>> /\ vm' = Freed(vm, n)
    BY FramesAssumption DEF EndScope, Freed
  <1>3. /\ vm' \in Context /\ vm'.block = vm.block /\ vm'.open = vm.open /\ Depth(vm') > 0
        /\ FramesNested(vm') /\ NullAbove(vm')
        /\ Len(vm'.frames) = Len(vm.frames)
        /\ \A t : FrameSlot(vm, t) <=> FrameSlot(vm', t)
    BY <1>1, <1>2, FreedIs
  <1>4. OpenSorted(vm', up)
    BY <1>1, <1>3, SortedAfter
  <1>5. ContextOK(vm', up) /\ Depth(vm') = Depth(vm)
    BY <1>3, <1>4 DEF ContextOK, Depth
  <1>6. QED
    BY <1>2, <1>3, <1>5, Written

\* What is left of the running stack when a jump leaves scopes
LEMMA LeftIs ==
    ASSUME IInv, NEW n \in 1 .. MaxStack, NEW m \in 1 .. MaxStack, LeaveScope(n, m)
    PROVE  LET s == SlotOf(vm, m)[2] IN
           /\ s = Frame(vm).slots[2] + m /\ s \in Nat /\ n <= m /\ n \in Nat /\ m \in Nat
           /\ Executing /\ n \in 1 .. Live(vm) - 1 /\ m \in 1 .. Live(vm) - 1
           /\ Closed(vm, s) \in Context /\ Closed(vm, s).block = vm.block
           /\ Closed(vm, s).stack = vm.stack /\ Closed(vm, s).top = vm.top
           /\ Closed(vm, s).frames = vm.frames /\ vm' = Freed(Closed(vm, s), n)
           /\ CloseUpvalues(vm, s) /\ UNCHANGED <<host, switchVars>>
  <1> DEFINE s == SlotOf(vm, m)[2]
  <1>1. /\ vm \in Context /\ ContextOK(vm, up) /\ FramesNested(vm) /\ NullAbove(vm)
        /\ Depth(vm) > 0 /\ OpenSorted(vm, up)
    BY InvContexts, Running DEF LeaveScope
  <1>2. /\ Live(vm) \in 1 .. Frame(vm).need /\ Frame(vm).need \in Nat
        /\ Frame(vm).slots[2] \in Nat
        /\ \A j \in Nat : SlotOf(vm, j) = <<vm.block, Frame(vm).slots[2] + j>>
    BY <1>1, FrameShape
  <1>3. n \in Nat /\ m \in Nat /\ n \in 1 .. m /\ m \in 1 .. Live(vm) - 1
    BY FramesAssumption DEF LeaveScope
  <1>4. s = Frame(vm).slots[2] + m
    BY <1>2, <1>3
  <1>5. s \in Nat /\ n <= m /\ n \in 1 .. Live(vm) - 1
    <2> HIDE DEF s
    <2>1. QED
      BY <1>2, <1>3, <1>4
  <1>6. /\ Closed(vm, s) \in Context /\ Closed(vm, s).block = vm.block
        /\ Closed(vm, s).stack = vm.stack /\ Closed(vm, s).top = vm.top
        /\ Closed(vm, s).frames = vm.frames
    BY <1>1, <1>5, ClosedIs
  <1>7. /\ Executing /\ CloseUpvalues(vm, s) /\ UNCHANGED <<host, switchVars>>
        /\ vm' = Freed(Closed(vm, s), n)
    BY DEF LeaveScope, Freed
  <1>8. QED
    BY <1>3, <1>4, <1>5, <1>6, <1>7

LEMMA LeaveScopeKeeps ==
    ASSUME IInv, NEW n \in 1 .. MaxStack, NEW m \in 1 .. MaxStack, LeaveScope(n, m)
    PROVE  IInv'
  <1> DEFINE s == SlotOf(vm, m)[2]
             q == Closed(vm, s)
  <1>1. /\ s \in Nat /\ Executing /\ n \in Nat /\ n \in 1 .. Live(vm) - 1
        /\ q \in Context /\ q.block = vm.block
        /\ q.stack = vm.stack /\ q.top = vm.top /\ q.frames = vm.frames
        /\ vm' = Freed(q, n) /\ CloseUpvalues(vm, s) /\ UNCHANGED <<host, switchVars>>
    BY LeftIs
  <1> HIDE DEF q
  <1>2. /\ vm' \in Context /\ vm'.block = vm.block /\ vm'.open = q.open /\ Depth(vm') > 0
        /\ FramesNested(vm') /\ NullAbove(vm')
        /\ \A t : FrameSlot(vm, t) <=> FrameSlot(vm', t)
    BY <1>1, FreedIs
  <1> HIDE DEF s
  <1>3. vm'.open = Closed(vm, s).open
    BY <1>2 DEF q
  <1>4. UNCHANGED switchVars /\ host' \in {"in", "out", "between"} /\ host' = "in"
    BY <1>1 DEF Executing
  <1>5. QED
    BY <1>1, <1>2, <1>3, <1>4, ClosedStep

LEMMA BlocksUnique ==
    ASSUME IInv, NEW c \in Contexts, NEW d \in Contexts, c.block[1] = d.block[1]
    PROVE  c = d
  BY InvContexts DEF Contexts

\* An upvalue that is not closed points at a register of one stack.
LEMMA OpenAt ==
    ASSUME IInv, NEW u \in Cell, up[u] # None, up[u].location # None
    PROVE  \E c \in Contexts :
             /\ c \in Context /\ ContextOK(c, up) /\ up[u].location[1] = c.block
             /\ up[u].location[2] \in Nat /\ up[u].location[2] < c.top
             /\ c.stack[up[u].location[2]] \in Contents
             /\ \A d \in Contexts : d.block = up[u].location[1] => d = c
  <1>1. PICK c \in Contexts : \E k \in 1 .. Len(c.open) : c.open[k] = u
    BY DEF IInv, OpenListed
  <1>2. PICK k \in 1 .. Len(c.open) : c.open[k] = u
    BY <1>1
  <1>3. c \in Context /\ ContextOK(c, up)
    BY TypedContexts DEF IInv
  <1>4. /\ up[u].location[1] = c.block /\ up[u].location[2] \in Nat
        /\ c.stack[up[u].location[2]] \in Contents
    BY <1>2, <1>3, OpenInside
  <1>5. FrameSlot(c, up[u].location[2])
    BY <1>2, <1>3 DEF ContextOK, OpenSorted
  <1>6. up[u].location[2] < c.top
    BY <1>3, <1>4, <1>5, SlotInside DEF ContextOK
  <1>7. \A d \in Contexts : d.block = up[u].location[1] => d = c
    BY <1>4, BlocksUnique
  <1>8. QED
    BY <1>3, <1>4, <1>6, <1>7

LEMMA DerefIs ==
    ASSUME IInv, NEW u \in Cell, up[u] # None
    PROVE  Deref(u) \in Contents
  <1>1. up[u] \in Upvalue
    BY InvContexts
  <1>2. CASE up[u].location = None
    BY <1>1, <1>2 DEF Deref, Upvalue
  <1>3. CASE up[u].location # None
    <2>1. PICK c \in Contexts :
             /\ up[u].location[1] = c.block
             /\ c.stack[up[u].location[2]] \in Contents
             /\ \A d \in Contexts : d.block = up[u].location[1] => d = c
      BY <1>3, OpenAt
    <2>2. Owner(up[u].location[1]) = c
      BY <2>1 DEF Owner, Contexts
    <2>3. QED
      BY <1>3, <2>1, <2>2 DEF Deref
  <1>4. QED
    BY <1>2, <1>3

LEMMA GetUpvalKeeps ==
    ASSUME IInv, NEW u \in Cell, GetUpval(u)
    PROVE  IInv'
  <1>1. Deref(u) \in Contents
    BY DerefIs DEF GetUpval
  <1>2. <<Deref(u)>> \in Seq(Contents) /\ Len(<<Deref(u)>>) = 1
    BY <1>1
  <1>3. QED
    BY <1>2, PutStep DEF GetUpval, Fits

\* c1 is c with other values in its registers.
SameContext(c, c1) ==
    /\ c = None => c1 = None
    /\ c # None => /\ c1 \in Context /\ ContextOK(c1, up) /\ Capacity(c1) = Capacity(c)
                   /\ c1.block = c.block /\ c1.top = c.top
                   /\ c1.frames = c.frames /\ c1.open = c.open

LEMMA SetUpvalKeeps ==
    ASSUME IInv, NEW u \in Cell, NEW v \in Literal, SetUpval(u, v)
    PROVE  IInv'
  <1> DEFINE p == up[u].location
  <1>0. /\ up[u] # None /\ Executing /\ cache' = cache /\ expected' = expected
        /\ state' = state /\ host' = host
    BY DEF SetUpval
  <1>1. /\ vm \in Context /\ ContextOK(vm, up) /\ Depth(vm) > 0
        /\ up \in [Cell -> Upvalue \cup {None}] /\ up[u] \in Upvalue
        /\ cache \in [0 .. MaxStack - 1 -> Cell \cup {None}]
    BY <1>0, InvContexts, Running
  <1>2. CASE p = None
    <2>1. vm' = vm /\ caller' = caller /\ co' = co /\ up' = [up EXCEPT ![u].closed = v]
      BY <1>2 DEF SetUpval
    <2> DEFINE r == [up[u] EXCEPT !.closed = v]
    <2>2. up' = [up EXCEPT ![u] = r]
      BY <2>1
    <2>3. r \in Upvalue /\ r.location = None
      BY <1>1, <1>2, Constants DEF Upvalue
    <2> HIDE DEF r
    <2>4. /\ up' \in [Cell -> Upvalue \cup {None}] /\ up'[u] = r
          /\ \A w \in Cell : w # u => up'[w] = up[w]
      BY <1>1, <2>2, <2>3
    <2>5. \A c \in Contexts : ~OnList(c, u)
      <3>1. ASSUME NEW c \in Contexts, OnList(c, u) PROVE FALSE
        <4>1. OpenSorted(c, up)
          BY DEF IInv, ContextOK
        <4>2. p \in Pointer
          BY <3>1, <4>1 DEF OnList, OpenSorted
        <4>3. QED
          BY <1>2, <4>2, FramesAssumption
      <3>2. QED
        BY <3>1
    <2>6. vm \in Contexts
      BY TypedContexts DEF IInv
    <2>7. ContextOK(vm, up')
      <3>1. ASSUME NEW k \in 1 .. Len(vm.open) PROVE up'[vm.open[k]] = up[vm.open[k]]
        <4>1. vm.open[k] \in Cell /\ OnList(vm, vm.open[k])
          BY <1>1, ContextShape DEF OnList
        <4>2. QED
          BY <2>4, <2>5, <2>6, <4>1
      <3>2. QED
        BY <1>1, <3>1 DEF ContextOK, OpenSorted
    <2>8. CacheExact'
      <3> SUFFICES ASSUME NEW t \in DOMAIN cache, cache[t] # None
                   PROVE  /\ cache[t] \in {vm.open[k] : k \in DOMAIN vm.open}
                          /\ up'[cache[t]].location = <<vm.block, t>>
        BY <1>0, <2>1 DEF CacheExact
      <3>1. /\ cache[t] \in {vm.open[k] : k \in DOMAIN vm.open}
            /\ up[cache[t]].location = <<vm.block, t>>
        BY DEF IInv, CacheExact
      <3>2. cache[t] \in Cell /\ DOMAIN vm.open = 1 .. Len(vm.open)
        BY <1>1, ContextShape
      <3>3. OnList(vm, cache[t])
        BY <3>1, <3>2 DEF OnList
      <3>4. QED
        BY <2>4, <2>5, <2>6, <3>1, <3>2, <3>3
    <2>9. UNCHANGED switchVars
      BY <1>0, <2>1 DEF switchVars
    <2>10. \A w \in Cell : ~OnList(vm, w) /\ up[w] # None /\ up[w].location # None =>
               up'[w] = up[w]
      BY <1>2, <2>4
    <2>11. \A w \in Cell : up'[w] # None /\ up'[w].location # None =>
               OnList(vm', w) \/ (~OnList(vm, w) /\ up'[w] = up[w])
      BY <2>1, <2>3, <2>4
    <2>12. host' = "in"
      BY <1>0 DEF Executing
    <2>13. vm' \in Context /\ vm'.block[1] = vm.block[1] /\ ContextOK(vm', up')
           /\ cache' \in [0 .. MaxStack - 1 -> Cell \cup {None}] /\ Depth(vm') > 0
      BY <1>0, <1>1, <2>1, <2>7
    <2>14. QED
      BY <2>4, <2>8, <2>9, <2>10, <2>11, <2>12, <2>13, Stepped
  <1>3. CASE p # None
    <2>1. PICK o \in Contexts :
             /\ p[1] = o.block /\ p[2] \in Nat /\ p[2] < o.top
             /\ \A d \in Contexts : d.block = p[1] => d = o
      BY <1>0, <1>3, OpenAt
    <2> DEFINE Write(c) == IF c # None /\ c.block = p[1] THEN [c EXCEPT !.stack[p[2]] = v] ELSE c
    <2>2. ASSUME NEW c \in {vm, caller, co} PROVE SameContext(c, Write(c))
      <3>1. CASE c = None
        BY <3>1 DEF SameContext
      <3>2. CASE c # None
        <4>1. c \in Contexts /\ c \in Context /\ ContextOK(c, up)
          BY <3>2, TypedContexts DEF Contexts, IInv
        <4>2. CASE c.block = p[1]
          <5> DEFINE s == p[2]
          <5>1. s \in Nat /\ s < c.top /\ v \in Contents
            BY <2>1, <4>1, <4>2, Constants
          <5>2. Write(c) = [c EXCEPT !.stack[s] = v]
            BY <3>2, <4>2
          <5> HIDE DEF s, p, Write
          <5>3. QED
            BY <3>2, <4>1, <5>1, <5>2, OverwriteKeeps DEF SameContext
        <4>3. CASE c.block # p[1]
          BY <3>2, <4>1, <4>3 DEF SameContext
        <4>4. QED
          BY <4>2, <4>3
      <3>3. QED
        BY <3>1, <3>2
    <2>3. vm' = Write(vm) /\ caller' = Write(caller) /\ co' = Write(co) /\ up' = up
      BY <1>3 DEF SetUpval
    <2>4. SameContext(vm, vm') /\ SameContext(caller, caller') /\ SameContext(co, co')
      BY <2>2, <2>3
    <2> HIDE DEF Write, p
    <2>5. vm # None
      BY <1>1, ContextTyped
    <2>6. /\ \A c \in Contexts' : c \in Context /\ ContextOK(c, up)
          /\ vm' # None /\ (caller' = None) = (caller = None) /\ (co' = None) = (co = None)
      BY <2>4, <2>5, ContextTyped DEF SameContext, Contexts
    <2>7. TypeOK'
      <3>1. \A c \in Contexts' : /\ c \in ContextOn({c.stack})
                               /\ \E n \in Capacities : c.stack \in [0 .. n - 1 -> Contents]
        BY <2>6, ContextTyped
      <3>2. /\ state' \in {"new", "running", "suspended", "dead"}
            /\ (caller' # None) = (state' = "running")
            /\ (co' = None) = (state' \in {"running", "dead"})
            /\ expected' \in Wanted \cup {0} /\ host' \in {"in", "out", "between"}
        BY <1>0, <2>6 DEF IInv, TypeOK
      <3>3. QED
        BY <1>0, <1>1, <2>3, <2>6, <3>1, <3>2 DEF TypeOK
    <2>8. BlocksApart'
      BY <2>4, <2>5, <2>6 DEF IInv, BlocksApart, SameContext
    <2>9. Phases'
      <3>1. host' = "in" /\ Depth(vm') > 0
        BY <1>0, <1>1, <2>4, <2>5 DEF Executing, SameContext, Depth
      <3>2. caller' # None => Depth(caller') > 0 /\ Fits(caller', expected')
        BY <1>0, <2>4, <2>6 DEF SameContext, Depth, Fits, Live, Frame, IInv, Phases
      <3>3. state' \in {"new", "suspended"} => co # None
        BY <1>0 DEF IInv, TypeOK
      <3>4. /\ state' = "new" => /\ co'.frames = <<>> /\ co'.open = <<>> /\ co'.top = 0
                                 /\ Capacity(co') = CoCap
            /\ state' = "suspended" => Depth(co') > 0
        BY <1>0, <2>4, <3>3 DEF SameContext, Depth, IInv, Phases
      <3>5. QED
        BY <3>1, <3>2, <3>4 DEF Phases
    <2>10. OpenListed'
      <3> SUFFICES ASSUME NEW w \in Cell, up[w] # None, up[w].location # None
                   PROVE  \E c \in Contexts' : \E k \in 1 .. Len(c.open) : c.open[k] = w
        BY <2>3 DEF OpenListed
      <3>1. PICK c \in Contexts : \E k \in 1 .. Len(c.open) : c.open[k] = w
        BY DEF IInv, OpenListed
      <3>2. \E d \in Contexts' : d.open = c.open
        BY <2>4, <2>6 DEF SameContext, Contexts
      <3>3. QED
        BY <3>1, <3>2
    <2>11. CacheExact'
      BY <1>0, <2>3, <2>4, <2>5 DEF IInv, CacheExact, SameContext
    <2>12. QED
      BY <2>3, <2>6, <2>7, <2>8, <2>9, <2>10, <2>11 DEF IInv
  <1>4. QED
    BY <1>2, <1>3
\* The walk of capture_upvalue stops where the slot belongs in the list.
LEMMA PassedIs ==
    ASSUME vm \in Context, OpenSorted(vm, up), NEW local, local[2] \in Nat
    PROVE  /\ Passed(local) \in 0 .. Len(vm.open)
           /\ \A k \in 1 .. Len(vm.open) :
                /\ k <= Passed(local) => up[vm.open[k]].location[2] > local[2]
                /\ k > Passed(local) => up[vm.open[k]].location[2] <= local[2]
                /\ k > Passed(local) + 1 => up[vm.open[k]].location[2] < local[2]
  <1> DEFINE at(k) == up[vm.open[k]].location[2]
             s == local[2]
             len == Len(vm.open)
             S == {n \in 0 .. len : n < len => at(n + 1) <= s}
             Right(n) == /\ \A k \in 1 .. n : at(k) > s
                         /\ n < len => at(n + 1) <= s
  <1>1. len \in Nat /\ s \in Nat
    BY ContextShape
  <1>2. \A k \in 1 .. len : at(k) \in Nat
    BY DEF OpenSorted, Pointer
  <1>3. \A k, m \in 1 .. len : k < m => at(m) < at(k)
    BY DEF OpenSorted
  <1>4. PICK n \in S : \A m \in S : n <= m
    <2>1. S \in SUBSET Nat /\ S # {}
      BY <1>1
    <2> HIDE DEF S
    <2>2. QED
      BY <2>1, Least
  <1>5. ASSUME NEW k \in 1 .. n PROVE at(k) > s
    <2>1. k - 1 \in 0 .. len /\ k - 1 < len /\ k \in 1 .. len
      BY <1>1, <1>5
    <2>2. k - 1 \notin S
      BY <1>1, <1>4, <1>5
    <2>3. ~(at(k - 1 + 1) <= s)
      BY <2>1, <2>2
    <2>4. k - 1 + 1 = k
      BY <2>1
    <2>5. QED
      BY <1>1, <1>2, <2>1, <2>3, <2>4
  <1>6. \E m \in 0 .. len : Right(m)
    BY <1>4, <1>5
  <1>7. Passed(local) \in 0 .. len /\ Right(Passed(local))
    <2> HIDE DEF Right
    <2>1. Passed(local) = CHOOSE m \in 0 .. len : Right(m)
      BY DEF Passed, Right
    <2>2. QED
      BY <1>6, <2>1
  <1> HIDE DEF at, len, s
  <1>8. ASSUME NEW k \in 1 .. len, k > Passed(local)
        PROVE  at(k) <= s /\ (k > Passed(local) + 1 => at(k) < s)
    <2> DEFINE n1 == Passed(local) + 1
    <2>1. n1 \in 1 .. len /\ at(n1) <= s /\ at(n1) \in Nat
      BY <1>1, <1>2, <1>7, <1>8
    <2>2. CASE k = n1
      BY <2>1, <2>2
    <2>3. CASE k # n1
      <3>1. n1 < k
        BY <1>1, <1>7, <1>8, <2>3
      <3>2. at(k) < at(n1) /\ at(k) \in Nat
        BY <1>2, <1>3, <2>1, <3>1
      <3>3. QED
        BY <1>1, <2>1, <3>2
    <2>4. QED
      BY <2>2, <2>3
  <1>9. ASSUME NEW k \in 1 .. len, k <= Passed(local) PROVE at(k) > s
    BY <1>1, <1>7, <1>9
  <1>10. QED
    BY <1>1, <1>7, <1>8, <1>9 DEF at, len, s

Inserting(o, n, u) == SubSeq(o, 1, n) \o <<u>> \o SubSeq(o, n + 1, Len(o))

\* Sequence q is o with u after its first n elements.
WithInserted(o, n, u, q) ==
    /\ q \in Seq(Cell) /\ Len(q) = Len(o) + 1
    /\ \A k \in 1 .. Len(o) + 1 :
         q[k] = IF k <= n THEN o[k] ELSE IF k = n + 1 THEN u ELSE o[k - 1]

LEMMA Inserted ==
    ASSUME NEW o \in Seq(Cell), NEW n \in 0 .. Len(o), NEW u \in Cell,
           NEW q, q = Inserting(o, n, u)
    PROVE  WithInserted(o, n, u, q)
  <1> DEFINE l == Len(o)
             a == SubSeq(o, 1, n)
             b == SubSeq(o, n + 1, l)
             ab == a \o <<u>>
  <1>0. l \in Nat /\ n \in Nat /\ n <= l
    OBVIOUS
  <1>1. a \in Seq(Cell) /\ Len(a) = n /\ \A k \in 1 .. n : a[k] = o[k]
    BY <1>0
  <1>2. b \in Seq(Cell) /\ Len(b) = l - n /\ \A k \in 1 .. l - n : b[k] = o[n + k]
    BY <1>0
  <1> HIDE DEF a, b
  <1>3. ab \in Seq(Cell) /\ Len(ab) = n + 1
        /\ \A k \in 1 .. n + 1 : ab[k] = IF k <= n THEN o[k] ELSE u
    BY <1>0, <1>1
  <1>4. q = ab \o b
    BY DEF a, b, Inserting
  <1> HIDE DEF ab, l
  <1>5. q \in Seq(Cell)
    BY <1>2, <1>3, <1>4
  <1>6. Len(q) = Len(ab) + Len(b)
        /\ \A k \in 1 .. Len(ab) + Len(b) :
             q[k] = IF k <= Len(ab) THEN ab[k] ELSE b[k - Len(ab)]
    <2>1. /\ Len(ab \o b) = Len(ab) + Len(b)
          /\ \A k \in 1 .. Len(ab) + Len(b) :
               (ab \o b)[k] = IF k <= Len(ab) THEN ab[k] ELSE b[k - Len(ab)]
      BY <1>2, <1>3, ConcatProperties, Zenon
    <2>2. QED
      BY <1>4, <2>1, Zenon
  <1>7. Len(q) = l + 1
        /\ \A k \in 1 .. l + 1 : q[k] = IF k <= n + 1 THEN ab[k] ELSE b[k - (n + 1)]
    <2>1. Len(ab) + Len(b) = l + 1
      BY <1>0, <1>2, <1>3
    <2>2. QED
      BY <1>3, <1>6, <2>1
  <1>8. ASSUME NEW k \in 1 .. l + 1
        PROVE  q[k] = IF k <= n THEN o[k] ELSE IF k = n + 1 THEN u ELSE o[k - 1]
    <2>0. k \in Nat /\ 1 <= k /\ k <= l + 1
      BY <1>0
    <2>1. CASE k <= n + 1
      <3>1. q[k] = ab[k]
        BY <1>7, <2>1
      <3>2. k \in 1 .. n + 1 /\ (k <= n \/ k = n + 1) /\ (k = n + 1 => ~(k <= n))
        BY <1>0, <2>0, <2>1
      <3>3. QED
        BY <1>3, <3>1, <3>2
    <2>2. CASE ~(k <= n + 1)
      <3>1. k - (n + 1) \in 1 .. l - n /\ n + (k - (n + 1)) = k - 1
            /\ ~(k <= n) /\ k # n + 1
        BY <1>0, <2>0, <2>2
      <3>2. q[k] = b[k - (n + 1)]
        BY <1>7, <2>2
      <3>3. b[k - (n + 1)] = o[n + (k - (n + 1))]
        BY <1>2, <3>1
      <3>4. q[k] = o[k - 1]
        BY <3>1, <3>2, <3>3
      <3>5. QED
        BY <3>1, <3>4
    <2>3. QED
      BY <2>1, <2>2
  <1>9. QED
    BY <1>5, <1>7, <1>8 DEF l, WithInserted
Descends(at, len) == \A k, m \in 1 .. len : k < m => at[m] < at[k]

\* In at1 a number s comes after the first n elements of at.
InsertedAt(at, len, n, s, at1) ==
    /\ \A k \in 1 .. len : (k <= n => at[k] > s) /\ (k > n => at[k] < s)
    /\ \A k \in 1 .. len + 1 :
         at1[k] = IF k <= n THEN at[k] ELSE IF k = n + 1 THEN s ELSE at[k - 1]

LEMMA SortedInsert ==
    ASSUME NEW len \in Nat, NEW n \in 0 .. len, NEW s \in Nat,
           NEW at \in [1 .. len -> Nat], NEW at1 \in [1 .. len + 1 -> Nat],
           Descends(at, len), InsertedAt(at, len, n, s, at1)
    PROVE  Descends(at1, len + 1)
  <1> USE DEF Descends, InsertedAt
  <1> SUFFICES ASSUME NEW k \in 1 .. len + 1, NEW m \in 1 .. len + 1, k < m
               PROVE  at1[m] < at1[k]
    OBVIOUS
  <1>1. CASE m <= n
    <2>1. k \in 1 .. len /\ m \in 1 .. len /\ k <= n
      BY <1>1
    <2>2. QED
      BY <1>1, <2>1
  <1>2. CASE m = n + 1
    <2>1. k \in 1 .. len /\ k <= n
      BY <1>2
    <2>2. QED
      BY <1>2, <2>1
  <1>3. CASE m > n + 1
    <2>1. m - 1 \in 1 .. len /\ m - 1 > n /\ at1[m] = at[m - 1]
      BY <1>3
    <2>2. CASE k <= n
      BY <2>1, <2>2
    <2>3. CASE k = n + 1
      BY <2>1, <2>3
    <2>4. CASE k > n + 1
      <3>1. k - 1 \in 1 .. len /\ k - 1 < m - 1 /\ at1[k] = at[k - 1]
        BY <2>4
      <3>2. QED
        BY <2>1, <3>1
    <2>5. QED
      BY <2>2, <2>3, <2>4
  <1>4. QED
    BY <1>1, <1>2, <1>3

LEMMA PointerIs ==
    ASSUME NEW x \in Pointer
    PROVE  x[1] \in Block /\ x[2] \in Nat
  BY DEF Pointer

LEMMA SamePointer ==
    ASSUME NEW x \in Pointer, NEW y \in Pointer, x[1] = y[1], x[2] = y[2]
    PROVE  x = y
  BY DEF Pointer

\* Upvalue u, which is new, is listed where the walk stopped.
LEMMA InsertKeeps ==
    ASSUME vm \in Context, OpenSorted(vm, up), NEW local \in Pointer, local[1] = vm.block,
           Listed(local) = None, NEW u \in Cell, up[u] = None,
           up \in [Cell -> Upvalue \cup {None}],
           NEW ups, ups = [up EXCEPT ![u] = [location |-> local, closed |-> Null]],
           NEW p, p.block = vm.block,
           p.open = Inserting(vm.open, Passed(local), u),
           FrameSlot(p, local[2]), \A s \in Nat : FrameSlot(vm, s) => FrameSlot(p, s)
    PROVE  /\ p.open \in Seq(Cell) /\ OpenSorted(p, ups) /\ OnList(p, u)
           /\ \A w : OnList(vm, w) => OnList(p, w)
  <1> DEFINE o == vm.open
             len == Len(vm.open)
             n == Passed(local)
             at(k) == up[o[k]].location[2]
             at1(k) == ups[p.open[k]].location[2]
             s == local[2]
  <1>1. /\ len \in Nat /\ o \in Seq(Cell) /\ s \in Nat
        /\ \A k \in 1 .. len : o[k] \in Cell /\ at(k) \in Nat
    BY ContextShape DEF OpenSorted, Pointer
  <1>2. /\ n \in 0 .. len
        /\ \A k \in 1 .. len : /\ k <= n => at(k) > s
                               /\ k > n => at(k) <= s
                               /\ k > n + 1 => at(k) < s
    BY <1>1, PassedIs
  <1>3. /\ p.open \in Seq(Cell) /\ Len(p.open) = len + 1
        /\ \A k \in 1 .. len + 1 :
             p.open[k] = IF k <= n THEN o[k] ELSE IF k = n + 1 THEN u ELSE o[k - 1]
    <2>1. vm.open \in Seq(Cell) /\ n \in 0 .. Len(vm.open)
      BY <1>1, <1>2
    <2>2. WithInserted(vm.open, n, u, p.open)
      BY <2>1, Inserted
    <2> HIDE DEF n
    <2>3. QED
      BY <2>2 DEF WithInserted
  <1>4. n < len => at(n + 1) < s
    <2> SUFFICES ASSUME n < len PROVE at(n + 1) < s
      OBVIOUS
    <2>1. n + 1 \in 1 .. len /\ n + 1 > n
      BY <1>1, <1>2
    <2>2. at(n + 1) <= s /\ at(n + 1) \in Nat
      BY <1>1, <1>2, <2>1
    <2>3. up[o[n + 1]].location # local
      <3>1. o[n + 1] # None
        BY <1>1, <2>1, FramesAssumption
      <3>2. QED
        BY <3>1 DEF Listed
    <2>4. up[o[n + 1]].location \in Pointer /\ up[o[n + 1]].location[1] = local[1]
      BY <2>1 DEF OpenSorted
    <2>5. at(n + 1) # s
      BY <2>3, <2>4, SamePointer
    <2>6. QED
      BY <1>1, <2>2, <2>5
  <1>5. /\ ups[u] = [location |-> local, closed |-> Null] /\ ups[u] \in Upvalue
        /\ \A w \in Cell : w # u => ups[w] = up[w]
    BY Constants DEF Upvalue
  <1>6. \A k \in 1 .. len : o[k] # u
    BY FramesAssumption DEF OpenSorted
  <1> HIDE DEF n, o, len, s
  <1>7. ASSUME NEW k \in 1 .. len + 1
        PROVE  /\ ups[p.open[k]] \in Upvalue /\ ups[p.open[k]].location \in Pointer
               /\ ups[p.open[k]].location[1] = p.block
               /\ FrameSlot(p, ups[p.open[k]].location[2])
               /\ at1(k) = IF k <= n THEN at(k) ELSE IF k = n + 1 THEN s ELSE at(k - 1)
    <2>1. CASE k = n + 1
      <3>0. n \in Nat /\ ~(n + 1 <= n)
        BY <1>1, <1>2
      <3>1. p.open[k] = u /\ ~(k <= n)
        BY <1>3, <2>1, <3>0
      <3>2. QED
        BY <1>5, <2>1, <3>1 DEF s
    <2>2. CASE k # n + 1
      <3> DEFINE m == IF k <= n THEN k ELSE k - 1
      <3>1. m \in 1 .. len /\ p.open[k] = o[m]
        <4>1. n \in Nat /\ len \in Nat /\ n <= len /\ k \in Nat /\ 1 <= k /\ k <= len + 1
          BY <1>1, <1>2
        <4>2. m \in 1 .. len
          BY <2>2, <4>1
        <4>3. p.open[k] = o[m]
          BY <1>3, <2>2
        <4>4. QED
          BY <4>2, <4>3
      <3>2. ups[o[m]] = up[o[m]]
        BY <1>1, <1>5, <1>6, <3>1
      <3>3. /\ up[o[m]] \in Upvalue /\ up[o[m]].location \in Pointer
            /\ up[o[m]].location[1] = vm.block
            /\ FrameSlot(vm, up[o[m]].location[2])
        BY <3>1 DEF OpenSorted, o, len
      <3>4. at1(k) = at(m)
        BY <3>1, <3>2
      <3>5. FrameSlot(p, up[o[m]].location[2])
        BY <1>1, <3>1, <3>3
      <3>6. at1(k) = IF k <= n THEN at(k) ELSE IF k = n + 1 THEN s ELSE at(k - 1)
        BY <2>2, <3>4
      <3> HIDE DEF m
      <3>7. QED
        BY <3>1, <3>2, <3>3, <3>5, <3>6
    <2>3. QED
      BY <2>1, <2>2
  <1>8. ASSUME NEW k \in 1 .. len, NEW m \in 1 .. len, k < m PROVE at(m) < at(k)
    BY <1>8 DEF OpenSorted, o, len
  <1>9. ASSUME NEW k \in 1 .. len + 1, NEW m \in 1 .. len + 1, k < m PROVE at1(m) < at1(k)
    <2> DEFINE f == [j \in 1 .. len |-> at(j)]
               g == [j \in 1 .. len + 1 |-> at1(j)]
    <2>1. \A j \in 1 .. len : (j <= n => at(j) > s) /\ (j > n => at(j) < s)
      <3>1. ASSUME NEW j \in 1 .. len, j > n PROVE at(j) < s
        <4>1. j = n + 1 \/ j > n + 1
          BY <1>1, <1>2, <3>1
        <4>2. n < len
          BY <1>1, <1>2, <3>1
        <4>3. QED
          BY <1>2, <1>4, <4>1, <4>2
      <3>2. QED
        BY <1>2, <3>1
    <2>2. f \in [1 .. len -> Nat]
      BY <1>1
    <2>3. \A j \in 1 .. len + 1 : at1(j) \in Nat
      <3>1. ASSUME NEW j \in 1 .. len + 1 PROVE at1(j) \in Nat
        <4>1. ups[p.open[j]].location \in Pointer
          BY <1>7
        <4>2. QED
          BY <4>1, PointerIs
      <3>2. QED
        BY <3>1
    <2>4. g \in [1 .. len + 1 -> Nat]
      BY <2>3
    <2>5. \A i, j \in 1 .. len : i < j => f[j] < f[i]
      BY <1>8
    <2>6. \A j \in 1 .. len : (j <= n => f[j] > s) /\ (j > n => f[j] < s)
      BY <2>1
    <2>7. ASSUME NEW j \in 1 .. len + 1
          PROVE  g[j] = IF j <= n THEN f[j] ELSE IF j = n + 1 THEN s ELSE f[j - 1]
      <3>0. n \in Nat /\ len \in Nat /\ n <= len /\ j \in Nat /\ 1 <= j /\ j <= len + 1
        BY <1>1, <1>2
      <3>1. j <= n => j \in 1 .. len
        BY <3>0
      <3>2. ~(j <= n) /\ j # n + 1 => j - 1 \in 1 .. len
        BY <3>0
      <3>3. at1(j) = IF j <= n THEN at(j) ELSE IF j = n + 1 THEN s ELSE at(j - 1)
        BY <1>7
      <3> HIDE DEF at, at1
      <3>4. QED
        BY <3>1, <3>2, <3>3
    <2> HIDE DEF f, g
    <2>8. g[m] < g[k]
      <3>1. len \in Nat /\ n \in 0 .. len /\ s \in Nat
        BY <1>1, <1>2
      <3>2. Descends(f, len)
        BY <2>5 DEF Descends
      <3>3. InsertedAt(f, len, n, s, g)
        BY <2>6, <2>7 DEF InsertedAt
      <3>4. Descends(g, len + 1)
        BY <2>2, <2>4, <3>1, <3>2, <3>3, SortedInsert
      <3>5. QED
        BY <1>9, <3>4 DEF Descends
    <2>9. QED
      BY <2>8 DEF g
  <1>10. OpenSorted(p, ups)
    BY <1>3, <1>7, <1>9 DEF OpenSorted
  <1>11. OnList(p, u)
    <2>1. n + 1 \in 1 .. len + 1 /\ ~(n + 1 <= n)
      BY <1>1, <1>2
    <2>2. QED
      BY <1>3, <2>1 DEF OnList
  <1>12. ASSUME NEW w, OnList(vm, w) PROVE OnList(p, w)
    <2>1. PICK k \in 1 .. len : o[k] = w
      BY <1>12 DEF OnList, o, len
    <2>2. CASE k <= n
      <3>1. k \in 1 .. len + 1
        BY <1>1
      <3>2. QED
        BY <1>3, <2>1, <2>2, <3>1 DEF OnList
    <2>3. CASE ~(k <= n)
      <3>0. n \in Nat /\ k \in Nat /\ len \in Nat /\ 1 <= k /\ k <= len
        BY <1>1, <1>2
      <3> DEFINE j == k + 1
      <3>1. j \in 1 .. len + 1 /\ ~(j <= n) /\ j # n + 1 /\ j - 1 = k
        BY <2>3, <3>0
      <3> HIDE DEF j
      <3>2. p.open[j] = o[k]
        BY <1>3, <3>1
      <3>3. QED
        BY <1>3, <2>1, <3>1, <3>2 DEF OnList, j
    <2>4. QED
      BY <2>2, <2>3
  <1>13. QED
    BY <1>3, <1>10, <1>11, <1>12
LEMMA CaptureKeeps ==
    ASSUME IInv, NEW i \in 1 .. MaxStack, NEW u \in Cell, Capture(i, u)
    PROVE  IInv'
  <1> DEFINE with == Put(vm, Live(vm), <<Fn>>)
             local == SlotOf(vm, i)
             s == local[2]
             n == Passed(local)
             top == Frame(vm).slots[2]
             op == Inserting(vm.open, n, u)
  <1>0. /\ Executing /\ Fits(vm, 1) /\ i \in 1 .. Live(vm)
        /\ host' = host /\ UNCHANGED switchVars
    BY DEF Capture
  <1>1. /\ vm \in Context /\ ContextOK(vm, up) /\ FramesNested(vm) /\ NullAbove(vm)
        /\ OpenSorted(vm, up) /\ Depth(vm) > 0
        /\ up \in [Cell -> Upvalue \cup {None}]
        /\ cache \in [0 .. MaxStack - 1 -> Cell \cup {None}]
    BY <1>0, InvContexts, Running
  <1>2. <<Fn>> \in Seq(Contents) /\ Len(<<Fn>>) = 1 /\ Live(vm) + 1 <= Frame(vm).need
    BY <1>0, Constants DEF Fits
  <1>3. /\ top \in Nat /\ Frame(vm).need \in Nat /\ Live(vm) \in Nat
        /\ top + Frame(vm).need <= MaxStack /\ vm.block \in Block
        /\ Depth(vm) \in 1 .. Len(vm.frames) /\ Live(vm) = vm.frames[Depth(vm)].live
        /\ Frame(vm) = vm.frames[Depth(vm)]
        /\ \A j \in Nat : SlotOf(vm, j) = <<vm.block, top + j>>
    BY <1>1, FrameShape, ContextShape
  <1>4. i \in Nat /\ 1 <= i /\ i <= Live(vm) /\ MaxStack \in Nat
    BY <1>0, <1>3, FramesAssumption
  <1>5. local = <<vm.block, top + i>> /\ s = top + i
    BY <1>3, <1>4
  <1>6. s \in 0 .. MaxStack - 1 /\ s \in Nat
    <2> DEFINE need == Frame(vm).need
               live == Live(vm)
    <2>1. /\ top \in Nat /\ need \in Nat /\ live \in Nat /\ i \in Nat /\ i <= live
          /\ live + 1 <= need /\ top + need <= MaxStack /\ MaxStack \in Nat
      BY <1>2, <1>3, <1>4
    <2> HIDE DEF top, need, live
    <2>2. top + i \in 0 .. MaxStack - 1 /\ top + i \in Nat
      BY <2>1
    <2> HIDE DEF s
    <2>3. QED
      BY <1>5, <2>2
  <1>7. local \in Pointer /\ local[1] = vm.block
    <2> HIDE DEF top, local
    <2>1. vm.block \in Block /\ top + i \in Nat
      BY <1>3, <1>4
    <2>2. QED
      BY <1>5, <2>1 DEF Pointer
  <1>8. /\ with \in Context /\ with.block = vm.block /\ with.top = vm.top
        /\ with.open = vm.open /\ Capacity(with) = Capacity(vm)
        /\ Depth(with) = Depth(vm) /\ Len(with.frames) = Len(vm.frames)
        /\ \A d \in 1 .. Len(vm.frames) : SameFrame(with.frames[d], vm.frames[d])
        /\ \A d \in 1 .. Len(vm.frames) :
             with.frames[d].live = IF d = Depth(vm) THEN Live(vm) + 1 ELSE vm.frames[d].live
    <2> DEFINE values == <<Fn>>
    <2>1. values \in Seq(Contents) /\ Len(values) = 1 /\ Live(vm) + Len(values) <= Frame(vm).need
      BY <1>1, <1>2
    <2> HIDE DEF values
    <2>2. /\ Put(vm, Live(vm), values) \in Context
          /\ Put(vm, Live(vm), values).block = vm.block
          /\ Put(vm, Live(vm), values).top = vm.top /\ Put(vm, Live(vm), values).open = vm.open
          /\ Capacity(Put(vm, Live(vm), values)) = Capacity(vm)
          /\ Depth(Put(vm, Live(vm), values)) = Depth(vm)
          /\ Len(Put(vm, Live(vm), values).frames) = Len(vm.frames)
          /\ \A d \in 1 .. Len(vm.frames) :
               SameFrame(Put(vm, Live(vm), values).frames[d], vm.frames[d])
          /\ \A d \in 1 .. Len(vm.frames) :
               Put(vm, Live(vm), values).frames[d].live =
                   IF d = Depth(vm) THEN Live(vm) + Len(values) ELSE vm.frames[d].live
      BY <1>1, <2>1, PutIs
    <2>3. with = Put(vm, Live(vm), values)
      BY DEF values
    <2> HIDE DEF with
    <2>4. QED
      BY <2>1, <2>2, <2>3
  <1>9. ContextOK(with, up)
    BY <1>1, <1>2, PutKeeps
  <1> HIDE DEF with
  <1>10. FrameSlot(with, s)
    <2> DEFINE D == Depth(vm)
    <2>1. D \in DOMAIN with.frames
      BY <1>3, <1>8, ContextShape
    <2>2. with.frames[D].slots[2] = top /\ with.frames[D].need = Frame(vm).need
      BY <1>3, <1>8 DEF SameFrame
    <2>3. s \in top .. top + Frame(vm).need - 1
      <3> DEFINE live == Live(vm)
                 need == Frame(vm).need
      <3>1. /\ top \in Nat /\ live \in Nat /\ need \in Nat /\ i \in Nat /\ i <= live
            /\ live + 1 <= need /\ s = top + i
        BY <1>2, <1>3, <1>4, <1>5
      <3> HIDE DEF s, top, live, need
      <3>2. s \in top .. top + need - 1
        BY <3>1
      <3>3. QED
        BY <3>2 DEF need
    <2> HIDE DEF D, s, top
    <2>4. s \in with.frames[D].slots[2] .. with.frames[D].slots[2] + with.frames[D].need - 1
      BY <2>2, <2>3
    <2>5. QED
      BY <2>1, <2>4 DEF FrameSlot
  <1>11. \A t \in Nat : FrameSlot(vm, t) => FrameSlot(with, t)
    BY <1>1, <1>2, PutSlots DEF with
  <1>12. CASE Cached(local) # None
    <2>1. vm' = with /\ UNCHANGED upvalueVars
      BY <1>12 DEF Capture, with
    <2>2. UNCHANGED <<upvalueVars, host, switchVars>>
      BY <1>0, <2>1
    <2>3. QED
      BY <1>0, <1>2, <2>1, <2>2, PutStep DEF with
  <1>13. CASE Cached(local) = None /\ Listed(local) # None
    <2>1. vm' = with /\ u = Listed(local) /\ up' = up /\ cache' = [cache EXCEPT ![s] = u]
      BY <1>13 DEF Capture, with
    <2>2. n \in 0 .. Len(vm.open) /\ Len(vm.open) \in Nat
      BY <1>1, <1>6, PassedIs, ContextShape
    <2>3. n < Len(vm.open) /\ u = vm.open[n + 1] /\ up[u].location = local
      BY <1>13, <2>1 DEF Listed
    <2>4. n + 1 \in DOMAIN vm.open
      BY <1>1, <2>2, <2>3, ContextShape
    <2>5. u \in {vm.open[k] : k \in DOMAIN vm.open} /\ u # None
      BY <2>3, <2>4, FramesAssumption
    <2>6. cache' \in [0 .. MaxStack - 1 -> Cell \cup {None}]
      BY <1>1, <2>1
    <2>7. CacheExact'
      <3> SUFFICES ASSUME NEW t \in DOMAIN cache, cache'[t] # None
                   PROVE  /\ cache'[t] \in {vm.open[k] : k \in DOMAIN vm.open}
                          /\ up[cache'[t]].location = <<vm.block, t>>
        <4>1. DOMAIN cache' = DOMAIN cache /\ up' = up
          BY <1>1, <2>1
        <4>2. vm'.open = vm.open /\ vm'.block = vm.block
          BY <1>8, <2>1
        <4>3. QED
          BY <4>1, <4>2 DEF CacheExact
      <3>1. CASE t = s
        BY <1>5, <2>1, <2>3, <2>5, <3>1
      <3>2. CASE t # s
        BY <2>1, <3>2 DEF IInv, CacheExact
      <3>3. QED
        BY <3>1, <3>2
    <2>8. \A w \in Cell : OnList(vm, w) => OnList(vm', w)
      BY <1>8, <2>1 DEF OnList
    <2>9. /\ vm' \in Context /\ vm'.block[1] = vm.block[1] /\ ContextOK(vm', up')
          /\ host' = "in" /\ Depth(vm') > 0
      BY <1>0, <1>1, <1>8, <1>9, <2>1 DEF Executing
    <2>10. QED
      BY <1>0, <1>1, <2>1, <2>6, <2>7, <2>8, <2>9, Stepped
  <1>14. CASE Cached(local) = None /\ Listed(local) = None
    <2>1. /\ cache' = [cache EXCEPT ![s] = u] /\ Unused # {} /\ u = NewUpvalue
          /\ up' = [up EXCEPT ![u] = [location |-> local, closed |-> Null]]
          /\ vm' = [with EXCEPT !.open =
                        SubSeq(@, 1, n) \o <<u>> \o SubSeq(@, n + 1, Len(@))]
      BY <1>14 DEF Capture, with
    <2>2. vm' = [with EXCEPT !.open = op]
      BY <1>8, <2>1 DEF Inserting
    <2>3. up[u] = None
      BY <2>1 DEF NewUpvalue, Unused
    <2> HIDE DEF op
    <2>4. with = [block |-> vm.block, stack |-> with.stack, top |-> vm.top,
                  frames |-> with.frames, open |-> vm.open]
      BY <1>8, ContextFields
    <2>5. vm' = [block |-> vm.block, stack |-> with.stack, top |-> vm.top,
                 frames |-> with.frames, open |-> op]
      BY <2>2, <2>4
    <2>6. vm'.open = Inserting(vm.open, n, u) /\ vm'.block = vm.block
          /\ vm'.frames = with.frames
      BY <2>5 DEF op
    <2>7. FrameSlot(vm', s) /\ \A t \in Nat : FrameSlot(vm, t) => FrameSlot(vm', t)
      BY <1>10, <1>11, <2>6 DEF FrameSlot
    <2>8. /\ vm'.open \in Seq(Cell) /\ OpenSorted(vm', up') /\ OnList(vm', u)
          /\ \A w : OnList(vm, w) => OnList(vm', w)
      <3> DEFINE l == local
      <3>1. /\ l \in Pointer /\ l[1] = vm.block /\ Listed(l) = None
            /\ up' = [up EXCEPT ![u] = [location |-> l, closed |-> Null]]
            /\ vm'.open = Inserting(vm.open, Passed(l), u)
            /\ FrameSlot(vm', l[2])
        BY <1>7, <1>14, <2>1, <2>6, <2>7
      <3> HIDE DEF l
      <3>2. QED
        BY <1>1, <2>3, <2>6, <2>7, <3>1, InsertKeeps
    <2>9. vm' \in Context /\ vm'.stack = with.stack /\ vm'.top = vm.top
          /\ Capacity(vm') = Capacity(vm)
      <3>1. op \in Seq(Cell)
        BY <2>6, <2>8 DEF op
      <3> DEFINE b == vm.block
                 m == Capacity(vm)
                 st == with.stack
                 t == vm.top
                 f == with.frames
      <3>2. /\ b \in Block /\ m \in Capacities /\ st \in [0 .. m - 1 -> Contents]
            /\ t \in Nat /\ f \in Seq(CallFrame)
        <4>1. with.stack \in [0 .. Capacity(with) - 1 -> Contents]
              /\ with.frames \in Seq(CallFrame)
          BY <1>8, ContextShape
        <4>2. QED
          BY <1>1, <1>8, <4>1, ContextShape
      <3>3. vm' = [block |-> b, stack |-> st, top |-> t, frames |-> f, open |-> op]
        BY <2>5
      <3> HIDE DEF b, m, st, t, f
      <3>4. vm' \in Context /\ Capacity(vm') = m /\ vm'.stack = st /\ vm'.top = t
        BY <3>1, <3>2, <3>3, ContextMade
      <3>5. QED
        BY <3>4 DEF m, st, t
    <2>10. FramesNested(vm') /\ NullAbove(vm')
      <3>1. FramesNested(with) /\ NullAbove(with)
        BY <1>9 DEF ContextOK
      <3>2. QED
        BY <1>8, <2>6, <2>9, <3>1 DEF FramesNested, NullAbove
    <2>11. /\ up' \in [Cell -> Upvalue \cup {None}] /\ up'[u].location = local
           /\ \A w \in Cell : w # u => up'[w] = up[w]
      <3>1. [location |-> local, closed |-> Null] \in Upvalue
        BY <1>7, Constants DEF Upvalue
      <3>2. QED
        BY <1>1, <2>1, <3>1
    <2>12. cache' \in [0 .. MaxStack - 1 -> Cell \cup {None}]
      BY <1>1, <2>1
    <2>13. CacheExact'
      <3> SUFFICES ASSUME NEW t \in DOMAIN cache', cache'[t] # None
                   PROVE  /\ cache'[t] \in {vm'.open[k] : k \in DOMAIN vm'.open}
                          /\ up'[cache'[t]].location = <<vm'.block, t>>
        BY DEF CacheExact
      <3>0. DOMAIN vm'.open = 1 .. Len(vm'.open) /\ DOMAIN vm.open = 1 .. Len(vm.open)
        BY <1>1, <2>9, ContextShape
      <3>1. CASE t = s
        <4>1. cache'[t] = u
          BY <1>1, <1>6, <2>1, <3>1
        <4>2. u \in {vm'.open[k] : k \in DOMAIN vm'.open}
          BY <2>8, <3>0 DEF OnList
        <4>3. QED
          BY <1>5, <2>6, <2>11, <3>1, <4>1, <4>2
      <3>2. CASE t # s
        <4>1. cache'[t] = cache[t] /\ t \in DOMAIN cache
          BY <2>1, <3>2
        <4>2. /\ cache[t] \in {vm.open[k] : k \in DOMAIN vm.open}
              /\ up[cache[t]].location = <<vm.block, t>>
          BY <3>2, <4>1 DEF IInv, CacheExact
        <4>3. OnList(vm, cache[t])
          BY <3>0, <4>2 DEF OnList
        <4>4. cache[t] # u
          BY <1>1, <2>3, <4>3, FramesAssumption DEF OnList, OpenSorted
        <4>5. cache[t] \in Cell
          BY <1>1, <4>1, <3>2
        <4>6. OnList(vm', cache[t]) /\ up'[cache[t]] = up[cache[t]]
          BY <2>8, <2>11, <4>3, <4>4, <4>5
        <4>7. QED
          BY <2>6, <3>0, <4>1, <4>2, <4>6 DEF OnList
      <3>3. QED
        BY <3>1, <3>2
    <2>14. ContextOK(vm', up') /\ vm'.block[1] = vm.block[1] /\ host' = "in" /\ Depth(vm') > 0
      BY <1>0, <1>1, <1>8, <2>6, <2>8, <2>10 DEF ContextOK, Executing, Depth
    <2>15. \A w \in Cell : ~OnList(vm, w) /\ up[w] # None /\ up[w].location # None =>
               up'[w] = up[w]
      BY <2>3, <2>11
    <2>16. \A w \in Cell : up'[w] # None /\ up'[w].location # None =>
               OnList(vm', w) \/ (~OnList(vm, w) /\ up'[w] = up[w])
      BY <2>8, <2>11
    <2>17. QED
      BY <1>0, <2>9, <2>11, <2>12, <2>13, <2>14, <2>15, <2>16, Stepped
  <1>15. QED
    BY <1>12, <1>13, <1>14
\* Growth: upvalues move with the registers, and the cache is forgotten.
LEMMA GrowUpvaluesIs ==
    ASSUME IInv, NEW g, g.moves \in BOOLEAN, GrowUpvalues(g)
    PROVE  /\ up' \in [Cell -> Upvalue \cup {None}]
           /\ \A u \in Cell : ~OnList(vm, u) => up'[u] = up[u]
           /\ MovedAlong(vm, g, up, up')
           /\ cache' \in [0 .. MaxStack - 1 -> Cell \cup {None}]
           /\ g.moves => cache' = NoCache
           /\ ~g.moves => up' = up /\ cache' = cache
  <1>1. /\ vm \in Context /\ ContextOK(vm, up) /\ OpenSorted(vm, up)
        /\ up \in [Cell -> Upvalue \cup {None}]
        /\ cache \in [0 .. MaxStack - 1 -> Cell \cup {None}]
    BY InvContexts
  <1>2. CASE ~g.moves
    BY <1>1, <1>2 DEF GrowUpvalues, upvalueVars, MovedAlong
  <1>3. CASE g.moves
    <2> DEFINE Moves(u) == [up[u] EXCEPT !.location = Relocate(up[u].location, vm.block)]
    <2>1. cache' = NoCache /\ up' = [u \in Cell |->
                IF u \in {vm.open[k] : k \in DOMAIN vm.open} THEN Moves(u) ELSE up[u]]
      BY <1>3 DEF GrowUpvalues
    <2>2. ASSUME NEW k \in 1 .. Len(vm.open)
          PROVE  vm.open[k] \in Cell /\ Moves(vm.open[k]) \in Upvalue
      <3> DEFINE loc == Relocate(up[vm.open[k]].location, vm.block)
      <3>1. /\ up[vm.open[k]] \in Upvalue /\ up[vm.open[k]].location \in Pointer
            /\ up[vm.open[k]].location[1] = vm.block /\ vm.block \in Block
            /\ vm.open[k] \in Cell
        BY <1>1, OpenInside, ContextShape
      <3>2. loc \in Pointer
        BY <3>1, RelocateIs
      <3> HIDE DEF loc
      <3>3. [up[vm.open[k]] EXCEPT !.location = loc] \in Upvalue
        BY <3>1, <3>2 DEF Upvalue
      <3>4. QED
        BY <3>1, <3>3 DEF loc
    <2> HIDE DEF Moves
    <2>3. DOMAIN vm.open = 1 .. Len(vm.open)
      BY <1>1, ContextShape
    <2>4. up' \in [Cell -> Upvalue \cup {None}]
      BY <1>1, <2>1, <2>2, <2>3
    <2>5. \A u \in Cell : ~OnList(vm, u) => up'[u] = up[u]
      BY <2>1, <2>3 DEF OnList
    <2>6. \A k \in 1 .. Len(vm.open) : up'[vm.open[k]] = Moves(vm.open[k])
      BY <2>1, <2>2, <2>3
    <2>7. cache' \in [0 .. MaxStack - 1 -> Cell \cup {None}]
      BY <2>1 DEF NoCache
    <2>8. QED
      BY <1>3, <2>1, <2>4, <2>5, <2>6, <2>7 DEF Moves, MovedAlong
  <1>4. QED
    BY <1>2, <1>3

\* The running context p, when its stack grows
LEMMA GrownOK ==
    ASSUME IInv, NEW needed \in Nat, NEW g \in Growths(needed), GrowUpvalues(g),
           NEW p \in Context, ContextOK(p, up), p.open = vm.open, p.block = vm.block,
           Capacity(p) = Capacity(vm)
    PROVE  LET c == Grown(p, g) IN
           /\ ContextOK(c, up') /\ FramesNested(c) /\ NullAbove(c) /\ c \in Context
           /\ c.open = p.open /\ c.top = p.top /\ Depth(c) = Depth(p)
           /\ c.block = IF g.moves THEN Moved(vm.block) ELSE vm.block
           /\ Capacity(c) >= Capacity(p) /\ Capacity(c) >= needed /\ needed <= MaxStack
           /\ Depth(p) > 0 => /\ Live(c) = Live(p)
                              /\ Frame(c).need = Frame(p).need
                              /\ Frame(c).slots[2] = Frame(p).slots[2]
  <1> DEFINE c == Grown(p, g)
  <1>1. vm \in Context /\ FramesNested(p) /\ NullAbove(p)
    BY InvContexts DEF ContextOK
  <1>2. /\ g.size \in Capacities /\ g.moves \in BOOLEAN /\ g.size >= Capacity(vm)
        /\ g.size >= needed /\ needed <= MaxStack
    BY <1>1, GrowthIs
  <1>3. MovedAlong(p, g, up, up')
    BY <1>2, GrowUpvaluesIs DEF MovedAlong
  <1>4. ContextOK(c, up')
    BY <1>2, <1>3, GrownKeeps
  <1>5. /\ c \in Context /\ c.open = p.open /\ c.top = p.top
        /\ c.block = IF g.moves THEN Moved(p.block) ELSE p.block
        /\ Capacity(c) = g.size /\ Len(c.frames) = Len(p.frames)
        /\ \A d \in 1 .. Len(p.frames) :
             /\ c.frames[d].slots = <<c.block, p.frames[d].slots[2]>>
             /\ c.frames[d].live = p.frames[d].live /\ c.frames[d].need = p.frames[d].need
    BY <1>1, <1>2, GrownIs
  <1> HIDE DEF c
  <1>6. ASSUME Depth(p) > 0
        PROVE  /\ Live(c) = Live(p) /\ Frame(c).need = Frame(p).need
               /\ Frame(c).slots[2] = Frame(p).slots[2]
    <2>1. Depth(p) \in 1 .. Len(p.frames)
      BY <1>1, <1>6, FrameShape
    <2>2. QED
      BY <1>5, <2>1 DEF Depth, Live, Frame
  <1>7. QED
    BY <1>2, <1>4, <1>5, <1>6 DEF c, Depth, ContextOK

\* A step that may make the stack grow
LEMMA GrownStep ==
    ASSUME IInv, NEW needed \in Nat, NEW g \in Growths(needed), GrowUpvalues(g),
           UNCHANGED switchVars, host' = "in",
           vm' \in Context, vm'.open = vm.open,
           vm'.block = IF g.moves THEN Moved(vm.block) ELSE vm.block,
           Depth(vm') > 0, ContextOK(vm', up')
    PROVE  IInv'
  <1>1. vm \in Context /\ vm.block \in Block /\ CacheExact
    BY InvContexts, ContextShape DEF IInv
  <1>2. g.size \in Capacities /\ g.moves \in BOOLEAN /\ g.size >= Capacity(vm)
    BY <1>1, GrowthIs
  <1>3. /\ up' \in [Cell -> Upvalue \cup {None}]
        /\ \A u \in Cell : ~OnList(vm, u) => up'[u] = up[u]
        /\ cache' \in [0 .. MaxStack - 1 -> Cell \cup {None}]
        /\ g.moves => cache' = NoCache
        /\ ~g.moves => up' = up /\ cache' = cache
    BY <1>2, GrowUpvaluesIs
  <1>5. /\ vm'.block[1] = vm.block[1]
        /\ ~g.moves => vm'.block = vm.block
    BY <1>1, <1>2, MovedBlock
  <1>6. CacheExact'
    <2>1. CASE g.moves
      BY <1>3, <2>1 DEF CacheExact, NoCache
    <2>2. CASE ~g.moves
      <3>1. up' = up /\ cache' = cache /\ vm'.block = vm.block /\ vm'.open = vm.open
        BY <1>3, <1>5, <2>2
      <3> HIDE <2>2
      <3>2. QED
        BY <1>1, <3>1, Zenon DEF CacheExact
    <2>3. QED
      BY <1>2, <2>1, <2>2
  <1>7. \A u \in Cell : OnList(vm, u) => OnList(vm', u)
    BY DEF OnList
  <1>8. \A u \in Cell : up'[u] # None /\ up'[u].location # None =>
               OnList(vm', u) \/ (~OnList(vm, u) /\ up'[u] = up[u])
    BY <1>3, <1>7
  <1>9. QED
    BY <1>3, <1>5, <1>6, <1>8, Stepped

LEMMA StoredIs ==
    ASSUME NEW results \in Seq(Contents), NEW single \in BOOLEAN, NEW n \in Nat
    PROVE  Stored(results, single, n) \in Seq(Contents) /\ Len(Stored(results, single, n)) = n
  <1>1. CASE single /\ n > 1 /\ results[1] = Err
    BY <1>1, Constants DEF Stored
  <1>2. CASE ~(single /\ n > 1 /\ results[1] = Err)
    <2>1. ASSUME NEW i \in 1 .. n
          PROVE  (IF i <= Len(results) THEN results[i] ELSE Null) \in Contents
      BY Constants
    <2>2. QED
      BY <1>2, <2>1 DEF Stored
  <1>3. QED
    BY <1>1, <1>2

LEMMA NativeKeeps ==
    ASSUME IInv, NEW results \in Lists, NEW n \in Wanted, NEW single \in BOOLEAN,
           NEW pushes \in BOOLEAN, Native(results, single, n, pushes)
    PROVE  IInv'
  <1> DEFINE needed == IF pushes THEN vm.top + 1 ELSE 0
             values == Stored(results, single, n)
  <1>0. Executing /\ Fits(vm, n) /\ host' = host /\ UNCHANGED switchVars
    BY DEF Native
  <1>1. vm \in Context /\ ContextOK(vm, up) /\ FramesNested(vm) /\ NullAbove(vm) /\ Depth(vm) > 0
    BY <1>0, InvContexts, Running
  <1>2. needed \in Nat
    BY <1>1, ContextShape
  <1>3. PICK g \in Growths(needed) :
          GrowUpvalues(g) /\ vm' = Put(Grown(vm, g), Live(vm), values)
    BY DEF Native
  <1> DEFINE c == Grown(vm, g)
  <1>4. /\ ContextOK(c, up') /\ FramesNested(c) /\ NullAbove(c) /\ c \in Context
        /\ c.open = vm.open /\ Depth(c) = Depth(vm)
        /\ c.block = IF g.moves THEN Moved(vm.block) ELSE vm.block
        /\ Live(c) = Live(vm) /\ Frame(c).need = Frame(vm).need
    BY <1>1, <1>2, <1>3, GrownOK
  <1> HIDE DEF c, needed, values
  <1>5. values \in Seq(Contents) /\ Len(values) = n
    BY StoredIs, Constants, FramesAssumption DEF values
  <1>6. Live(c) + Len(values) <= Frame(c).need /\ vm' = Put(c, Live(c), values)
    BY <1>0, <1>3, <1>4, <1>5 DEF Fits, c
  <1>7. ContextOK(vm', up')
    BY <1>1, <1>4, <1>5, <1>6, PutKeeps
  <1>8. vm' \in Context /\ vm'.block = c.block /\ vm'.open = c.open /\ Depth(vm') = Depth(c)
    BY <1>1, <1>4, <1>5, <1>6, PutIs
  <1>9. QED
    BY <1>0, <1>1, <1>2, <1>3, <1>4, <1>7, <1>8, GrownStep DEF c, Executing
\* The context a call makes of c: the n registers from base become the first
\* ones of a frame that needs need of them.
CalledOn(c, base, n, need, wanted, needed) ==
    LET frame == [slots |-> <<c.block, Frame(c).slots[2] + base>>, live |-> n, need |-> need,
                  dest |-> base, expected |-> wanted, callerTop |-> c.top]
    IN  [block |-> c.block, stack |-> c.stack,
         top |-> IF needed > c.top THEN needed ELSE c.top,
         frames |-> Append([c.frames EXCEPT ![Depth(c)] =
                              [c.frames[Depth(c)] EXCEPT !.live = base]], frame),
         open |-> c.open]

\* Context p is what a call makes of c.
IsCalled(c, base, n, need, wanted, needed, p) ==
    /\ p \in Context /\ p.block = c.block /\ p.stack = c.stack /\ p.open = c.open
    /\ p.top = (IF needed > c.top THEN needed ELSE c.top)
    /\ Capacity(p) = Capacity(c)
    /\ Len(p.frames) = Len(c.frames) + 1 /\ Depth(p) = Depth(c) + 1
    /\ \A d \in 1 .. Len(c.frames) :
         /\ SameFrame(p.frames[d], c.frames[d])
         /\ p.frames[d].live = IF d = Depth(c) THEN base ELSE c.frames[d].live
    /\ p.frames[Len(c.frames) + 1] =
         [slots |-> <<c.block, Frame(c).slots[2] + base>>, live |-> n, need |-> need,
          dest |-> base, expected |-> wanted, callerTop |-> c.top]

LEMMA CalledIs ==
    ASSUME NEW c \in Context, FramesNested(c), NullAbove(c), Depth(c) > 0,
           NEW base \in Nat, NEW n \in Nat, NEW need \in Nat, NEW wanted \in Nat,
           NEW needed \in Nat, NEW p, p = CalledOn(c, base, n, need, wanted, needed)
    PROVE  IsCalled(c, base, n, need, wanted, needed, p)
  <1> DEFINE D == Depth(c)
             inner == [c.frames[D] EXCEPT !.live = base]
             fr == [c.frames EXCEPT ![D] = inner]
             frame == [slots |-> <<c.block, Frame(c).slots[2] + base>>, live |-> n,
                       need |-> need, dest |-> base, expected |-> wanted, callerTop |-> c.top]
             top == IF needed > c.top THEN needed ELSE c.top
             all == Append(fr, frame)
  <1>1. /\ D \in 1 .. Len(c.frames) /\ D = Len(c.frames) /\ Frame(c) = c.frames[D]
        /\ c.frames[D] \in CallFrame /\ Frame(c).slots[2] \in Nat
    BY FrameShape
  <1>2. /\ c.frames \in Seq(CallFrame) /\ c.stack \in [0 .. Capacity(c) - 1 -> Contents]
        /\ Capacity(c) \in Capacities /\ c.open \in Seq(Cell) /\ c.block \in Block /\ c.top \in Nat
    BY ContextShape
  <1>3. inner \in CallFrame /\ SameFrame(inner, c.frames[D]) /\ inner.live = base
    BY <1>1 DEF CallFrame, SameFrame
  <1>4. frame \in CallFrame
    <2>1. <<c.block, Frame(c).slots[2] + base>> \in Pointer
      <3> DEFINE at == Frame(c).slots[2]
      <3>1. at \in Nat
        BY <1>1
      <3> HIDE DEF at
      <3>2. at + base \in Nat
        BY <3>1
      <3>3. QED
        BY <1>2, <3>2 DEF Pointer, at
    <2>2. QED
      BY <1>2, <2>1 DEF CallFrame
  <1> HIDE DEF inner, frame
  <1>5. fr \in Seq(CallFrame) /\ Len(fr) = Len(c.frames) /\ fr[D] = inner
        /\ \A d \in 1 .. Len(c.frames) : d # D => fr[d] = c.frames[d]
    BY <1>1, <1>2, <1>3
  <1> HIDE DEF fr
  <1>6. all \in Seq(CallFrame) /\ Len(all) = Len(c.frames) + 1
        /\ all[Len(c.frames) + 1] = frame
        /\ \A d \in 1 .. Len(c.frames) : all[d] = fr[d]
    BY <1>4, <1>5, AppendProperties
  <1>7. top \in Nat
    BY <1>2
  <1> HIDE DEF all, top
  <1>8. p = [block |-> c.block, stack |-> c.stack, top |-> top, frames |-> all, open |-> c.open]
    BY DEF CalledOn, all, fr, inner, frame, top
  <1>9. /\ p \in Context /\ Capacity(p) = Capacity(c) /\ p.block = c.block /\ p.stack = c.stack
        /\ p.top = top /\ p.frames = all /\ p.open = c.open
    <2>1. all \in Seq(CallFrame)
      BY <1>6
    <2>2. QED
      BY <1>2, <1>7, <1>8, <2>1, ContextMade
  <1>10. ASSUME NEW d \in 1 .. Len(c.frames)
         PROVE  /\ SameFrame(p.frames[d], c.frames[d])
                /\ p.frames[d].live = IF d = D THEN base ELSE c.frames[d].live
    BY <1>3, <1>5, <1>6, <1>9 DEF SameFrame
  <1>11. Depth(p) = D + 1
    BY <1>1, <1>6, <1>9 DEF Depth
  <1>12. p.frames[Len(c.frames) + 1] = frame /\ Len(p.frames) = Len(c.frames) + 1
    BY <1>6, <1>9
  <1>13. QED
    BY <1>9, <1>10, <1>11, <1>12 DEF top, frame, IsCalled

LEMMA CalledKeeps ==
    ASSUME NEW c \in Context, NEW ups, ContextOK(c, ups), Depth(c) > 0,
           NEW base \in Nat, base >= 1, NEW n \in Nat, n >= 1, Live(c) = base + n,
           NEW need \in Nat, n <= need, NEW wanted \in Nat, base + wanted <= Frame(c).need,
           NEW needed \in Nat, needed = Frame(c).slots[2] + base + need,
           needed <= MaxStack, needed <= Capacity(c),
           NEW p, p = CalledOn(c, base, n, need, wanted, needed)
    PROVE  ContextOK(p, ups)
  <1> DEFINE D == Len(c.frames)
             at == Frame(c).slots[2]
  <1>1. FramesNested(c) /\ NullAbove(c) /\ OpenSorted(c, ups)
    BY DEF ContextOK
  <1>2. /\ p \in Context /\ p.block = c.block /\ p.stack = c.stack /\ p.open = c.open
        /\ p.top = (IF needed > c.top THEN needed ELSE c.top)
        /\ Capacity(p) = Capacity(c)
        /\ Len(p.frames) = Len(c.frames) + 1 /\ Depth(p) = Depth(c) + 1
        /\ \A d \in 1 .. Len(c.frames) :
                /\ SameFrame(p.frames[d], c.frames[d])
                /\ p.frames[d].live = IF d = Depth(c) THEN base ELSE c.frames[d].live
        /\ p.frames[Len(c.frames) + 1] =
                [slots |-> <<c.block, Frame(c).slots[2] + base>>, live |-> n, need |-> need,
                 dest |-> base, expected |-> wanted, callerTop |-> c.top]
    <2>1. IsCalled(c, base, n, need, wanted, needed, p)
      BY <1>1, CalledIs
    <2>2. QED
      BY <2>1 DEF IsCalled
  <1>3. /\ Depth(c) = D /\ D \in 1 .. D /\ D \in Nat /\ Frame(c) = c.frames[D]
        /\ at \in Nat /\ Frame(c).need \in Nat /\ Live(c) = c.frames[D].live
        /\ at + Frame(c).need <= c.top /\ c.top \in Nat /\ Capacity(c) \in Nat
        /\ Frame(c).slots[1] = c.block
    BY <1>1, FrameShape, ContextShape
  <1>4. c.top <= p.top /\ needed <= p.top /\ p.top \in Nat /\ p.top <= Capacity(c)
    <2>1. c.top <= Capacity(c)
      BY <1>1 DEF NullAbove
    <2>2. p.top = (IF needed > c.top THEN needed ELSE c.top)
      BY <1>2
    <2>3. c.top \in Nat /\ Capacity(c) \in Nat
      BY <1>3
    <2>4. QED
      BY <2>1, <2>2, <2>3
  <1> HIDE DEF D, at
  <1>5. \A d \in 1 .. D :
          /\ p.frames[d].slots = c.frames[d].slots /\ p.frames[d].need = c.frames[d].need
          /\ p.frames[d].dest = c.frames[d].dest
          /\ p.frames[d].expected = c.frames[d].expected
          /\ p.frames[d].callerTop = c.frames[d].callerTop
          /\ p.frames[d].live = IF d = D THEN base ELSE c.frames[d].live
    BY <1>2, <1>3 DEF SameFrame, D
  <1>6. /\ p.frames[D + 1].slots = <<c.block, at + base>> /\ p.frames[D + 1].live = n
        /\ p.frames[D + 1].need = need /\ p.frames[D + 1].dest = base
        /\ p.frames[D + 1].expected = wanted /\ p.frames[D + 1].callerTop = c.top
    <2>1. p.frames[D + 1] =
            [slots |-> <<c.block, at + base>>, live |-> n, need |-> need,
             dest |-> base, expected |-> wanted, callerTop |-> c.top]
      BY <1>2 DEF D, at
    <2>2. QED
      BY <2>1
  <1>7. Len(p.frames) = D + 1
    BY <1>2 DEF D
  <1>8. ASSUME NEW d \in 1 .. D
        PROVE  /\ c.frames[d].slots[2] \in Nat /\ c.frames[d].need \in Nat
               /\ c.frames[d].live \in Nat /\ c.frames[d].callerTop \in Nat
               /\ c.frames[d].slots[1] = c.block /\ c.frames[d].live \in 1 .. c.frames[d].need
               /\ c.frames[d].slots[2] + c.frames[d].need <= c.top
               /\ c.frames[d].slots[2] + c.frames[d].need <= MaxStack
               /\ c.frames[d].callerTop <= c.top
               /\ d = 1 => c.frames[d].slots[2] = 0 /\ c.frames[d].callerTop = 0
    <2>1. c.frames[d] \in CallFrame
      BY ContextShape DEF D
    <2>2. c.frames[d].slots \in Pointer
      BY <2>1 DEF CallFrame
    <2>3. /\ c.frames[d].slots[2] \in Nat /\ c.frames[d].need \in Nat
          /\ c.frames[d].live \in Nat /\ c.frames[d].callerTop \in Nat
      BY <2>1, <2>2, PointerIs DEF CallFrame
    <2>4. QED
      BY <1>1, <2>3 DEF FramesNested, D
  <1>9. ASSUME NEW d \in 1 .. D + 1
        PROVE  LET f == p.frames[d] IN
                /\ f.slots[1] = p.block /\ f.live \in 1 .. f.need
                /\ f.slots[2] + f.need <= p.top /\ f.slots[2] + f.need <= MaxStack
                /\ f.callerTop <= p.top
                /\ d = 1 => f.slots[2] = 0 /\ f.callerTop = 0
    <2>1. CASE d = D + 1
      <3>1. d # 1
        BY <1>3, <2>1
      <3>2. at \in Nat /\ needed = (at + base) + need
        BY <1>3 DEF at
      <3>3. p.frames[d].slots[1] = p.block /\ p.frames[d].slots[2] = at + base
            /\ p.frames[d].live = n /\ p.frames[d].need = need
            /\ p.frames[d].callerTop = c.top
        <4>1. p.block = c.block
          BY <1>2
        <4>2. <<c.block, at + base>>[1] = c.block /\ <<c.block, at + base>>[2] = at + base
          OBVIOUS
        <4>3. QED
          BY <1>6, <2>1, <4>1, <4>2
      <3>4. n \in 1 .. need
        OBVIOUS
      <3>5. QED
        BY <1>4, <3>1, <3>2, <3>3, <3>4
    <2>2. CASE d # D + 1
      <3>1. d \in 1 .. D
        BY <1>3, <2>2
      <3>2. p.frames[d].live \in 1 .. c.frames[d].need
        <4>1. CASE d = D
          <5>1. p.frames[d].live = base /\ c.frames[d].live = base + n
            BY <1>3, <1>5, <3>1, <4>1
          <5>2. QED
            BY <1>8, <3>1, <5>1
        <4>2. CASE d # D
          BY <1>5, <1>8, <3>1, <4>2
        <4>3. QED
          BY <4>1, <4>2
      <3>3. c.frames[d].slots[2] + c.frames[d].need <= p.top /\ c.frames[d].callerTop <= p.top
        BY <1>3, <1>4, <1>8, <3>1
      <3>4. QED
        BY <1>2, <1>5, <1>8, <3>1, <3>2, <3>3
    <2>3. QED
      BY <2>1, <2>2
  <1>10. ASSUME NEW d \in 1 .. D + 1, NEW e \in 1 .. D + 1
         PROVE  LET f == p.frames[d]  g == p.frames[e] IN
                 /\ d < e => f.slots[2] + f.need <= g.callerTop /\ f.callerTop <= g.callerTop
                 /\ e = d + 1 => /\ g.slots[2] = f.slots[2] + f.live /\ g.dest = f.live
                                 /\ f.live + g.expected <= f.need
    <2>1. CASE e = D + 1 /\ d < e
      <3>1. d \in 1 .. D /\ (e = d + 1 => d = D)
        BY <1>3, <2>1
      <3>2. d = D => /\ p.frames[d].live = base /\ p.frames[d].slots[2] = at
                     /\ p.frames[d].need = Frame(c).need
        BY <1>3, <1>5, <3>1 DEF at
      <3>3. /\ p.frames[d].slots[2] + p.frames[d].need <= c.top
            /\ p.frames[d].callerTop <= c.top
        BY <1>5, <1>8, <3>1
      <3>4. QED
        BY <1>6, <2>1, <3>1, <3>2, <3>3
    <2>2. CASE e # D + 1 /\ d < e
      <3>1. d \in 1 .. D /\ e \in 1 .. D /\ d # D
        BY <1>3, <2>2
      <3>2. LET f == c.frames[d]  g == c.frames[e] IN
             /\ f.slots[2] + f.need <= g.callerTop /\ f.callerTop <= g.callerTop
             /\ e = d + 1 => /\ g.slots[2] = f.slots[2] + f.live /\ g.dest = f.live
                             /\ f.live + g.expected <= f.need
        BY <1>1, <2>2, <3>1 DEF FramesNested, D
      <3>3. QED
        BY <1>5, <3>1, <3>2
    <2>3. CASE ~(d < e)
      <3>1. e # d + 1
        BY <1>3, <2>3
      <3>2. QED
        BY <2>3, <3>1
    <2>4. QED
      BY <2>1, <2>2, <2>3
  <1>11. FramesNested(p)
    BY <1>7, <1>9, <1>10 DEF FramesNested
  <1>12. NullAbove(p)
    <2>1. DOMAIN c.stack = 0 .. Capacity(c) - 1
      BY ContextShape
    <2>2. ASSUME NEW s \in DOMAIN c.stack, s >= p.top PROVE c.stack[s] = Null
      <3>1. s >= c.top
        BY <1>3, <1>4, <2>1, <2>2
      <3>2. QED
        BY <1>1, <3>1 DEF NullAbove
    <2>3. QED
      BY <1>2, <1>4, <2>2 DEF NullAbove
  <1>13. ASSUME NEW s \in Nat, FrameSlot(c, s) PROVE FrameSlot(p, s)
    <2>1. DOMAIN c.frames = 1 .. D /\ DOMAIN p.frames = 1 .. D + 1
      BY <1>2, <1>7, ContextShape DEF D
    <2>2. PICK d \in 1 .. D :
            s \in c.frames[d].slots[2] .. c.frames[d].slots[2] + c.frames[d].need - 1
      BY <1>13, <2>1 DEF FrameSlot
    <2>3. d \in 1 .. D + 1
      BY <1>3
    <2>4. QED
      BY <1>5, <2>1, <2>2, <2>3 DEF FrameSlot
  <1>14. OpenSorted(p, ups)
    BY <1>1, <1>2, <1>13, SortedAfter
  <1>15. QED
    BY <1>11, <1>12, <1>14 DEF ContextOK
\* What a call makes of the running context with growth g
CallMade(args, wanted, need, g) ==
    LET base == Live(vm)  needed == Frame(vm).slots[2] + base + need
        values == <<Fn>> \o args
        put == Put(vm, base, values)  c == Grown(put, g)
    IN  /\ Executing /\ host' = host /\ UNCHANGED switchVars
        /\ vm \in Context /\ Depth(vm) > 0
        /\ values \in Seq(Contents) /\ Len(values) \in Nat /\ Len(values) >= 1
        /\ Len(values) <= need /\ need \in Nat /\ wanted \in Nat /\ base \in Nat /\ base >= 1
        /\ base + Len(values) <= Frame(vm).need /\ base + wanted <= Frame(vm).need
        /\ needed \in Nat /\ g \in Growths(needed) /\ GrowUpvalues(g)
        /\ put.open = vm.open /\ put.block = vm.block /\ Capacity(put) = Capacity(vm)
        /\ ContextOK(c, up') /\ FramesNested(c) /\ NullAbove(c) /\ c \in Context
        /\ c.open = vm.open /\ c.block = (IF g.moves THEN Moved(vm.block) ELSE vm.block)
        /\ Depth(c) = Depth(vm) /\ Live(c) = base + Len(values)
        /\ Frame(c).need = Frame(vm).need /\ Frame(c).slots[2] = Frame(vm).slots[2]
        /\ needed <= Capacity(c) /\ needed <= MaxStack
        /\ vm' = CalledOn(c, base, Len(values), need, wanted, needed)
        /\ IsCalled(c, base, Len(values), need, wanted, needed, vm')

LEMMA CallIs ==
    ASSUME IInv, NEW args \in Arguments, NEW wanted \in Wanted, NEW need \in Needs["called"],
           Call(args, wanted, need)
    PROVE  \E g : CallMade(args, wanted, need, g)
  <1> DEFINE base == Live(vm)
             needed == Frame(vm).slots[2] + base + need
             values == <<Fn>> \o args
             put == Put(vm, base, values)
  <1>0. /\ Executing /\ Fits(vm, 1 + Len(args)) /\ Fits(vm, wanted) /\ need > Len(args)
        /\ host' = host /\ UNCHANGED switchVars
    BY DEF Call
  <1>1. vm \in Context /\ ContextOK(vm, up) /\ FramesNested(vm) /\ NullAbove(vm) /\ Depth(vm) > 0
    BY <1>0, InvContexts, Running
  <1>2. need \in Nat /\ wanted \in Nat /\ Len(args) \in Nat /\ args \in Seq(Contents)
    BY FramesAssumption, Constants
  <1>3. values \in Seq(Contents) /\ Len(values) = 1 + Len(args)
    BY <1>2, Constants
  <1>4. /\ base \in Nat /\ base >= 1 /\ Frame(vm).slots[2] \in Nat
        /\ base + Len(values) <= Frame(vm).need /\ base + wanted <= Frame(vm).need
        /\ SlotOf(vm, base)[2] = Frame(vm).slots[2] + base
    <2>1. /\ base \in 1 .. Frame(vm).need /\ Frame(vm).slots[2] \in Nat
          /\ Frame(vm).need \in Nat
          /\ \A i \in Nat : SlotOf(vm, i) = <<vm.block, Frame(vm).slots[2] + i>>
      BY <1>1, FrameShape
    <2>2. base \in Nat /\ base >= 1
      BY <2>1
    <2>3. QED
      BY <1>0, <1>3, <2>1, <2>2 DEF Fits
  <1>5. SlotOf(vm, base)[2] + need = needed /\ needed \in Nat
    BY <1>2, <1>4
  <1>6. PICK g \in Growths(needed) :
          LET c == Grown(put, g)
              frame == [slots |-> SlotOf(c, base), live |-> 1 + Len(args), need |-> need,
                        dest |-> base, expected |-> wanted, callerTop |-> c.top]
          IN  /\ vm' = [c EXCEPT
                         !.frames = Append([@ EXCEPT ![Depth(c)].live = base], frame),
                         !.top = IF needed > @ THEN needed ELSE @]
              /\ GrowUpvalues(g)
    BY <1>5 DEF Call
  <1> HIDE DEF base, needed, values
  <1>7. /\ put \in Context /\ put.open = vm.open /\ put.block = vm.block
        /\ Capacity(put) = Capacity(vm) /\ Depth(put) = Depth(vm)
        /\ Live(put) = base + Len(values) /\ Frame(put).need = Frame(vm).need
        /\ Frame(put).slots[2] = Frame(vm).slots[2]
    <2>1. /\ put \in Context /\ put.block = vm.block /\ put.open = vm.open
          /\ Capacity(put) = Capacity(vm) /\ Depth(put) = Depth(vm)
          /\ \A d \in 1 .. Len(vm.frames) : SameFrame(put.frames[d], vm.frames[d])
          /\ \A d \in 1 .. Len(vm.frames) :
               put.frames[d].live = IF d = Depth(vm) THEN base + Len(values)
                                    ELSE vm.frames[d].live
      BY <1>1, <1>3, <1>4, PutIs DEF base
    <2>2. Depth(vm) \in 1 .. Len(vm.frames)
      BY <1>1, FrameShape
    <2>3. QED
      BY <2>1, <2>2 DEF SameFrame, Live, Frame
  <1>8. ContextOK(put, up)
    BY <1>1, <1>3, <1>4, PutKeeps DEF base
  <1> DEFINE c == Grown(put, g)
  <1> HIDE DEF put
  <1>9. /\ ContextOK(c, up') /\ FramesNested(c) /\ NullAbove(c) /\ c \in Context
        /\ c.open = vm.open /\ Depth(c) = Depth(vm)
        /\ c.block = IF g.moves THEN Moved(vm.block) ELSE vm.block
        /\ Capacity(c) >= needed /\ needed <= MaxStack
        /\ Live(c) = base + Len(values) /\ Frame(c).need = Frame(vm).need
        /\ Frame(c).slots[2] = Frame(vm).slots[2]
    BY <1>1, <1>5, <1>6, <1>7, <1>8, GrownOK
  <1> HIDE DEF c
  <1>10. vm' = CalledOn(c, base, Len(values), need, wanted, needed)
    <2> DEFINE frame == [slots |-> SlotOf(c, base), live |-> 1 + Len(args), need |-> need,
                         dest |-> base, expected |-> wanted, callerTop |-> c.top]
               fr == Append([c.frames EXCEPT ![Depth(c)] =
                               [c.frames[Depth(c)] EXCEPT !.live = base]], frame)
    <2>1. SlotOf(c, base) = <<c.block, Frame(c).slots[2] + base>>
      BY <1>1, <1>4, <1>9, FrameShape
    <2>2. vm' = [c EXCEPT !.frames = fr, !.top = IF needed > c.top THEN needed ELSE c.top]
      BY <1>6 DEF c
    <2>3. c = [block |-> c.block, stack |-> c.stack, top |-> c.top, frames |-> c.frames,
               open |-> c.open]
      BY <1>9, ContextFields
    <2>4. fr = Append([c.frames EXCEPT ![Depth(c)] =
                        [c.frames[Depth(c)] EXCEPT !.live = base]],
                      [slots |-> <<c.block, Frame(c).slots[2] + base>>, live |-> Len(values),
                       need |-> need, dest |-> base, expected |-> wanted, callerTop |-> c.top])
      BY <1>3, <2>1
    <2> HIDE DEF fr
    <2>5. vm' = [block |-> c.block, stack |-> c.stack,
                 top |-> IF needed > c.top THEN needed ELSE c.top, frames |-> fr,
                 open |-> c.open]
      BY <2>2, <2>3
    <2>6. QED
      BY <2>4, <2>5 DEF CalledOn
  <1>11. Depth(c) > 0 /\ Len(values) \in Nat /\ Len(values) >= 1 /\ Len(values) <= need
    BY <1>0, <1>1, <1>2, <1>3, <1>9
  <1>12. IsCalled(c, base, Len(values), need, wanted, needed, vm')
    BY <1>2, <1>4, <1>5, <1>9, <1>10, <1>11, CalledIs
  <1>13. needed <= Capacity(c)
    BY <1>5, <1>9, ContextShape
  <1>14. CallMade(args, wanted, need, g)
    BY <1>0, <1>1, <1>2, <1>3, <1>4, <1>5, <1>6, <1>7, <1>9, <1>10, <1>11, <1>12, <1>13
    DEF CallMade, needed, values, base, c, put
  <1>15. QED
    BY <1>14

LEMMA CallKeeps ==
    ASSUME IInv, NEW args \in Arguments, NEW wanted \in Wanted, NEW need \in Needs["called"],
           Call(args, wanted, need)
    PROVE  IInv'
  <1> DEFINE base == Live(vm)  needed == Frame(vm).slots[2] + base + need
             n == Len(<<Fn>> \o args)
  <1>1. PICK g : CallMade(args, wanted, need, g)
    BY CallIs
  <1> DEFINE c == Grown(Put(vm, base, <<Fn>> \o args), g)
  <1>2. /\ Executing /\ host' = host /\ UNCHANGED switchVars /\ vm \in Context /\ Depth(vm) > 0
        /\ n \in Nat /\ n >= 1 /\ n <= need /\ need \in Nat /\ wanted \in Nat
        /\ base \in Nat /\ base >= 1 /\ base + wanted <= Frame(vm).need
        /\ needed \in Nat /\ g \in Growths(needed) /\ GrowUpvalues(g)
        /\ ContextOK(c, up') /\ c \in Context
        /\ c.open = vm.open /\ c.block = (IF g.moves THEN Moved(vm.block) ELSE vm.block)
        /\ Depth(c) = Depth(vm) /\ Live(c) = base + n
        /\ Frame(c).need = Frame(vm).need /\ Frame(c).slots[2] = Frame(vm).slots[2]
        /\ needed <= Capacity(c) /\ needed <= MaxStack
        /\ vm' = CalledOn(c, base, n, need, wanted, needed)
        /\ IsCalled(c, base, n, need, wanted, needed, vm')
    BY <1>1 DEF CallMade
  <1> HIDE DEF c, n, base
  <1>3. Depth(c) > 0 /\ base + wanted <= Frame(c).need
        /\ needed = Frame(c).slots[2] + base + need
    BY <1>2
  <1> HIDE DEF needed
  <1>4. ContextOK(vm', up')
    BY <1>2, <1>3, CalledKeeps
  <1>5. /\ vm' \in Context /\ vm'.block = c.block /\ vm'.open = c.open
        /\ Depth(vm') = Depth(vm) + 1
    BY <1>2 DEF IsCalled
  <1>6. Depth(vm') > 0
    BY <1>2, <1>5, ContextShape DEF Depth
  <1>7. QED
    BY <1>2, <1>4, <1>5, <1>6, GrownStep DEF Executing

\* A closure starts on a stack that nothing is on.
StartedOn(c, need) == [Started(c, need) EXCEPT !.open = <<>>]

LEMMA StartedKeeps ==
    ASSUME NEW c \in Context, NullAbove(c), c.top = 0, NEW ups,
           NEW need \in Nat \ {0}, need <= Capacity(c), need <= MaxStack,
           NEW p, p = StartedOn(c, need)
    PROVE  /\ p \in Context /\ ContextOK(p, ups) /\ p.block = c.block /\ p.open = <<>>
           /\ Depth(p) = 1
  <1> DEFINE st == [Cleared(c.stack, 0, need) EXCEPT ![0] = Fn]
             frame == [slots |-> <<c.block, 0>>, live |-> 1, need |-> need,
                       dest |-> 0, expected |-> 1, callerTop |-> 0]
  <1>1. /\ c.stack \in [0 .. Capacity(c) - 1 -> Contents] /\ Capacity(c) \in Capacities
        /\ Capacity(c) \in Nat /\ c.block \in Block
    BY ContextShape
  <1>2. /\ st \in [0 .. Capacity(c) - 1 -> Contents]
        /\ \A s \in 0 .. Capacity(c) - 1 : s >= need => st[s] = Null
    <2>1. ASSUME NEW s \in 0 .. Capacity(c) - 1
          PROVE  /\ Cleared(c.stack, 0, need)[s] \in Contents
                 /\ Cleared(c.stack, 0, need)[s] = Null
      <3>1. c.stack[s] = Null
        BY <1>1 DEF NullAbove
      <3>2. QED
        BY <1>1, <3>1, Constants DEF Cleared
    <2>2. DOMAIN Cleared(c.stack, 0, need) = 0 .. Capacity(c) - 1
      BY <1>1 DEF Cleared
    <2> DEFINE cl == Cleared(c.stack, 0, need)
    <2>3. cl \in [0 .. Capacity(c) - 1 -> Contents]
      <3>1. cl = [s \in 0 .. Capacity(c) - 1 |-> cl[s]]
        BY <2>2 DEF Cleared
      <3> HIDE DEF cl
      <3>2. \A s \in 0 .. Capacity(c) - 1 : cl[s] \in Contents
        BY <2>1 DEF cl
      <3>3. QED
        BY <3>1, <3>2
    <2>4. st = [cl EXCEPT ![0] = Fn] /\ \A s \in 0 .. Capacity(c) - 1 : cl[s] = Null
      BY <2>1
    <2> HIDE DEF cl, st
    <2>5. st \in [0 .. Capacity(c) - 1 -> Contents]
      BY <2>3, <2>4, Constants
    <2>6. ASSUME NEW s \in 0 .. Capacity(c) - 1, s >= need PROVE st[s] = Null
      <3>1. s # 0
        BY <2>6
      <3>2. st[s] = cl[s]
        BY <2>3, <2>4, <3>1
      <3>3. QED
        BY <2>4, <3>2
    <2>7. QED
      BY <2>5, <2>6
  <1>3. frame \in CallFrame
    <2>1. <<c.block, 0>> \in Pointer
      BY <1>1 DEF Pointer
    <2>2. QED
      BY <2>1 DEF CallFrame
  <1> HIDE DEF st, frame
  <1>4. <<frame>> \in Seq(CallFrame) /\ <<>> \in Seq(Cell) /\ Len(<<frame>>) = 1
        /\ need \in Nat
    BY <1>3
  <1>5. p = [block |-> c.block, stack |-> st, top |-> need, frames |-> <<frame>>, open |-> <<>>]
    <2>1. c = [block |-> c.block, stack |-> c.stack, top |-> c.top, frames |-> c.frames,
               open |-> c.open]
      BY ContextFields
    <2>2. Started(c, need) = [c EXCEPT !.stack = st, !.top = need, !.frames = <<frame>>]
      BY DEF Started, st, frame
    <2>3. Started(c, need) = [block |-> c.block, stack |-> st, top |-> need,
                              frames |-> <<frame>>, open |-> c.open]
      BY <2>1, <2>2
    <2>4. QED
      BY <2>3 DEF StartedOn
  <1>6. /\ p \in Context /\ Capacity(p) = Capacity(c) /\ p.block = c.block /\ p.stack = st
        /\ p.top = need /\ p.frames = <<frame>> /\ p.open = <<>>
    <2> DEFINE f == <<frame>>
               o == <<>>
    <2>1. f \in Seq(CallFrame) /\ o \in Seq(Cell)
          /\ p = [block |-> c.block, stack |-> st, top |-> need, frames |-> f, open |-> o]
      BY <1>4, <1>5
    <2> HIDE DEF f, o
    <2>2. /\ p \in Context /\ Capacity(p) = Capacity(c) /\ p.block = c.block /\ p.stack = st
          /\ p.top = need /\ p.frames = f /\ p.open = o
      <3>1. st \in [0 .. Capacity(c) - 1 -> Contents] /\ need \in Nat
        BY <1>2
      <3>2. QED
        BY <1>1, <2>1, <3>1, ContextMade
    <2>3. QED
      BY <2>2 DEF f, o
  <1>7. FramesNested(p)
    <2>0. <<frame>>[1] = frame
      OBVIOUS
    <2>1. Len(p.frames) = 1 /\ p.frames[1] = frame
      BY <1>4, <1>6, <2>0
    <2>2. \A d \in 1 .. 1 : d = 1
      OBVIOUS
    <2>3. 1 \in 1 .. need
      OBVIOUS
    <2>4. QED
      BY <1>6, <2>1, <2>2, <2>3 DEF FramesNested, frame
  <1>8. NullAbove(p)
    BY <1>1, <1>2, <1>6 DEF NullAbove
  <1>9. OpenSorted(p, ups)
    BY <1>6 DEF OpenSorted
  <1>10. QED
    BY <1>4, <1>6, <1>7, <1>8, <1>9 DEF ContextOK, Depth

\* What the host's run of a closure makes of the stack with growth g
RunMade(need, g) ==
    LET c == Grown(vm, g) IN
    /\ host # "in" /\ host' = "in" /\ UNCHANGED switchVars
    /\ vm \in Context /\ vm.frames = <<>> /\ vm.open = <<>>
    /\ need \in Nat \ {0} /\ need \in Nat /\ g \in Growths(need) /\ GrowUpvalues(g)
    /\ NullAbove(c) /\ c \in Context /\ c.top = 0
    /\ c.block = (IF g.moves THEN Moved(vm.block) ELSE vm.block)
    /\ need <= Capacity(c) /\ need <= MaxStack
    /\ vm' = StartedOn(c, need)

LEMMA RunIs ==
    ASSUME IInv, NEW need \in Needs["run"], Run(need)
    PROVE  \E g : RunMade(need, g)
  <1>1. host # "in" /\ host' = "in" /\ UNCHANGED switchVars
    BY DEF Run
  <1>2. /\ vm \in Context /\ ContextOK(vm, up)
        /\ vm.frames = <<>> /\ vm.open = <<>> /\ vm.top = 0
    BY <1>1, InvContexts DEF IInv, Phases
  <1>3. need \in Nat \ {0} /\ need \in Nat
    BY FramesAssumption
  <1>4. PICK g \in Growths(need) : vm' = Started(Grown(vm, g), need) /\ GrowUpvalues(g)
    BY DEF Run
  <1> DEFINE c == Grown(vm, g)
  <1>5. /\ NullAbove(c) /\ c \in Context /\ c.open = <<>> /\ c.top = 0
        /\ c.block = IF g.moves THEN Moved(vm.block) ELSE vm.block
        /\ Capacity(c) >= need /\ need <= MaxStack
    BY <1>2, <1>3, <1>4, GrownOK
  <1> HIDE DEF c
  <1>6. need <= Capacity(c)
    BY <1>3, <1>5, ContextShape
  <1>7. vm' = StartedOn(c, need)
    <2>1. vm' = Started(c, need)
      BY <1>4 DEF c
    <2>2. c = [block |-> c.block, stack |-> c.stack, top |-> c.top, frames |-> c.frames,
               open |-> c.open]
      BY <1>5, ContextFields
    <2> DEFINE st == [Cleared(c.stack, 0, need) EXCEPT ![0] = Fn]
               fr == <<[slots |-> <<c.block, 0>>, live |-> 1, need |-> need,
                        dest |-> 0, expected |-> 1, callerTop |-> 0]>>
    <2>3. Started(c, need) = [c EXCEPT !.stack = st, !.top = need, !.frames = fr]
      BY DEF Started
    <2> HIDE DEF st, fr
    <2>4. Started(c, need) = [block |-> c.block, stack |-> st, top |-> need,
                              frames |-> fr, open |-> c.open]
      BY <2>2, <2>3
    <2>5. [Started(c, need) EXCEPT !.open = <<>>] = Started(c, need)
      BY <1>5, <2>4
    <2>6. QED
      BY <2>1, <2>5 DEF StartedOn
  <1>8. RunMade(need, g)
    BY <1>1, <1>2, <1>3, <1>4, <1>5, <1>6, <1>7 DEF RunMade, c
  <1>9. QED
    BY <1>8

LEMMA RunKeeps ==
    ASSUME IInv, NEW need \in Needs["run"], Run(need)
    PROVE  IInv'
  <1>1. PICK g : RunMade(need, g)
    BY RunIs
  <1> DEFINE c == Grown(vm, g)
  <1>2. /\ host # "in" /\ host' = "in" /\ UNCHANGED switchVars
        /\ vm \in Context /\ vm.frames = <<>> /\ vm.open = <<>>
        /\ need \in Nat \ {0} /\ need \in Nat /\ g \in Growths(need) /\ GrowUpvalues(g)
        /\ NullAbove(c) /\ c \in Context /\ c.top = 0
        /\ c.block = (IF g.moves THEN Moved(vm.block) ELSE vm.block)
        /\ need <= Capacity(c) /\ need <= MaxStack
        /\ vm' = StartedOn(c, need)
    BY <1>1 DEF RunMade
  <1> HIDE DEF c
  <1>3. /\ vm' \in Context /\ ContextOK(vm', up') /\ vm'.block = c.block /\ vm'.open = <<>>
        /\ Depth(vm') = 1
    BY <1>2, StartedKeeps
  <1>4. vm'.open = vm.open /\ Depth(vm') > 0
    BY <1>2, <1>3
  <1>5. QED
    BY <1>2, <1>3, <1>4, GrownStep
LEMMA Switched ==
    ASSUME IInv, Executing, host' = host, cache' = NoCache,
           vm' \in Context, ContextOK(vm', up'),
           caller' # None => caller' \in Context /\ ContextOK(caller', up'),
           co' # None => co' \in Context /\ ContextOK(co', up'),
           state' \in {"new", "running", "suspended", "dead"},
           (caller' # None) = (state' = "running"),
           (co' = None) = (state' \in {"running", "dead"}),
           expected' \in Wanted \cup {0}, up' \in [Cell -> Upvalue \cup {None}],
           BlocksApart', Phases', OpenListed'
    PROVE  IInv'
  <1>1. \A c \in Contexts' : c \in Context /\ ContextOK(c, up')
    BY DEF Contexts
  <1>2. TypeOK'
    <2>1. \A c \in Contexts' : /\ c \in ContextOn({c.stack})
                               /\ \E n \in Capacities : c.stack \in [0 .. n - 1 -> Contents]
      BY <1>1, ContextTyped
    <2>2. vm' # None /\ cache' \in [0 .. MaxStack - 1 -> Cell \cup {None}]
      BY ContextTyped DEF NoCache
    <2>3. host' \in {"in", "out", "between"}
      BY DEF Executing
    <2>4. QED
      BY <2>1, <2>2, <2>3 DEF TypeOK
  <1>3. CacheExact'
    BY DEF CacheExact, NoCache
  <1>4. QED
    BY <1>1, <1>2, <1>3 DEF IInv

LEMMA ResumeKeeps ==
    ASSUME IInv, NEW n \in Wanted, NEW need \in Needs["co"], Resume(n, need)
    PROVE  IInv'
  <1>0. /\ Executing /\ host' = host /\ cache' = NoCache /\ caller = None /\ Fits(vm, n)
        /\ caller' = vm /\ expected' = n /\ co' = None /\ state' = "running" /\ up' = up
        /\ state \in {"new", "suspended"}
    BY DEF Resume
  <1>1. /\ vm \in Context /\ ContextOK(vm, up) /\ Depth(vm) > 0
        /\ up \in [Cell -> Upvalue \cup {None}]
    BY <1>0, InvContexts, Running
  <1>2. co # None
    BY <1>0 DEF IInv, TypeOK
  <1>3. co \in Context /\ ContextOK(co, up) /\ NullAbove(co)
    BY <1>2, InvContexts DEF ContextOK
  <1>4. vm' \in Context /\ ContextOK(vm', up) /\ vm'.block = co.block /\ vm'.open = co.open
        /\ Depth(vm') > 0
    <2>1. CASE state = "new"
      <3>1. vm' = StartedOn(co, need)
        BY <2>1 DEF Resume, StartedOn
      <3>2. co.top = 0 /\ co.open = <<>> /\ Capacity(co) = CoCap
        BY <2>1 DEF IInv, Phases
      <3>3. need \in Nat \ {0} /\ need <= Capacity(co) /\ need <= MaxStack
        BY <3>2, FramesAssumption
      <3>4. /\ vm' \in Context /\ ContextOK(vm', up) /\ vm'.block = co.block /\ vm'.open = <<>>
            /\ Depth(vm') = 1
        BY <1>3, <3>1, <3>2, <3>3, StartedKeeps
      <3>5. QED
        BY <3>2, <3>4
    <2>2. CASE state = "suspended"
      <3>1. vm' = co
        BY <2>2 DEF Resume
      <3>2. Depth(co) > 0
        BY <2>2 DEF IInv, Phases
      <3>3. QED
        BY <1>3, <3>1, <3>2
    <2>3. QED
      BY <1>0, <2>1, <2>2
  <1>5. BlocksApart'
    <2>1. vm # None
      BY <1>1, ContextTyped
    <2>2. vm.block[1] = "main" /\ co.block[1] = "co"
      BY <1>0, <1>2 DEF IInv, BlocksApart
    <2>3. QED
      BY <1>0, <1>4, <2>1, <2>2 DEF BlocksApart
  <1>6. Phases'
    BY <1>0, <1>1, <1>4 DEF Phases, Executing
  <1>7. OpenListed'
    <2> SUFFICES ASSUME NEW u \in Cell, up[u] # None, up[u].location # None
                 PROVE  \E c \in Contexts' : \E k \in 1 .. Len(c.open) : c.open[k] = u
      BY <1>0 DEF OpenListed
    <2>1. PICK c \in Contexts : \E k \in 1 .. Len(c.open) : c.open[k] = u
      BY DEF IInv, OpenListed
    <2>2. \E d \in Contexts' : d.open = c.open
      <3>1. vm' # None /\ vm # None
        BY <1>1, <1>4, ContextTyped
      <3>2. QED
        BY <1>0, <1>4, <3>1 DEF Contexts
    <2>3. QED
      BY <2>1, <2>2
  <1>8. caller' # None
    BY <1>0, <1>1, ContextTyped
  <1>9. QED
    BY <1>0, <1>1, <1>4, <1>5, <1>6, <1>7, <1>8, Switched

LEMMA ProducedIs ==
    ASSUME IInv, NEW values \in Seq(Contents)
    PROVE  Produced(values) \in Seq(Contents) /\ Len(Produced(values)) = expected
  <1>1. expected \in Nat
    BY FramesAssumption DEF IInv, TypeOK
  <1>2. <<True>> \in Seq(Contents)
    BY Constants
  <1>3. QED
    BY <1>1, <1>2, StoredIs DEF Produced

\* The resumer gets its answer.
LEMMA BackIs ==
    ASSUME IInv, state = "running", NEW answer \in Seq(Contents), Len(answer) = expected,
           Back(answer), NEW ups, ContextOK(caller, ups)
    PROVE  /\ caller \in Context /\ vm' \in Context /\ ContextOK(vm', ups)
           /\ vm'.block = caller.block /\ vm'.open = caller.open /\ Depth(vm') > 0
           /\ vm'.block[1] = "main"
  <1>1. caller # None
    BY DEF IInv, TypeOK
  <1>2. /\ caller \in Context /\ Depth(caller) > 0 /\ Fits(caller, expected)
        /\ caller.block[1] = "main"
    BY <1>1, InvContexts DEF IInv, Phases, BlocksApart
  <1>3. FramesNested(caller) /\ NullAbove(caller)
    BY DEF ContextOK
  <1>4. vm' = Put(caller, Live(caller), answer) /\ Live(caller) + Len(answer) <= Frame(caller).need
    BY <1>2 DEF Back, Fits
  <1>5. ContextOK(vm', ups)
    BY <1>2, <1>4, PutKeeps
  <1>6. /\ vm' \in Context /\ vm'.block = caller.block /\ vm'.open = caller.open
        /\ Depth(vm') = Depth(caller)
    BY <1>2, <1>3, <1>4, PutIs
  <1>7. QED
    BY <1>2, <1>5, <1>6

LEMMA YieldKeeps ==
    ASSUME IInv, NEW args \in Lists, NEW n \in Wanted, Yield(args, n)
    PROVE  IInv'
  <1> DEFINE values == Stored(<<Null>>, TRUE, n)
  <1>0. /\ Executing /\ state = "running" /\ Fits(vm, n) /\ host' = host /\ up' = up
        /\ co' = Put(vm, Live(vm), values) /\ state' = "suspended"
        /\ Back(Produced(args)) /\ caller' = None /\ expected' = 0 /\ cache' = NoCache
    BY DEF Yield, Back
  <1>1. /\ vm \in Context /\ ContextOK(vm, up) /\ FramesNested(vm) /\ NullAbove(vm)
        /\ Depth(vm) > 0 /\ up \in [Cell -> Upvalue \cup {None}]
    BY <1>0, InvContexts, Running
  <1>2. caller # None /\ co = None /\ ContextOK(caller, up)
    BY <1>0, InvContexts DEF IInv, TypeOK
  <1>3. values \in Seq(Contents) /\ Len(values) = n
    <2>1. <<Null>> \in Seq(Contents) /\ n \in Nat
      BY Constants, FramesAssumption
    <2>2. QED
      BY <2>1, StoredIs
  <1>4. Live(vm) + Len(values) <= Frame(vm).need
    BY <1>0, <1>3 DEF Fits
  <1> HIDE DEF values
  <1>5. co' \in Context /\ co'.block = vm.block /\ co'.open = vm.open /\ Depth(co') = Depth(vm)
    BY <1>0, <1>1, <1>3, <1>4, PutIs
  <1>6. ContextOK(co', up)
    BY <1>0, <1>1, <1>3, <1>4, PutKeeps
  <1>7. Produced(args) \in Seq(Contents) /\ Len(Produced(args)) = expected
    BY ProducedIs, Constants
  <1>8. /\ vm' \in Context /\ ContextOK(vm', up) /\ vm'.open = caller.open /\ Depth(vm') > 0
        /\ vm'.block[1] = "main"
    BY <1>0, <1>2, <1>7, BackIs
  <1>9. vm' # None /\ co' # None
    BY <1>5, <1>8, ContextTyped
  <1>10. BlocksApart'
    BY <1>0, <1>2, <1>5, <1>8 DEF IInv, BlocksApart
  <1>11. Phases'
    BY <1>0, <1>1, <1>5, <1>8 DEF Phases, Executing
  <1>12. OpenListed'
    <2> SUFFICES ASSUME NEW u \in Cell, up[u] # None, up[u].location # None
                 PROVE  \E c \in Contexts' : \E k \in 1 .. Len(c.open) : c.open[k] = u
      BY <1>0 DEF OpenListed
    <2>1. PICK c \in Contexts : \E k \in 1 .. Len(c.open) : c.open[k] = u
      BY DEF IInv, OpenListed
    <2>2. \E d \in Contexts' : d.open = c.open
      BY <1>0, <1>2, <1>5, <1>8, <1>9 DEF Contexts
    <2>3. QED
      BY <2>1, <2>2
  <1>13. QED
    BY <1>0, <1>1, <1>5, <1>6, <1>8, <1>9, <1>10, <1>11, <1>12, Switched

\* Closing from the first register on closes all that is open.
LEMMA AllGone ==
    ASSUME IInv
    PROVE  \A u : OnList(vm, u) <=> u \in Gone(vm, 0)
  <1>1. vm \in Context /\ ContextOK(vm, up) /\ OpenSorted(vm, up)
    BY InvContexts
  <1>2. ASSUME NEW k \in 1 .. Len(vm.open) PROVE vm.open[k] \in Gone(vm, 0)
    <2>1. up[vm.open[k]].location[2] >= 0
      BY <1>1, OpenInside
    <2>2. QED
      BY <1>1, <2>1, GoneIs
  <1>3. \A u \in Gone(vm, 0) : \E k \in 1 .. Len(vm.open) : u = vm.open[k]
    BY <1>1, GoneIs
  <1>4. QED
    BY <1>2, <1>3 DEF OnList

LEMMA DieKeeps ==
    ASSUME IInv, NEW answer \in Seq(Contents), Len(answer) = expected, Die(answer)
    PROVE  IInv'
  <1>0. /\ Executing /\ state = "running" /\ host' = host /\ up' = MovedIn(vm, 0)
        /\ co' = co /\ state' = "dead"
        /\ Back(answer) /\ caller' = None /\ expected' = 0 /\ cache' = NoCache
    BY DEF Die, Back
  <1>1. /\ vm \in Context /\ ContextOK(vm, up) /\ OpenSorted(vm, up)
        /\ up \in [Cell -> Upvalue \cup {None}]
    BY InvContexts
  <1>2. /\ caller # None /\ co = None /\ caller \in Context /\ ContextOK(caller, up)
        /\ caller.block[1] # vm.block[1]
    BY <1>0, InvContexts DEF IInv, TypeOK
  <1>3. /\ up' \in [Cell -> Upvalue \cup {None}]
        /\ \A u \in Cell : u \notin Gone(vm, 0) => up'[u] = up[u]
        /\ \A u \in Gone(vm, 0) : up'[u].location = None
    BY <1>0, <1>1, MovedInIs
  <1>4. \A u : OnList(vm, u) <=> u \in Gone(vm, 0)
    BY AllGone
  <1>5. ContextOK(caller, up')
    <2>1. ASSUME NEW k \in 1 .. Len(caller.open) PROVE up'[caller.open[k]] = up[caller.open[k]]
      <3>1. caller.open[k] \in Cell /\ OnList(caller, caller.open[k])
        BY <1>2, ContextShape DEF OnList
      <3>2. ~OnList(vm, caller.open[k])
        BY <1>1, <1>2, <3>1, ListsApart DEF ContextOK
      <3>3. QED
        BY <1>3, <1>4, <3>1, <3>2
    <2>2. QED
      BY <1>2, <2>1 DEF ContextOK, OpenSorted
  <1>6. /\ vm' \in Context /\ ContextOK(vm', up') /\ vm'.open = caller.open /\ Depth(vm') > 0
        /\ vm'.block[1] = "main"
    BY <1>0, <1>5, BackIs
  <1>7. vm' # None
    BY <1>6, ContextTyped
  <1>8. BlocksApart'
    BY <1>0, <1>2, <1>6 DEF BlocksApart
  <1>9. Phases'
    BY <1>0, <1>6 DEF Phases, Executing
  <1>10. OpenListed'
    <2> SUFFICES ASSUME NEW u \in Cell, up'[u] # None, up'[u].location # None
                 PROVE  \E c \in Contexts' : \E k \in 1 .. Len(c.open) : c.open[k] = u
      BY DEF OpenListed
    <2>1. ~OnList(vm, u) /\ up'[u] = up[u]
      BY <1>3, <1>4
    <2>2. PICK c \in Contexts : \E k \in 1 .. Len(c.open) : c.open[k] = u
      BY <2>1 DEF IInv, OpenListed
    <2>3. c = caller
      BY <1>2, <2>1, <2>2 DEF Contexts, OnList
    <2>4. QED
      BY <1>6, <1>7, <2>2, <2>3 DEF Contexts
  <1>11. QED
    BY <1>0, <1>2, <1>3, <1>6, <1>8, <1>9, <1>10, Switched

\* What is returned is in registers of the frame.
LEMMA ValuesIs ==
    ASSUME IInv, NEW i \in 1 .. MaxStack, NEW count \in 0 .. 2, Returns(i, count)
    PROVE  Values(i, count) \in Seq(Contents) /\ Len(Values(i, count)) = count
  <1>1. vm \in Context /\ FramesNested(vm) /\ NullAbove(vm) /\ Depth(vm) > 0
    BY InvContexts, Running DEF Returns
  <1>2. /\ Live(vm) \in 1 .. Frame(vm).need /\ Frame(vm).need \in Nat
        /\ Frame(vm).slots[2] \in Nat
        /\ Frame(vm).slots[2] + Frame(vm).need <= Capacity(vm) /\ Capacity(vm) \in Nat
        /\ vm.stack \in [0 .. Capacity(vm) - 1 -> Contents]
        /\ \A j \in Nat : SlotOf(vm, j) = <<vm.block, Frame(vm).slots[2] + j>>
    BY <1>1, FrameShape, ContextShape
  <1>3. i \in Nat /\ count \in Nat /\ i >= 1 /\ i + count <= Live(vm)
    BY FramesAssumption DEF Returns
  <1>4. ASSUME NEW k \in 1 .. count PROVE R(vm, i + k - 1) \in Contents
    <2> DEFINE j == i + k - 1
               at == Frame(vm).slots[2]
               need == Frame(vm).need
               live == Live(vm)
               cap == Capacity(vm)
    <2>1. j \in Nat
      BY <1>3
    <2>2. R(vm, j) = vm.stack[at + j]
      <3> HIDE DEF j
      <3>1. SlotOf(vm, j)[2] = at + j
        BY <1>2, <2>1
      <3> HIDE DEF at
      <3>2. QED
        BY <3>1 DEF R
    <2>3. at + j \in 0 .. cap - 1
      <3>1. /\ at \in Nat /\ need \in Nat /\ live \in 1 .. need /\ at + need <= cap
            /\ cap \in Nat /\ i + count <= live
        BY <1>2, <1>3
      <3> HIDE DEF at, need, live, cap
      <3>2. QED
        BY <1>3, <3>1
    <2> HIDE DEF j, at, cap
    <2>4. vm.stack[at + j] \in Contents
      BY <1>2, <2>3 DEF cap
    <2>5. QED
      BY <2>2, <2>4 DEF j
  <1>5. QED
    BY <1>3, <1>4 DEF Values

LEMMA CompleteKeeps ==
    ASSUME IInv, NEW i \in 1 .. MaxStack, NEW count \in 0 .. 2, Complete(i, count)
    PROVE  IInv'
  BY ValuesIs, ProducedIs, DieKeeps DEF Complete

LEMMA BreakKeeps ==
    ASSUME IInv, Break
    PROVE  IInv'
  <1>1. expected \in Nat /\ <<Err>> \in Seq(Contents)
    BY FramesAssumption, Constants DEF IInv, TypeOK
  <1>2. QED
    BY <1>1, StoredIs, DieKeeps DEF Break
\* A frame is popped: its registers, and what is above them, are free again.
LEMMA PoppedIs ==
    ASSUME IInv, Depth(vm) > 0
    PROVE  /\ Popped \in Context /\ Popped.block = vm.block /\ Frame(vm).slots[2] \in Nat
           /\ Popped.open = Closed(vm, Frame(vm).slots[2]).open
           /\ Popped.top = Frame(vm).callerTop
           /\ FramesNested(Popped) /\ NullAbove(Popped)
           /\ Len(Popped.frames) = Depth(vm) - 1 /\ Depth(Popped) = Depth(vm) - 1
           /\ \A d \in 1 .. Depth(vm) - 1 : Popped.frames[d] = vm.frames[d]
           /\ \A t \in Nat : t < Frame(vm).slots[2] /\ FrameSlot(vm, t) => FrameSlot(Popped, t)
           /\ \A t \in Nat : t < Frame(vm).callerTop => Popped.stack[t] = vm.stack[t]
  <1> DEFINE frame == Frame(vm)
             s == frame.slots[2]
             D == Depth(vm)
             q == Closed(vm, s)
             low == frame.callerTop
             fr == SubSeq(vm.frames, 1, D - 1)
             st == Cleared(vm.stack, low, vm.top)
  <1>1. vm \in Context /\ FramesNested(vm) /\ NullAbove(vm) /\ OpenSorted(vm, up)
    BY InvContexts
  <1>2. /\ D = Len(vm.frames) /\ D \in 1 .. Len(vm.frames) /\ frame = vm.frames[D]
        /\ frame \in CallFrame /\ s \in Nat /\ Len(vm.frames) \in Nat
    BY <1>1, FrameShape, ContextShape
  <1>3. low \in Nat /\ low <= vm.top
    BY <1>1, <1>2 DEF CallFrame, FramesNested
  <1>4. /\ vm.frames \in Seq(CallFrame) /\ vm.stack \in [0 .. Capacity(vm) - 1 -> Contents]
        /\ Capacity(vm) \in Capacities /\ Capacity(vm) \in Nat /\ vm.block \in Block
        /\ vm.top \in Nat /\ DOMAIN vm.frames = 1 .. Len(vm.frames)
    BY <1>1, ContextShape
  <1>5. /\ q \in Context /\ q.block = vm.block /\ q.stack = vm.stack /\ q.top = vm.top
        /\ q.frames = vm.frames /\ q.open \in Seq(Cell)
    <2> HIDE DEF s
    <2>1. q \in Context /\ q.block = vm.block /\ q.stack = vm.stack /\ q.top = vm.top
          /\ q.frames = vm.frames
      BY <1>1, <1>2, ClosedIs
    <2>2. QED
      BY <2>1, ContextShape
  <1>6. Popped = [q EXCEPT !.frames = fr, !.stack = st, !.top = low]
    BY <1>5 DEF Popped
  <1> HIDE DEF q, s, frame, low
  <1>7. /\ fr \in Seq(CallFrame) /\ Len(fr) = D - 1
        /\ \A d \in 1 .. D - 1 : fr[d] = vm.frames[d]
    BY <1>2, <1>4
  <1>8. /\ st \in [0 .. Capacity(vm) - 1 -> Contents]
        /\ \A t \in 0 .. Capacity(vm) - 1 : t >= low => st[t] = Null
        /\ \A t \in Nat : t < low => st[t] = vm.stack[t]
    <2>1. DOMAIN vm.stack = 0 .. Capacity(vm) - 1
      BY <1>4
    <2>2. ASSUME NEW t \in 0 .. Capacity(vm) - 1
          PROVE  (IF t \in low .. vm.top - 1 THEN Null ELSE vm.stack[t]) \in Contents
      BY <1>4, Constants
    <2>3. st \in [0 .. Capacity(vm) - 1 -> Contents]
      BY <2>1, <2>2 DEF Cleared
    <2>4. ASSUME NEW t \in 0 .. Capacity(vm) - 1, t >= low PROVE st[t] = Null
      <3>1. st[t] = IF t \in low .. vm.top - 1 THEN Null ELSE vm.stack[t]
        BY <2>1 DEF Cleared
      <3>2. CASE t >= vm.top
        <4>1. vm.stack[t] = Null
          BY <1>1, <2>1, <3>2 DEF NullAbove
        <4>2. QED
          BY <3>1, <4>1
      <3>3. CASE ~(t >= vm.top)
        <4>1. t \in low .. vm.top - 1
          BY <1>3, <1>4, <2>4, <3>3
        <4>2. QED
          BY <3>1, <4>1
      <3>4. QED
        BY <3>2, <3>3
    <2>5. ASSUME NEW t \in Nat, t < low PROVE st[t] = vm.stack[t]
      <3>1. vm.top <= Capacity(vm)
        BY <1>1 DEF NullAbove
      <3>2. t \in 0 .. Capacity(vm) - 1 /\ t \notin low .. vm.top - 1
        BY <1>3, <1>4, <2>5, <3>1
      <3>3. st[t] = IF t \in low .. vm.top - 1 THEN Null ELSE vm.stack[t]
        BY <2>1, <3>2 DEF Cleared
      <3>4. QED
        BY <3>2, <3>3
    <2>6. QED
      BY <2>3, <2>4, <2>5
  <1> HIDE DEF fr, st, D
  <1>9. Popped = [block |-> vm.block, stack |-> st, top |-> low, frames |-> fr, open |-> q.open]
    <2>1. q = [block |-> q.block, stack |-> q.stack, top |-> q.top,
               frames |-> q.frames, open |-> q.open]
      BY <1>5, ContextFields
    <2>2. Popped = [block |-> q.block, stack |-> st, top |-> low, frames |-> fr,
                    open |-> q.open]
      BY <1>6, <2>1
    <2>3. QED
      BY <1>5, <2>2
  <1>10. /\ Popped \in Context /\ Capacity(Popped) = Capacity(vm) /\ Popped.block = vm.block
         /\ Popped.stack = st /\ Popped.top = low /\ Popped.frames = fr
         /\ Popped.open = q.open
    <2>1. st \in [0 .. Capacity(vm) - 1 -> Contents] /\ fr \in Seq(CallFrame) /\ low \in Nat
          /\ q.open \in Seq(Cell)
      BY <1>3, <1>5, <1>7, <1>8
    <2> DEFINE b == vm.block
               m == Capacity(vm)
               o == q.open
               p == Popped
    <2>2. /\ b \in Block /\ m \in Capacities /\ st \in [0 .. m - 1 -> Contents] /\ o \in Seq(Cell)
          /\ p = [block |-> b, stack |-> st, top |-> low, frames |-> fr, open |-> o]
      BY <1>4, <1>9, <2>1
    <2> HIDE DEF b, m, o, p
    <2>3. /\ p \in Context /\ Capacity(p) = m /\ p.block = b
          /\ p.stack = st /\ p.top = low /\ p.frames = fr /\ p.open = o
      BY <2>1, <2>2, ContextMade
    <2>4. QED
      BY <2>3 DEF b, m, o, p
  <1>11. Len(Popped.frames) = D - 1 /\ Depth(Popped) = D - 1
         /\ \A d \in 1 .. D - 1 : Popped.frames[d] = vm.frames[d]
    BY <1>7, <1>10 DEF Depth
  <1>12. ASSUME NEW d \in 1 .. D - 1
         PROVE  /\ vm.frames[d].slots[2] + vm.frames[d].need <= low
                /\ vm.frames[d].callerTop <= low
    <2>1. d \in 1 .. Len(vm.frames) /\ d < D
      BY <1>2
    <2>2. QED
      BY <1>1, <1>2, <2>1 DEF FramesNested, low
  <1>13. FramesNested(Popped)
    <2>1. ASSUME NEW d \in 1 .. D - 1
          PROVE  LET f == Popped.frames[d] IN
                  /\ f.slots[1] = Popped.block /\ f.live \in 1 .. f.need
                  /\ f.slots[2] + f.need <= Popped.top /\ f.slots[2] + f.need <= MaxStack
                  /\ f.callerTop <= Popped.top
                  /\ d = 1 => f.slots[2] = 0 /\ f.callerTop = 0
      <3>1. d \in 1 .. Len(vm.frames) /\ Popped.frames[d] = vm.frames[d]
        BY <1>2, <1>11
      <3>2. QED
        BY <1>1, <1>10, <1>12, <3>1 DEF FramesNested
    <2>2. ASSUME NEW d \in 1 .. D - 1, NEW e \in 1 .. D - 1
          PROVE  LET f == Popped.frames[d]  g == Popped.frames[e] IN
                  /\ d < e => f.slots[2] + f.need <= g.callerTop /\ f.callerTop <= g.callerTop
                  /\ e = d + 1 => /\ g.slots[2] = f.slots[2] + f.live /\ g.dest = f.live
                                  /\ f.live + g.expected <= f.need
      <3>1. /\ d \in 1 .. Len(vm.frames) /\ Popped.frames[d] = vm.frames[d]
            /\ e \in 1 .. Len(vm.frames) /\ Popped.frames[e] = vm.frames[e]
        BY <1>2, <1>11
      <3>2. QED
        BY <1>1, <3>1 DEF FramesNested
    <2>3. QED
      BY <1>11, <2>1, <2>2 DEF FramesNested
  <1>14. NullAbove(Popped)
    <2>1. low <= Capacity(vm)
      BY <1>1, <1>3, <1>4 DEF NullAbove
    <2>2. DOMAIN st = 0 .. Capacity(vm) - 1
      BY <1>8
    <2>3. QED
      BY <1>8, <1>10, <2>1, <2>2 DEF NullAbove
  <1>15. ASSUME NEW t \in Nat, t < s, FrameSlot(vm, t) PROVE FrameSlot(Popped, t)
    <2>1. PICK d \in 1 .. Len(vm.frames) :
            t \in vm.frames[d].slots[2] .. vm.frames[d].slots[2] + vm.frames[d].need - 1
      BY <1>4, <1>15 DEF FrameSlot
    <2>2. d # D
      BY <1>2, <1>15, <2>1 DEF s
    <2>3. d \in 1 .. D - 1
      BY <1>2, <2>2
    <2>4. d \in DOMAIN Popped.frames /\ Popped.frames[d] = vm.frames[d]
      BY <1>10, <1>11, <2>3, ContextShape
    <2>5. QED
      BY <2>1, <2>4 DEF FrameSlot
  <1>16. \A t \in Nat : t < low => Popped.stack[t] = vm.stack[t]
    BY <1>8, <1>10
  <1>17. QED
    BY <1>2, <1>10, <1>11, <1>13, <1>14, <1>15, <1>16 DEF s, D, q, frame, low

\* What a return to a calling frame does
ReturnMade(i, count) ==
    LET frame == Frame(vm)  s == frame.slots[2]  D == Depth(vm)  p == Popped
        values == Stored(Values(i, count), FALSE, frame.expected)
    IN  /\ Executing /\ host' = host /\ UNCHANGED switchVars /\ D > 1 /\ Returns(i, count)
        /\ CloseUpvalues(vm, s) /\ s \in Nat
        /\ D = Len(vm.frames) /\ D \in 1 .. Len(vm.frames) /\ frame = vm.frames[D]
        /\ frame \in CallFrame
        /\ p \in Context /\ p.block = vm.block /\ p.open = Closed(vm, s).open
        /\ FramesNested(p) /\ NullAbove(p) /\ ContextOK(p, up')
        /\ Len(p.frames) = D - 1 /\ Depth(p) = D - 1 /\ Depth(p) > 0
        /\ \A d \in 1 .. D - 1 : p.frames[d] = vm.frames[d]
        /\ \A t \in Nat : t < s /\ FrameSlot(vm, t) => FrameSlot(p, t)
        /\ p.top = frame.callerTop
        /\ \A t \in Nat : t < frame.callerTop => p.stack[t] = vm.stack[t]
        /\ values \in Seq(Contents) /\ Len(values) = frame.expected
        /\ vm' = Put(p, Live(p), values) /\ Live(p) + Len(values) <= Frame(p).need

LEMMA ReturnIs ==
    ASSUME IInv, NEW i \in 1 .. MaxStack, NEW count \in 0 .. 2, Return(i, count)
    PROVE  ReturnMade(i, count)
  <1> DEFINE frame == Frame(vm)
             s == frame.slots[2]
             D == Depth(vm)
             values == Stored(Values(i, count), FALSE, frame.expected)
             p == Popped
  <1>0. /\ Executing /\ host' = host /\ UNCHANGED switchVars /\ D > 1
        /\ Returns(i, count) /\ CloseUpvalues(vm, s) /\ vm' = Put(p, frame.dest, values)
    BY DEF Return, Returns
  <1>1. /\ vm \in Context /\ ContextOK(vm, up) /\ FramesNested(vm) /\ NullAbove(vm) /\ D > 0
        /\ up \in [Cell -> Upvalue \cup {None}]
    BY <1>0, InvContexts, Running
  <1>2. /\ D = Len(vm.frames) /\ D \in 1 .. Len(vm.frames) /\ frame = vm.frames[D]
        /\ frame \in CallFrame /\ Len(vm.frames) \in Nat
    BY <1>1, FrameShape, ContextShape
  <1>3. /\ p \in Context /\ p.block = vm.block /\ s \in Nat /\ p.open = Closed(vm, s).open
        /\ FramesNested(p) /\ NullAbove(p) /\ Len(p.frames) = D - 1 /\ Depth(p) = D - 1
        /\ \A d \in 1 .. D - 1 : p.frames[d] = vm.frames[d]
        /\ \A t \in Nat : t < s /\ FrameSlot(vm, t) => FrameSlot(p, t)
        /\ p.top = frame.callerTop
        /\ \A t \in Nat : t < frame.callerTop => p.stack[t] = vm.stack[t]
    BY <1>1, PoppedIs
  <1> HIDE DEF p
  <1>4. Depth(p) > 0 /\ Live(p) = frame.dest /\ Live(p) + frame.expected <= Frame(p).need
    <2> DEFINE d == D - 1
    <2>1. d \in 1 .. Len(vm.frames) /\ D = d + 1 /\ d \in 1 .. D - 1
      BY <1>0, <1>2
    <2>2. LET f == vm.frames[d] IN
            frame.dest = f.live /\ f.live + frame.expected <= f.need
      BY <1>1, <1>2, <2>1 DEF FramesNested
    <2>3. Frame(p) = vm.frames[d]
      BY <1>3, <2>1 DEF Frame
    <2>4. QED
      BY <1>0, <1>2, <1>3, <2>2, <2>3 DEF Live
  <1>5. values \in Seq(Contents) /\ Len(values) = frame.expected
    <2>1. Values(i, count) \in Seq(Contents)
      BY <1>0, ValuesIs
    <2>2. frame.expected \in Nat
      BY <1>2 DEF CallFrame
    <2> HIDE DEF frame
    <2>3. QED
      BY <2>1, <2>2, StoredIs
  <1> HIDE DEF values, frame, s, D
  <1>6. vm' = Put(p, Live(p), values) /\ Live(p) + Len(values) <= Frame(p).need
    BY <1>0, <1>4, <1>5
  <1>7. OpenSorted(p, up')
    <2>1. \A k \in 1 .. Len(vm.open) :
            up[vm.open[k]].location[2] < s => MovedIn(vm, s)[vm.open[k]] = up[vm.open[k]]
      BY <1>1, <1>3, MovedInIs
    <2>2. up' = MovedIn(vm, s)
      BY <1>0 DEF CloseUpvalues
    <2>3. QED
      BY <1>1, <1>3, <2>1, <2>2, CloseKeeps
  <1>8. ContextOK(p, up')
    BY <1>3, <1>7 DEF ContextOK
  <1>9. QED
    BY <1>0, <1>2, <1>3, <1>4, <1>5, <1>6, <1>8 DEF ReturnMade, p, s, D, frame, values

LEMMA ReturnKeeps ==
    ASSUME IInv, NEW i \in 1 .. MaxStack, NEW count \in 0 .. 2, Return(i, count)
    PROVE  IInv'
  <1> DEFINE s == Frame(vm).slots[2]
             values == Stored(Values(i, count), FALSE, Frame(vm).expected)
             p == Popped
  <1>1. /\ Executing /\ host' = host /\ UNCHANGED switchVars
        /\ CloseUpvalues(vm, s) /\ s \in Nat
        /\ p \in Context /\ p.block = vm.block /\ p.open = Closed(vm, s).open
        /\ FramesNested(p) /\ NullAbove(p) /\ ContextOK(p, up') /\ Depth(p) > 0
        /\ \A t \in Nat : t < s /\ FrameSlot(vm, t) => FrameSlot(p, t)
        /\ values \in Seq(Contents)
        /\ vm' = Put(p, Live(p), values) /\ Live(p) + Len(values) <= Frame(p).need
    BY ReturnIs DEF ReturnMade
  <1> HIDE DEF p, s, values
  <1>2. ContextOK(vm', up')
    BY <1>1, PutKeeps
  <1>3. FramesNested(vm') /\ NullAbove(vm')
    BY <1>2 DEF ContextOK
  <1>4. /\ vm' \in Context /\ vm'.block = p.block /\ vm'.open = p.open
        /\ Depth(vm') = Depth(p)
    BY <1>1, PutIs
  <1>5. \A t \in Nat : FrameSlot(p, t) => FrameSlot(vm', t)
    BY <1>1, PutSlots
  <1>6. host' = "in" /\ Depth(vm') > 0
    BY <1>1, <1>4 DEF Executing
  <1>7. vm'.block = vm.block /\ vm'.open = Closed(vm, s).open
         /\ \A t \in Nat : t < s /\ FrameSlot(vm, t) => FrameSlot(vm', t)
    BY <1>1, <1>4, <1>5
  <1>8. QED
    BY <1>1, <1>3, <1>4, <1>6, <1>7, ClosedStep

LEMMA FinishKeeps ==
    ASSUME IInv, Finish
    PROVE  IInv'
  <1> DEFINE s == Frame(vm).slots[2]
  <1>0. /\ Executing /\ caller = None /\ Depth(vm) = 1 /\ CloseUpvalues(vm, s)
        /\ vm' = Popped /\ host' = "between" /\ UNCHANGED switchVars
    BY DEF Finish
  <1>1. vm \in Context /\ FramesNested(vm) /\ NullAbove(vm) /\ OpenSorted(vm, up)
    BY InvContexts
  <1>2. s = 0 /\ Frame(vm).callerTop = 0
    <2>1. Frame(vm) = vm.frames[1] /\ 1 \in 1 .. Len(vm.frames)
      BY <1>0, <1>1, FrameShape
    <2>2. QED
      BY <1>1, <2>1 DEF FramesNested
  <1>3. /\ vm' \in Context /\ vm'.block = vm.block
        /\ vm'.open = Closed(vm, s).open /\ vm'.top = Frame(vm).callerTop
        /\ FramesNested(vm') /\ NullAbove(vm') /\ Len(vm'.frames) = 0
        /\ \A t \in Nat : t < s /\ FrameSlot(vm, t) => FrameSlot(vm', t)
    BY <1>0, PoppedIs
  <1>4. vm'.frames = <<>>
    BY <1>3, ContextShape
  <1>5. vm'.open = <<>>
    <2> DEFINE n == Closing(vm, 0)
               o == Closed(vm, 0).open
    <2>1. /\ n \in 0 .. Len(vm.open) /\ Len(vm.open) \in Nat
          /\ \A k \in 1 .. Len(vm.open) : up[vm.open[k]].location[2] >= 0 <=> k <= n
      BY <1>1, ClosingIs, ContextShape
    <2>2. \A k \in 1 .. Len(vm.open) : up[vm.open[k]].location[2] >= 0
      BY <1>1, PointerIs DEF OpenSorted
    <2>3. Len(o) = Len(vm.open) - n
      BY <1>1, ClosedIs
    <2> HIDE DEF n, o
    <2>4. n = Len(vm.open)
      <3>1. CASE Len(vm.open) = 0
        BY <2>1, <3>1
      <3>2. CASE Len(vm.open) > 0
        <4>1. Len(vm.open) \in 1 .. Len(vm.open)
          BY <2>1, <3>2
        <4>2. Len(vm.open) <= n
          BY <2>1, <2>2, <4>1
        <4>3. QED
          BY <2>1, <4>2
      <3>3. QED
        BY <2>1, <3>1, <3>2
    <2>5. Len(o) = 0
      BY <2>1, <2>3, <2>4
    <2>6. vm'.open = o /\ o \in Seq(Cell)
      BY <1>2, <1>3, ContextShape DEF o
    <2>7. QED
      BY <2>5, <2>6
  <1>6. s \in Nat
    BY <1>2
  <1> HIDE DEF s
  <1>7. host' \in {"in", "out", "between"} /\ host' # "in" /\ vm'.top = 0
    BY <1>0, <1>2, <1>3
  <1>8. QED
    BY <1>0, <1>3, <1>4, <1>5, <1>6, <1>7, ClosedStep

LEMMA EndRunKeeps ==
    ASSUME IInv, EndRun
    PROVE  IInv'
  <1>0. /\ up' = MovedIn(vm, 0) /\ cache' = NoCache /\ host' = "out" /\ UNCHANGED switchVars
        /\ vm' = [vm EXCEPT !.stack = Cleared(@, 0, vm.top), !.top = 0,
                            !.frames = <<>>, !.open = <<>>]
        /\ caller = None
    BY DEF EndRun, IInv, Phases
  <1>1. /\ vm \in Context /\ ContextOK(vm, up) /\ NullAbove(vm)
        /\ up \in [Cell -> Upvalue \cup {None}]
    BY InvContexts
  <1>2. /\ up' \in [Cell -> Upvalue \cup {None}]
        /\ \A u \in Cell : u \notin Gone(vm, 0) => up'[u] = up[u]
        /\ \A u \in Gone(vm, 0) : up'[u].location = None
    BY <1>0, <1>1, MovedInIs
  <1>3. \A u : OnList(vm, u) <=> u \in Gone(vm, 0)
    BY AllGone
  <1> DEFINE st == Cleared(vm.stack, 0, vm.top)
             f == <<>>
             o == <<>>
  <1>4. /\ vm.stack \in [0 .. Capacity(vm) - 1 -> Contents] /\ Capacity(vm) \in Capacities
        /\ vm.block \in Block /\ vm.top \in Nat
    BY <1>1, ContextShape
  <1>5. st \in [0 .. Capacity(vm) - 1 -> Contents] /\ \A s \in 0 .. Capacity(vm) - 1 : st[s] = Null
    <2>1. DOMAIN vm.stack = 0 .. Capacity(vm) - 1
      BY <1>4
    <2>2. ASSUME NEW s \in 0 .. Capacity(vm) - 1
          PROVE  (IF s \in 0 .. vm.top - 1 THEN Null ELSE vm.stack[s]) = Null
      <3>1. CASE s >= vm.top
        BY <1>1, <2>1, <3>1 DEF NullAbove
      <3>2. CASE ~(s >= vm.top)
        BY <1>4, <3>2
      <3>3. QED
        BY <3>1, <3>2
    <2>3. st = [s \in 0 .. Capacity(vm) - 1 |-> Null]
      BY <2>1, <2>2 DEF Cleared
    <2>4. QED
      BY <2>3, Constants
  <1>6. vm' = [block |-> vm.block, stack |-> st, top |-> 0, frames |-> f, open |-> o]
    <2>1. vm = [block |-> vm.block, stack |-> vm.stack, top |-> vm.top,
                frames |-> vm.frames, open |-> vm.open]
      BY <1>1, ContextFields
    <2>2. vm' = [vm EXCEPT !.stack = st, !.top = 0, !.frames = f, !.open = o]
      BY <1>0
    <2> HIDE DEF st, f, o
    <2>3. QED
      BY <2>1, <2>2
  <1>7. f \in Seq(CallFrame) /\ o \in Seq(Cell) /\ 0 \in Nat
    OBVIOUS
  <1> HIDE DEF st, f, o
  <1>8. /\ vm' \in Context /\ Capacity(vm') = Capacity(vm) /\ vm'.block = vm.block
        /\ vm'.stack = st /\ vm'.top = 0 /\ vm'.frames = f /\ vm'.open = o
    <2>1. st \in [0 .. Capacity(vm) - 1 -> Contents]
      BY <1>5
    <2> DEFINE b == vm.block
               m == Capacity(vm)
               t == 0
    <2>2. /\ b \in Block /\ m \in Capacities /\ st \in [0 .. m - 1 -> Contents] /\ t \in Nat
          /\ vm' = [block |-> b, stack |-> st, top |-> t, frames |-> f, open |-> o]
      BY <1>4, <1>6, <2>1
    <2> HIDE DEF b, m, t
    <2>3. /\ vm' \in Context /\ Capacity(vm') = m /\ vm'.block = b
          /\ vm'.stack = st /\ vm'.top = t /\ vm'.frames = f /\ vm'.open = o
      BY <1>7, <2>2, ContextMade
    <2>4. QED
      BY <2>3 DEF b, m, t
  <1>9. Len(vm'.frames) = 0 /\ Len(vm'.open) = 0 /\ vm'.frames = <<>> /\ vm'.open = <<>>
    BY <1>8 DEF f, o
  <1>10. ContextOK(vm', up')
    <2>1. FramesNested(vm')
      BY <1>9 DEF FramesNested
    <2>2. NullAbove(vm')
      BY <1>1, <1>4, <1>5, <1>8, ContextShape DEF NullAbove
    <2>3. OpenSorted(vm', up')
      BY <1>9 DEF OpenSorted
    <2>4. QED
      BY <2>1, <2>2, <2>3 DEF ContextOK
  <1>11. cache' \in [0 .. MaxStack - 1 -> Cell \cup {None}] /\ CacheExact'
    BY <1>0 DEF NoCache, CacheExact
  <1>12. \A u \in Cell : up'[u] # None /\ up'[u].location # None =>
               OnList(vm', u) \/ (~OnList(vm, u) /\ up'[u] = up[u])
    BY <1>2, <1>3
  <1>13. \A u \in Cell : ~OnList(vm, u) => up'[u] = up[u]
    BY <1>2, <1>3
  <1>14. host' \in {"in", "out", "between"} /\ host' # "in" /\ vm'.block[1] = vm.block[1]
    BY <1>0, <1>8
  <1>15. QED
    BY <1>0, <1>2, <1>8, <1>9, <1>10, <1>11, <1>12, <1>13, <1>14, Stepped
-----------------------------------------------------------------------------
(***************************************************************************)
(* The invariant and what it says of the runs' properties.                 *)
(***************************************************************************)
LEMMA FreshIs ==
    ASSUME NEW name \in {"main", "co"}, NEW n \in Capacities, NEW c, c = FreshStack(name, n),
           NEW ups
    PROVE  /\ c \in Context /\ Capacity(c) = n /\ c.block[1] = name /\ ContextOK(c, ups)
           /\ c.frames = <<>> /\ c.open = <<>> /\ c.top = 0
  <1> DEFINE b == <<name, 0>>
             s == [i \in 0 .. n - 1 |-> Null]
             t == 0
             f == <<>>
             o == <<>>
  <1>1. /\ b \in Block /\ s \in [0 .. n - 1 -> Contents] /\ t \in Nat
        /\ f \in Seq(CallFrame) /\ o \in Seq(Cell)
    BY Constants DEF Block
  <1>2. c = [block |-> b, stack |-> s, top |-> t, frames |-> f, open |-> o]
    BY DEF FreshStack
  <1>3. DOMAIN s = 0 .. n - 1 /\ \A i \in DOMAIN s : s[i] = Null
    OBVIOUS
  <1> HIDE DEF b, s, t, f, o
  <1>4. /\ c \in Context /\ Capacity(c) = n /\ c.block = b
        /\ c.stack = s /\ c.top = t /\ c.frames = f /\ c.open = o
    BY <1>1, <1>2, ContextMade
  <1>5. c.frames = <<>> /\ c.open = <<>> /\ c.top = 0 /\ Len(c.frames) = 0 /\ Len(c.open) = 0
        /\ c.block[1] = name
    BY <1>4 DEF b, t, f, o
  <1>6. n \in Nat
    BY <1>4, ContextShape
  <1>7. FramesNested(c) /\ OpenSorted(c, ups)
    BY <1>5 DEF FramesNested, OpenSorted
  <1>8. NullAbove(c)
    BY <1>3, <1>4, <1>5, <1>6 DEF NullAbove
  <1>9. QED
    BY <1>4, <1>5, <1>7, <1>8 DEF ContextOK

LEMMA InitInv ==
    ASSUME Init
    PROVE  IInv
  <1>1. MainCap \in Capacities /\ CoCap \in Capacities
    BY FramesAssumption DEF Capacities
  <1>2. /\ vm \in Context /\ vm.block[1] = "main" /\ ContextOK(vm, up)
        /\ vm.frames = <<>> /\ vm.open = <<>> /\ vm.top = 0
    BY <1>1, FreshIs DEF Init
  <1>3. /\ co \in Context /\ co.block[1] = "co" /\ ContextOK(co, up) /\ Capacity(co) = CoCap
        /\ co.frames = <<>> /\ co.open = <<>> /\ co.top = 0
    BY <1>1, FreshIs DEF Init
  <1>4. /\ caller = None /\ expected = 0 /\ state = "new" /\ up = [u \in Cell |-> None]
        /\ cache = NoCache /\ host = "out"
    BY DEF Init
  <1>5. vm # None /\ co # None
    BY <1>2, <1>3, ContextTyped
  <1>6. \A c \in Contexts : c \in Context /\ ContextOK(c, up)
    BY <1>2, <1>3, <1>4 DEF Contexts
  <1>7. TypeOK
    <2>1. \A c \in Contexts : /\ c \in ContextOn({c.stack})
                              /\ \E n \in Capacities : c.stack \in [0 .. n - 1 -> Contents]
      BY <1>6, ContextTyped
    <2>2. cache \in [0 .. MaxStack - 1 -> Cell \cup {None}] /\ up \in [Cell -> Upvalue \cup {None}]
      BY <1>4 DEF NoCache
    <2>3. /\ state \in {"new", "running", "suspended", "dead"} /\ host \in {"in", "out", "between"}
          /\ expected \in Wanted \cup {0}
      BY <1>4
    <2>4. (caller # None) = (state = "running")
      BY <1>4
    <2>5. (co = None) = (state \in {"running", "dead"})
      BY <1>4, <1>5
    <2>6. QED
      BY <1>5, <2>1, <2>2, <2>3, <2>4, <2>5 DEF TypeOK
  <1>8. BlocksApart
    BY <1>2, <1>3, <1>4 DEF BlocksApart
  <1>9. Phases
    BY <1>2, <1>3, <1>4 DEF Phases
  <1>10. OpenListed
    BY <1>4 DEF OpenListed
  <1>11. CacheExact
    BY <1>4 DEF CacheExact, NoCache
  <1>12. QED
    BY <1>6, <1>7, <1>8, <1>9, <1>10, <1>11 DEF IInv

LEMMA StutterKeeps ==
    ASSUME IInv, UNCHANGED vars
    PROVE  IInv'
  <1>1. /\ vm' = vm /\ up' = up /\ cache' = cache /\ host' = host
        /\ caller' = caller /\ expected' = expected /\ co' = co /\ state' = state
    BY DEF vars, upvalueVars, switchVars
  <1>2. TypeOK'
    BY <1>1 DEF IInv, TypeOK, Contexts
  <1>3. \A c \in Contexts' : ContextOK(c, up')
    BY <1>1 DEF IInv, Contexts
  <1>4. BlocksApart' /\ Phases'
    BY <1>1 DEF IInv, BlocksApart, Phases, Depth, Fits, Live, Frame, Capacity
  <1>5. OpenListed' /\ CacheExact'
    BY <1>1 DEF IInv, OpenListed, CacheExact, Contexts
  <1>6. QED
    BY <1>2, <1>3, <1>4, <1>5 DEF IInv

LEMMA NextKeeps ==
    ASSUME IInv, Next
    PROVE  IInv'
  <1>1. CASE Straight
    BY <1>1, DeclareKeeps, AssignKeeps, EndScopeKeeps, LeaveScopeKeeps, GetUpvalKeeps, SetUpvalKeeps,
       CaptureKeeps DEF Straight
  <1>2. CASE Calls
    BY <1>2, CallKeeps, NativeKeeps DEF Calls
  <1>3. CASE Ends
    BY <1>3, ReturnKeeps, CompleteKeeps, FinishKeeps DEF Ends
  <1>4. CASE Switches
    BY <1>4, ResumeKeeps, YieldKeeps, BreakKeeps DEF Switches
  <1>5. CASE Host
    BY <1>5, EndRunKeeps, RunKeeps DEF Host
  <1>6. QED
    BY <1>1, <1>2, <1>3, <1>4, <1>5 DEF Next

LEMMA Invariance == Spec => []IInv
  <1>1. Init => IInv
    BY InitInv
  <1>2. IInv /\ [Next]_vars => IInv'
    BY NextKeeps, StutterKeeps
  <1>3. QED
    BY <1>1, <1>2, PTL DEF Spec

\* Every context is where the state of the coroutine says, and of its type,
\* whatever calls, natives, resumes and errors a script makes of the VM
\* (vm_run_closure, ensure_stack, start_coroutine_context, restore_vm_context).
THEOREM TypesKept == Spec => []TypeOK
  <1>1. IInv => TypeOK
    BY DEF IInv
  <1>2. QED
    BY <1>1, Invariance, PTL

\* After ensure_stack has moved a stack, close_upvalues has closed some of it or
\* a coroutine has been switched to, no frame and no open upvalue is left with a
\* pointer into the block given back, no upvalue is open at a register that no
\* frame has, and everything above the top that the collector scans to is null.
THEOREM StacksExact == Spec => []StackExact
  <1>1. ASSUME IInv PROVE StackExact
    <2> SUFFICES ASSUME NEW c \in Contexts
                 PROVE  /\ \A d \in DOMAIN c.frames :
                            /\ c.frames[d].slots[1] = c.block
                            /\ c.frames[d].slots[2] + c.frames[d].need <= c.top
                        /\ c.top <= Capacity(c)
                        /\ \A s \in DOMAIN c.stack : s >= c.top => c.stack[s] = Null
                        /\ \A k \in DOMAIN c.open :
                            /\ up[c.open[k]].location[1] = c.block
                            /\ FrameSlot(c, up[c.open[k]].location[2])
      BY DEF StackExact
    <2>1. c \in Context /\ ContextOK(c, up)
      BY <1>1, TypedContexts DEF IInv
    <2>2. DOMAIN c.frames = 1 .. Len(c.frames) /\ DOMAIN c.open = 1 .. Len(c.open)
      BY <2>1, ContextShape
    <2>3. \A d \in DOMAIN c.frames :
            /\ c.frames[d].slots[1] = c.block
            /\ c.frames[d].slots[2] + c.frames[d].need <= c.top
      BY <2>1, <2>2 DEF ContextOK, FramesNested
    <2>4. c.top <= Capacity(c) /\ \A s \in DOMAIN c.stack : s >= c.top => c.stack[s] = Null
      BY <2>1 DEF ContextOK, NullAbove
    <2>5. \A k \in DOMAIN c.open : /\ up[c.open[k]].location[1] = c.block
                                   /\ FrameSlot(c, up[c.open[k]].location[2])
      BY <2>1, <2>2 DEF ContextOK, OpenSorted
    <2>6. QED
      BY <2>3, <2>4, <2>5
  <1>2. QED
    BY <1>1, Invariance, PTL

\* capture_upvalue never finds in vm->upvalue_cache an upvalue that has been
\* closed, that another stack has or that points at another register: what
\* close_upvalues, ensure_stack and the switches take out of it is enough.
THEOREM CachesExact == Spec => []CacheExact
  <1>1. IInv => CacheExact
    BY DEF IInv
  <1>2. QED
    BY <1>1, Invariance, PTL

-----------------------------------------------------------------------------
(***************************************************************************)
(* What Activations sees: every step of the stacks is a step of the        *)
(* activations, the cells and the threads.                                 *)
(***************************************************************************)

\* A variable and the activations of a context, for any upvalues
VarIn(c, ups, s) ==
    IF \E k \in DOMAIN c.open : ups[c.open[k]].location = <<c.block, s>>
    THEN [cell |-> CHOOSE u \in Cell : ups[u] # None /\ ups[u].location = <<c.block, s>>]
    ELSE c.stack[s]

ActIn(c, ups) ==
    [d \in DOMAIN c.frames |->
        [vars |-> [k \in 1 .. c.frames[d].live |-> VarIn(c, ups, c.frames[d].slots[2] + k - 1)],
         want |-> c.frames[d].expected]]

Var == Contents \cup [cell : Cell]
Vars == Seq(Var)
Activation == [vars : Vars, want : Nat]
ActSeq == Seq(Activation)

\* Upvalue u is the one that is open at slot s.
At(c, ups, s, u) == OnList(c, u) /\ ups[u].location[2] = s

\* Every upvalue that points into the context's stack is on its list.
Owned(c, ups) ==
    \A u \in Cell : ups[u] # None /\ ups[u].location # None /\ ups[u].location[1] = c.block
        => OnList(c, u)

WellFormed(c, ups) == c \in Context /\ ContextOK(c, ups) /\ Owned(c, ups)

\* No variable is captured whose scope has ended.
Settled(c, ups) == \A u : OnList(c, u) => LiveSlot(c, ups[u].location[2])

\* The contexts in use, and what the cells hold
AllWell == \A c \in Contexts : WellFormed(c, up)

CellsHold ==
    \A u \in Cell :
        /\ up[u] = None => Cells[u] = None
        /\ up[u] # None => Cells[u] \in Contents
        /\ up[u] # None /\ up[u].location = None => Cells[u] = up[u].closed
        /\ \A c \in Contexts : OnList(c, u) => Cells[u] = c.stack[up[u].location[2]]

LEMMA WellFormedIs ==
    ASSUME NEW c, NEW ups, WellFormed(c, ups)
    PROVE  /\ c \in Context /\ ContextOK(c, ups) /\ FramesNested(c) /\ NullAbove(c)
           /\ OpenSorted(c, ups) /\ c # None
  BY ContextShape DEF WellFormed, ContextOK

LEMMA OnListIs ==
    ASSUME NEW c, NEW ups, WellFormed(c, ups), NEW u, OnList(c, u)
    PROVE  /\ u \in Cell /\ ups[u] # None /\ ups[u] \in Upvalue
           /\ ups[u].location # None /\ ups[u].location \in Pointer
           /\ ups[u].location = <<c.block, ups[u].location[2]>>
           /\ ups[u].location[2] \in Nat /\ FrameSlot(c, ups[u].location[2])
  <1>1. PICK k \in 1 .. Len(c.open) : c.open[k] = u
    BY DEF OnList
  <1>2. u \in Cell
    BY <1>1, ContextShape DEF WellFormed
  <1>3. /\ ups[u] \in Upvalue /\ ups[u].location \in Pointer /\ ups[u].location[1] = c.block
        /\ FrameSlot(c, ups[u].location[2])
    BY <1>1 DEF WellFormed, ContextOK, OpenSorted
  <1>4. ups[u] # None /\ ups[u].location # None
    BY <1>3, FramesAssumption
  <1>5. ups[u].location[2] \in Nat /\ ups[u].location = <<c.block, ups[u].location[2]>>
    BY <1>3 DEF Pointer
  <1>6. QED
    BY <1>2, <1>3, <1>4, <1>5

LEMMA AtUnique ==
    ASSUME NEW c, NEW ups, WellFormed(c, ups), NEW s, NEW u, NEW w,
           At(c, ups, s, u), At(c, ups, s, w)
    PROVE  u = w
  <1>1. PICK k \in 1 .. Len(c.open) : c.open[k] = u
    BY DEF At, OnList
  <1>2. PICK m \in 1 .. Len(c.open) : c.open[m] = w
    BY DEF At, OnList
  <1>3. ~(k < m) /\ ~(m < k)
    <2>1. k < m => ups[c.open[m]].location[2] < ups[c.open[k]].location[2]
      BY DEF WellFormed, ContextOK, OpenSorted
    <2>2. m < k => ups[c.open[k]].location[2] < ups[c.open[m]].location[2]
      BY DEF WellFormed, ContextOK, OpenSorted
    <2>3. ups[u].location[2] = s /\ ups[w].location[2] = s /\ s \in Nat
      BY OnListIs DEF At
    <2>4. QED
      BY <1>1, <1>2, <2>1, <2>2, <2>3
  <1>4. k = m
    BY <1>3, ContextShape DEF WellFormed
  <1>5. QED
    BY <1>1, <1>2, <1>4

LEMMA AtIs ==
    ASSUME NEW c, NEW ups, WellFormed(c, ups), NEW s \in Nat, NEW u
    PROVE  At(c, ups, s, u) <=>
             u \in Cell /\ ups[u] # None /\ ups[u].location = <<c.block, s>>
  <1>1. ASSUME At(c, ups, s, u)
        PROVE  u \in Cell /\ ups[u] # None /\ ups[u].location = <<c.block, s>>
    BY <1>1, OnListIs DEF At
  <1>2. ASSUME u \in Cell, ups[u] # None, ups[u].location = <<c.block, s>>
        PROVE  At(c, ups, s, u)
    <2>1. ups[u].location # None
      <3>1. <<c.block, s>> \in Pointer
        BY ContextShape DEF WellFormed, Pointer
      <3>2. QED
        BY <1>2, <3>1, FramesAssumption
    <2>2. ups[u].location[1] = c.block /\ ups[u].location[2] = s
      BY <1>2
    <2>3. QED
      BY <1>2, <2>1, <2>2 DEF WellFormed, Owned, At
  <1>3. QED
    BY <1>1, <1>2

\* A variable is the cell of the upvalue open at its slot, or what is there.
LEMMA VarInIs ==
    ASSUME NEW c, NEW ups, WellFormed(c, ups), NEW s \in Nat
    PROVE  /\ \A u : At(c, ups, s, u) => VarIn(c, ups, s) = [cell |-> u]
           /\ (\A u \in Cell : ~At(c, ups, s, u)) => VarIn(c, ups, s) = c.stack[s]
  <1>1. DOMAIN c.open = 1 .. Len(c.open) /\ \A k \in 1 .. Len(c.open) : c.open[k] \in Cell
    BY ContextShape DEF WellFormed
  <1>2. ASSUME NEW u, At(c, ups, s, u)
        PROVE  VarIn(c, ups, s) = [cell |-> u]
    <2>1. ups[u].location = <<c.block, s>> /\ ups[u] # None /\ u \in Cell
      BY <1>2, AtIs
    <2>2. \E k \in DOMAIN c.open : ups[c.open[k]].location = <<c.block, s>>
      BY <1>1, <1>2, <2>1 DEF At, OnList
    <2>3. ASSUME NEW w \in Cell, ups[w] # None, ups[w].location = <<c.block, s>>
          PROVE  w = u
      BY <1>2, <2>3, AtIs, AtUnique
    <2>4. (CHOOSE w \in Cell : ups[w] # None /\ ups[w].location = <<c.block, s>>) = u
      BY <2>1, <2>3
    <2>5. QED
      BY <2>2, <2>4 DEF VarIn
  <1>3. ASSUME \A u \in Cell : ~At(c, ups, s, u)
        PROVE  VarIn(c, ups, s) = c.stack[s]
    <2>1. ASSUME NEW k \in DOMAIN c.open, ups[c.open[k]].location = <<c.block, s>>
          PROVE  FALSE
      <3>1. OnList(c, c.open[k]) /\ c.open[k] \in Cell
        BY <1>1 DEF OnList
      <3>2. ups[c.open[k]].location[2] = s
        BY <2>1
      <3>3. QED
        BY <1>3, <3>1, <3>2 DEF At
    <2>2. QED
      BY <2>1 DEF VarIn
  <1>4. QED
    BY <1>2, <1>3

LEMMA VarInVar ==
    ASSUME NEW c, NEW ups, WellFormed(c, ups), NEW s \in Nat, s < Capacity(c)
    PROVE  VarIn(c, ups, s) \in Var
  <1>1. CASE \E u : At(c, ups, s, u)
    <2>1. PICK u : At(c, ups, s, u)
      BY <1>1
    <2>2. u \in Cell
      BY <2>1, OnListIs DEF At
    <2>3. QED
      BY <2>1, <2>2, VarInIs DEF Var
  <1>2. CASE ~\E u : At(c, ups, s, u)
    <2>1. VarIn(c, ups, s) = c.stack[s]
      BY <1>2, VarInIs
    <2>2. c.stack \in [0 .. Capacity(c) - 1 -> Contents] /\ Capacity(c) \in Nat
      BY ContextShape DEF WellFormed
    <2>3. s \in 0 .. Capacity(c) - 1
      BY <2>2
    <2>4. QED
      BY <2>1, <2>2, <2>3 DEF Var
  <1>3. QED
    BY <1>1, <1>2

\* Two contexts have the same variable at a slot.
LEMMA VarInSame ==
    ASSUME NEW c, NEW ups, WellFormed(c, ups), NEW p, NEW ups1, WellFormed(p, ups1),
           NEW s \in Nat, \A u \in Cell : At(p, ups1, s, u) <=> At(c, ups, s, u),
           (\A u \in Cell : ~At(c, ups, s, u)) => p.stack[s] = c.stack[s]
    PROVE  VarIn(p, ups1, s) = VarIn(c, ups, s)
  <1>1. CASE \E u \in Cell : At(c, ups, s, u)
    BY <1>1, VarInIs
  <1>2. CASE ~\E u \in Cell : At(c, ups, s, u)
    BY <1>2, VarInIs
  <1>3. QED
    BY <1>1, <1>2

LEMMA ActInIs ==
    ASSUME NEW c, NEW ups, WellFormed(c, ups)
    PROVE  LET a == ActIn(c, ups) IN
           /\ a \in ActSeq /\ Len(a) = Len(c.frames) /\ Len(c.frames) \in Nat
           /\ \A d \in 1 .. Len(c.frames) :
                /\ a[d].vars = [k \in 1 .. c.frames[d].live |->
                                    VarIn(c, ups, c.frames[d].slots[2] + k - 1)]
                /\ a[d].vars \in Vars
                /\ Len(a[d].vars) = c.frames[d].live /\ c.frames[d].live \in Nat
                /\ a[d].want = c.frames[d].expected /\ a[d].want \in Nat
                /\ c.frames[d].slots[2] \in Nat
                /\ c.frames[d].slots[2] + c.frames[d].live <= Capacity(c)
  <1> DEFINE a == ActIn(c, ups)
             xs(d) == [k \in 1 .. c.frames[d].live |-> VarIn(c, ups, c.frames[d].slots[2] + k - 1)]
  <1>1. /\ c \in Context /\ Capacity(c) \in Nat /\ DOMAIN c.frames = 1 .. Len(c.frames)
        /\ Len(c.frames) \in Nat
        /\ \A d \in 1 .. Len(c.frames) : c.frames[d] \in CallFrame
    BY ContextShape DEF WellFormed
  <1>2. ASSUME NEW d \in 1 .. Len(c.frames)
        PROVE  /\ c.frames[d].live \in Nat /\ c.frames[d].slots[2] \in Nat
               /\ c.frames[d].slots[2] + c.frames[d].live <= Capacity(c)
               /\ c.frames[d].expected \in Nat
    <2>1. /\ c.frames[d].live \in Nat /\ c.frames[d].slots[2] \in Nat
          /\ c.frames[d].need \in Nat /\ c.frames[d].expected \in Nat
      BY <1>1, PointerIs DEF CallFrame
    <2>2. /\ c.frames[d].live \in 1 .. c.frames[d].need
          /\ c.frames[d].slots[2] + c.frames[d].need <= c.top
      BY WellFormedIs DEF FramesNested
    <2>3. c.top <= Capacity(c) /\ c.top \in Nat
      BY WellFormedIs, ContextShape DEF NullAbove
    <2>4. QED
      BY <1>1, <2>1, <2>2, <2>3
  <1>3. ASSUME NEW d \in 1 .. Len(c.frames)
        PROVE  xs(d) \in Vars /\ Len(xs(d)) = c.frames[d].live
    <2> DEFINE at == c.frames[d].slots[2]  live == c.frames[d].live
    <2>1. live \in Nat /\ at \in Nat /\ at + live <= Capacity(c) /\ Capacity(c) \in Nat
      BY <1>1, <1>2
    <2> HIDE DEF at, live
    <2>2. ASSUME NEW k \in 1 .. live PROVE at + k - 1 \in Nat /\ at + k - 1 < Capacity(c)
      BY <2>1
    <2>3. \A k \in 1 .. live : VarIn(c, ups, at + k - 1) \in Var
      BY <2>2, VarInVar
    <2>4. [k \in 1 .. live |-> VarIn(c, ups, at + k - 1)] \in [1 .. live -> Var]
      BY <2>3
    <2> DEFINE ys == [k \in 1 .. live |-> VarIn(c, ups, at + k - 1)]
    <2>5. ys \in [1 .. live -> Var]
      BY <2>4
    <2> HIDE DEF ys
    <2>6. ys \in Vars /\ Len(ys) = live
      BY <2>1, <2>5 DEF Vars
    <2>7. ys = xs(d)
      BY DEF ys, at, live
    <2>8. QED
      BY <2>6, <2>7 DEF live
  <1> HIDE DEF xs
  <1>4. a = [d \in 1 .. Len(c.frames) |-> [vars |-> xs(d), want |-> c.frames[d].expected]]
    BY <1>1 DEF ActIn, xs
  <1>5. \A d \in 1 .. Len(c.frames) :
           [vars |-> xs(d), want |-> c.frames[d].expected] \in Activation
    BY <1>2, <1>3 DEF Activation
  <1>6. a \in [1 .. Len(c.frames) -> Activation]
    BY <1>4, <1>5
  <1>7. a \in ActSeq /\ Len(a) = Len(c.frames)
    BY <1>1, <1>6 DEF ActSeq
  <1>8. \A d \in 1 .. Len(c.frames) : a[d].vars = xs(d) /\ a[d].want = c.frames[d].expected
    BY <1>4
  <1> HIDE DEF a
  <1>9. QED
    BY <1>1, <1>2, <1>3, <1>7, <1>8 DEF a, xs

\* The same, of one activation
FrameVars(c, ups, d) ==
    [k \in 1 .. c.frames[d].live |-> VarIn(c, ups, c.frames[d].slots[2] + k - 1)]

LEMMA ActInEach ==
    ASSUME NEW c, NEW ups, WellFormed(c, ups), NEW d \in 1 .. Len(c.frames)
    PROVE  /\ ActIn(c, ups)[d].vars = FrameVars(c, ups, d)
           /\ ActIn(c, ups)[d].vars \in Vars
           /\ Len(ActIn(c, ups)[d].vars) = c.frames[d].live /\ c.frames[d].live \in Nat
           /\ ActIn(c, ups)[d].want = c.frames[d].expected /\ c.frames[d].slots[2] \in Nat
  <1>1. ActIn(c, ups) = [e \in DOMAIN c.frames |->
                            [vars |-> FrameVars(c, ups, e), want |-> c.frames[e].expected]]
    BY DEF ActIn, FrameVars
  <1>2. d \in DOMAIN c.frames
    BY ContextShape DEF WellFormed
  <1>3. ActIn(c, ups)[d].vars = FrameVars(c, ups, d)
    BY <1>1, <1>2
  <1>4. Len(c.frames) \in Nat /\ ActIn(c, ups) \in ActSeq /\ Len(ActIn(c, ups)) = Len(c.frames)
    BY ActInIs
  <1>5. ActIn(c, ups)[d].vars \in Vars
    <2> DEFINE a == ActIn(c, ups)
    <2> HIDE DEF a
    <2>1. a \in ActSeq /\ d \in 1 .. Len(a)
      BY <1>4 DEF a
    <2>2. a[d] \in Activation
      BY <2>1, ElementOfSeq DEF ActSeq
    <2>3. QED
      BY <2>2 DEF Activation, a
  <1>6. c.frames[d].live \in Nat /\ c.frames[d].slots[2] \in Nat
    BY ContextShape, PointerIs DEF WellFormed, CallFrame
  <1>7. Len(FrameVars(c, ups, d)) = c.frames[d].live
    <2> DEFINE at == c.frames[d].slots[2]  live == c.frames[d].live
    <2>1. FrameVars(c, ups, d) = [k \in 1 .. live |-> VarIn(c, ups, at + k - 1)]
      BY DEF FrameVars
    <2> HIDE DEF at, live
    <2>2. live \in Nat
      BY <1>6 DEF live
    <2>3. QED
      BY <2>1, <2>2 DEF live
  <1>8. ActIn(c, ups)[d].want = c.frames[d].expected
    BY <1>1, <1>2
  <1>9. QED
    BY <1>3, <1>5, <1>6, <1>7, <1>8

LEMMA ActivationIs ==
    ASSUME NEW x \in Activation
    PROVE  x = [vars |-> x.vars, want |-> x.want] /\ x.vars \in Vars /\ x.want \in Nat
  BY DEF Activation

LEMMA ActSeqIs ==
    ASSUME NEW a \in ActSeq
    PROVE  /\ Len(a) \in Nat /\ DOMAIN a = 1 .. Len(a)
           /\ \A d \in 1 .. Len(a) : a[d] \in Activation /\ a[d].vars \in Vars
  BY LenProperties, ElementOfSeq, ActivationIs DEF ActSeq

LEMMA VarsIs ==
    ASSUME NEW xs \in Vars
    PROVE  /\ Len(xs) \in Nat /\ DOMAIN xs = 1 .. Len(xs)
           /\ \A k \in 1 .. Len(xs) : xs[k] \in Var
  BY LenProperties, ElementOfSeq DEF Vars

LEMMA SameActivations ==
    ASSUME NEW a \in ActSeq, NEW b \in ActSeq, Len(a) = Len(b),
           \A d \in 1 .. Len(a) : a[d].vars = b[d].vars /\ a[d].want = b[d].want
    PROVE  a = b
  <1>1. ASSUME NEW d \in 1 .. Len(a) PROVE a[d] = b[d]
    <2>1. a[d] \in Activation /\ b[d] \in Activation
      BY ActSeqIs
    <2>2. a[d].vars = b[d].vars /\ a[d].want = b[d].want
      OBVIOUS
    <2>3. a[d] = [vars |-> a[d].vars, want |-> a[d].want]
          /\ b[d] = [vars |-> b[d].vars, want |-> b[d].want]
      BY <2>1, ActivationIs
    <2>4. QED
      BY <2>2, <2>3
  <1>2. QED
    BY <1>1, SeqEqual DEF ActSeq

\* The innermost activation gets other variables.
LEMMA WithVarsIs ==
    ASSUME NEW a \in ActSeq, Len(a) > 0, NEW xs \in Vars
    PROVE  LET b == A!WithVars(a, xs)  D == Len(a) IN
           /\ b \in ActSeq /\ Len(b) = D /\ b[D].vars = xs
           /\ \A d \in 1 .. D : /\ b[d].want = a[d].want
                                /\ d # D => b[d].vars = a[d].vars
  <1> DEFINE D == Len(a)  top == [a[D] EXCEPT !.vars = xs]  b == [a EXCEPT ![D] = top]
  <1>1. D \in 1 .. Len(a)
    BY ActSeqIs
  <1>10. a[D] \in Activation
    BY <1>1, ActSeqIs
  <1>2. top \in Activation /\ top.vars = xs /\ top.want = a[D].want
    BY <1>10 DEF Activation
  <1>3. A!WithVars(a, xs) = b
    BY DEF A!WithVars
  <1> HIDE DEF top
  <1>4. b \in ActSeq /\ Len(b) = D /\ b[D] = top
        /\ \A d \in 1 .. D : d # D => b[d] = a[d]
    BY <1>1, <1>2, ExceptSeq DEF ActSeq
  <1> HIDE DEF b
  <1>5. QED
    BY <1>2, <1>3, <1>4

LEMMA Renewed ==
    ASSUME NEW a \in ActSeq, NEW b \in ActSeq, Len(a) > 0,
           Len(b) = Len(a), NEW xs \in Vars, b[Len(a)].vars = xs,
           \A d \in 1 .. Len(a) : /\ b[d].want = a[d].want
                                  /\ d # Len(a) => b[d].vars = a[d].vars
    PROVE  b = A!WithVars(a, xs)
  <1> DEFINE e == A!WithVars(a, xs)
  <1>1. /\ e \in ActSeq /\ Len(e) = Len(a) /\ e[Len(a)].vars = xs
        /\ \A d \in 1 .. Len(a) : /\ e[d].want = a[d].want
                                  /\ d # Len(a) => e[d].vars = a[d].vars
    BY WithVarsIs
  <1> HIDE DEF e
  <1>2. \A d \in 1 .. Len(b) : b[d].vars = e[d].vars /\ b[d].want = e[d].want
    BY <1>1
  <1>3. b = e
    BY <1>1, <1>2, SameActivations
  <1>4. QED
    BY <1>3 DEF e

LEMMA SameVars ==
    ASSUME NEW xs \in Vars, NEW ys \in Vars, Len(xs) = Len(ys),
           \A k \in 1 .. Len(xs) : xs[k] = ys[k]
    PROVE  xs = ys
  BY SeqEqual DEF Vars

LEMMA Appended ==
    ASSUME NEW xs \in Vars, NEW ys \in Seq(Contents)
    PROVE  /\ xs \o ys \in Vars /\ Len(xs \o ys) = Len(xs) + Len(ys)
           /\ \A k \in 1 .. Len(xs) + Len(ys) :
                (xs \o ys)[k] = IF k <= Len(xs) THEN xs[k] ELSE ys[k - Len(xs)]
  <1>1. ys \in Seq(Var)
    BY DEF Var
  <1>2. QED
    BY <1>1, ConcatProperties DEF Vars

LEMMA WellInv == IInv => AllWell
  <1> SUFFICES ASSUME IInv, NEW c \in Contexts
               PROVE  WellFormed(c, up)
    BY DEF AllWell
  <1>1. c \in Context /\ ContextOK(c, up)
    BY TypedContexts DEF IInv
  <1>2. ASSUME NEW u \in Cell, up[u] # None, up[u].location # None,
               up[u].location[1] = c.block
        PROVE  OnList(c, u)
    <2>1. PICK d \in Contexts : OnList(d, u)
      BY <1>2 DEF IInv, OpenListed, OnList
    <2>2. d \in Context /\ ContextOK(d, up)
      BY TypedContexts DEF IInv
    <2>3. up[u].location[1] = d.block
      BY <2>1, <2>2 DEF OnList, ContextOK, OpenSorted
    <2>4. d = c
      BY <1>2, <2>3, BlocksUnique
    <2>5. QED
      BY <2>1, <2>4
  <1>3. QED
    BY <1>1, <1>2 DEF WellFormed, Owned

LEMMA CellsInv == IInv => CellsHold
  <1> SUFFICES ASSUME IInv, NEW u \in Cell
               PROVE  /\ up[u] = None => Cells[u] = None
                      /\ up[u] # None => Cells[u] \in Contents
                      /\ up[u] # None /\ up[u].location = None => Cells[u] = up[u].closed
                      /\ \A c \in Contexts : OnList(c, u) =>
                            Cells[u] = c.stack[up[u].location[2]]
    BY DEF CellsHold
  <1>1. Cells[u] = Deref(u)
    BY DEF Cells
  <1>2. up[u] = None => Cells[u] = None
    BY <1>1 DEF Deref
  <1>3. up[u] # None => Cells[u] \in Contents
    BY <1>1, DerefIs
  <1>4. up[u] # None /\ up[u].location = None => Cells[u] = up[u].closed
    BY <1>1 DEF Deref
  <1>5. ASSUME NEW c \in Contexts, OnList(c, u)
        PROVE  Cells[u] = c.stack[up[u].location[2]]
    <2>1. WellFormed(c, up)
      BY WellInv DEF AllWell
    <2>2. up[u] # None /\ up[u].location # None /\ up[u].location[1] = c.block
      BY <1>5, <2>1, OnListIs, WellFormedIs DEF WellFormed, ContextOK, OpenSorted, OnList
    <2>3. \A d \in Contexts : d.block = up[u].location[1] => d = c
      BY <2>2, BlocksUnique
    <2>4. Owner(up[u].location[1]) = c
      BY <2>2, <2>3 DEF Owner, Contexts
    <2>5. QED
      BY <1>1, <2>2, <2>4 DEF Deref
  <1>6. QED
    BY <1>2, <1>3, <1>4, <1>5

\* Nothing is leaked: what is captured in each context is in use.
LEMMA SettledInv ==
    ASSUME IInv, ~Leaked, NEW c \in Contexts
    PROVE  Settled(c, up)
  <1>1. DOMAIN c.open = 1 .. Len(c.open)
    BY WellInv, ContextShape DEF AllWell, WellFormed
  <1>2. QED
    BY <1>1 DEF Settled, OnList, Leaked

LEMMA WellAfter == IInv' => AllWell'
  BY WellInv, PTL

LEMMA CellsAfter == IInv' => CellsHold'
  BY CellsInv, PTL

\* A context whose frames, and the variables in them, stay as they are
LEMMA ActInSame ==
    ASSUME NEW c, NEW ups, WellFormed(c, ups), NEW p, NEW ups1, WellFormed(p, ups1),
           Len(p.frames) = Len(c.frames),
           \A d \in 1 .. Len(c.frames) :
               /\ p.frames[d].slots[2] = c.frames[d].slots[2]
               /\ p.frames[d].live = c.frames[d].live
               /\ p.frames[d].expected = c.frames[d].expected,
           \A s \in Nat : LiveSlot(c, s) => VarIn(p, ups1, s) = VarIn(c, ups, s)
    PROVE  ActIn(p, ups1) = ActIn(c, ups)
  <1> DEFINE a == ActIn(c, ups)  b == ActIn(p, ups1)
  <1>1. a \in ActSeq /\ b \in ActSeq /\ Len(a) = Len(c.frames) /\ Len(b) = Len(c.frames)
        /\ DOMAIN c.frames = 1 .. Len(c.frames)
    BY ActInIs, ContextShape DEF WellFormed
  <1>2. ASSUME NEW d \in 1 .. Len(c.frames)
        PROVE  b[d].vars = a[d].vars /\ b[d].want = a[d].want
    <2> DEFINE at == c.frames[d].slots[2]  live == c.frames[d].live
    <2>1. /\ a[d].vars = FrameVars(c, ups, d)
          /\ a[d].want = c.frames[d].expected /\ live \in Nat /\ at \in Nat
      BY ActInEach
    <2>20. d \in 1 .. Len(p.frames) /\ p.frames[d].slots[2] = at /\ p.frames[d].live = live
           /\ p.frames[d].expected = c.frames[d].expected
      OBVIOUS
    <2>2. b[d].vars = FrameVars(p, ups1, d) /\ b[d].want = p.frames[d].expected
      BY <2>20, ActInEach
    <2>3. ASSUME NEW k \in 1 .. live
          PROVE  VarIn(p, ups1, at + k - 1) = VarIn(c, ups, at + k - 1)
      <3>1. at + k - 1 \in Nat /\ at + k - 1 \in at .. at + live - 1
        <4> HIDE DEF at, live
        <4>1. QED
          BY <2>1
      <3>2. LiveSlot(c, at + k - 1)
        BY <1>1, <3>1 DEF LiveSlot
      <3> HIDE DEF at, live
      <3>3. QED
        BY <3>1, <3>2
    <2> HIDE DEF a, b, at, live
    <2>4. FrameVars(c, ups, d) = [k \in 1 .. live |-> VarIn(c, ups, at + k - 1)]
      BY DEF FrameVars, at, live
    <2>5. FrameVars(p, ups1, d) = [k \in 1 .. live |-> VarIn(p, ups1, at + k - 1)]
      BY <2>20 DEF FrameVars
    <2>6. FrameVars(c, ups, d) = FrameVars(p, ups1, d)
      BY <2>3, <2>4, <2>5
    <2>7. QED
      BY <2>1, <2>2, <2>20, <2>6
  <1> HIDE DEF a, b
  <1>3. a = b
    BY <1>1, <1>2, SameActivations
  <1>4. QED
    BY <1>3 DEF a, b

\* The live registers of a frame are below the frames it calls.
LEMMA NestedOrder ==
    ASSUME NEW c \in Context, FramesNested(c),
           NEW d \in 1 .. Len(c.frames), NEW e \in 1 .. Len(c.frames), d < e
    PROVE  c.frames[d].slots[2] + c.frames[d].live <= c.frames[e].slots[2]
  <1> DEFINE slot(m) == c.frames[m].slots[2]  live(m) == c.frames[m].live
             S == {m \in 1 .. Len(c.frames) : d < m /\ ~(slot(d) + live(d) <= slot(m))}
  <1>1. Len(c.frames) \in Nat
        /\ \A m \in 1 .. Len(c.frames) : slot(m) \in Nat /\ live(m) \in Nat
    BY ContextShape, PointerIs DEF CallFrame
  <1>2. \A m, n \in 1 .. Len(c.frames) : n = m + 1 => slot(n) = slot(m) + live(m)
    BY DEF FramesNested
  <1> HIDE DEF slot, live
  <1>3. ASSUME S # {} PROVE FALSE
    <2>1. S \in SUBSET Nat
      OBVIOUS
    <2>2. PICK m \in S : \A n \in S : m <= n
      BY <1>3, <2>1, Least
    <2>3. m \in 1 .. Len(c.frames) /\ d < m /\ ~(slot(d) + live(d) <= slot(m))
      BY <2>2
    <2>4. m - 1 \in 1 .. Len(c.frames) /\ m - 1 >= d
      BY <1>1, <2>3
    <2>5. m - 1 \notin S
      BY <2>2, <2>3
    <2>6. slot(m) = slot(m - 1) + live(m - 1)
      BY <1>2, <2>3, <2>4
    <2>7. CASE m - 1 = d
      BY <1>1, <2>3, <2>6, <2>7
    <2>8. CASE m - 1 > d
      <3>1. slot(d) + live(d) <= slot(m - 1)
        BY <2>4, <2>5, <2>8
      <3>2. slot(m - 1) \in Nat /\ live(m - 1) \in Nat /\ slot(d) \in Nat /\ live(d) \in Nat
        BY <1>1, <2>4
      <3>3. QED
        BY <2>3, <2>6, <3>1, <3>2
    <2>9. QED
      BY <2>3, <2>4, <2>7, <2>8
  <1>4. QED
    BY <1>3 DEF slot, live

\* A context of which only the innermost frame changes
LEMMA ActInTop ==
    ASSUME NEW c, NEW ups, WellFormed(c, ups), NEW p, NEW ups1, WellFormed(p, ups1),
           Depth(c) > 0, Len(p.frames) = Len(c.frames),
           \A d \in 1 .. Len(c.frames) :
               /\ p.frames[d].slots[2] = c.frames[d].slots[2]
               /\ d # Depth(c) => p.frames[d].live = c.frames[d].live
               /\ p.frames[d].expected = c.frames[d].expected,
           \A s \in Nat : s < Frame(c).slots[2] /\ LiveSlot(c, s) =>
               VarIn(p, ups1, s) = VarIn(c, ups, s),
           NEW xs \in Vars, Len(xs) = Live(p),
           \A k \in 1 .. Len(xs) : xs[k] = VarIn(p, ups1, Frame(c).slots[2] + k - 1)
    PROVE  ActIn(p, ups1) = A!WithVars(ActIn(c, ups), xs)
  <1> DEFINE a == ActIn(c, ups)  b == ActIn(p, ups1)  D == Len(c.frames)
  <1>1. a \in ActSeq /\ b \in ActSeq /\ Len(a) = D /\ Len(b) = D
        /\ D \in 1 .. D /\ Depth(c) = D /\ Depth(p) = D
    BY ActInIs DEF Depth
  <1>2. ASSUME NEW d \in 1 .. D
        PROVE  b[d].want = a[d].want /\ (d # D => b[d].vars = a[d].vars)
    <2> DEFINE at == c.frames[d].slots[2]  live == c.frames[d].live
    <2>1. /\ a[d].vars = [k \in 1 .. live |-> VarIn(c, ups, at + k - 1)]
          /\ a[d].want = c.frames[d].expected /\ live \in Nat /\ at \in Nat
      <3>1. /\ ActIn(c, ups)[d].vars = [k \in 1 .. c.frames[d].live |->
                                          VarIn(c, ups, c.frames[d].slots[2] + k - 1)]
            /\ ActIn(c, ups)[d].want = c.frames[d].expected /\ c.frames[d].live \in Nat
            /\ c.frames[d].slots[2] \in Nat
        <4>1. d \in 1 .. Len(c.frames)
          OBVIOUS
        <4> HIDE DEF D, a, b, at, live
        <4>2. QED
          BY <4>1, ActInIs
      <3> HIDE DEF D, b
      <3>2. QED
        BY <3>1
    <2>2. /\ d # D => b[d].vars = [k \in 1 .. live |-> VarIn(p, ups1, at + k - 1)]
          /\ b[d].want = c.frames[d].expected
      <3>1. d \in 1 .. Len(p.frames) /\ p.frames[d].slots[2] = at
            /\ p.frames[d].expected = c.frames[d].expected
            /\ (d # D => p.frames[d].live = live)
        BY <1>1
      <3>2. /\ b[d].vars = [k \in 1 .. p.frames[d].live |->
                                VarIn(p, ups1, p.frames[d].slots[2] + k - 1)]
            /\ b[d].want = p.frames[d].expected
        BY <3>1, ActInIs
      <3> HIDE DEF b, at, live, D
      <3>3. QED
        BY <3>1, <3>2
    <2>3. ASSUME NEW k \in 1 .. live, d # D
          PROVE  VarIn(p, ups1, at + k - 1) = VarIn(c, ups, at + k - 1)
      <3>1. /\ d < D /\ at + c.frames[d].need <= c.frames[D].callerTop
            /\ c.frames[d].live \in 1 .. c.frames[d].need
        BY <1>1, <2>3, WellFormedIs DEF FramesNested
      <3>2. at + live <= c.frames[D].slots[2]
        BY <1>1, <2>3, <3>1, NestedOrder, WellFormedIs
      <3>3. c.frames[D].slots[2] \in Nat /\ Frame(c) = c.frames[D]
        BY <1>1, ActInIs DEF Frame, Depth
      <3> HIDE DEF at, live
      <3>4. at + k - 1 \in Nat /\ at + k - 1 < c.frames[D].slots[2]
            /\ at + k - 1 \in at .. at + live - 1
        <4> DEFINE top == c.frames[D].slots[2]
        <4>1. at \in Nat /\ live \in Nat /\ top \in Nat /\ at + live <= top
          BY <2>1, <3>2, <3>3
        <4> HIDE DEF D, top
        <4>2. at + k - 1 \in Nat /\ at + k - 1 < top /\ at + k - 1 \in at .. at + live - 1
          BY <4>1
        <4>3. QED
          BY <4>2 DEF top
      <3>5. LiveSlot(c, at + k - 1)
        <4>1. d \in DOMAIN c.frames
          BY ContextShape DEF WellFormed
        <4>2. QED
          BY <3>4, <4>1 DEF LiveSlot, at, live
      <3>6. QED
        BY <3>3, <3>4, <3>5
    <2> HIDE DEF a, b, at, live
    <2>4. QED
      BY <2>1, <2>2, <2>3
  <1>3. b[D].vars = xs
    <2>0. D \in 1 .. Len(p.frames)
      BY <1>1
    <2>1. /\ b[D].vars = [k \in 1 .. p.frames[D].live |-> VarIn(p, ups1, p.frames[D].slots[2] + k - 1)]
          /\ b[D].vars \in Vars /\ Len(b[D].vars) = p.frames[D].live
      <3> HIDE DEF D
      <3>1. QED
        BY <2>0, ActInIs
    <2>2. Len(xs) = p.frames[D].live /\ p.frames[D].slots[2] = Frame(c).slots[2]
      BY <1>1 DEF Live, Frame
    <2>3. \A k \in 1 .. Len(xs) : b[D].vars[k] = xs[k]
      BY <2>1, <2>2
    <2> HIDE DEF b, D
    <2>4. QED
      BY <2>1, <2>2, <2>3, SameVars
  <1> HIDE DEF a, b, D
  <1>4. Len(a) > 0
    BY <1>1
  <1>5. \A d \in 1 .. Len(a) : b[d].want = a[d].want /\ (d # Len(a) => b[d].vars = a[d].vars)
    BY <1>1, <1>2
  <1>6. b = A!WithVars(a, xs)
    <2>1. /\ a \in ActSeq /\ b \in ActSeq /\ Len(a) > 0 /\ Len(b) = Len(a) /\ xs \in Vars
          /\ b[Len(a)].vars = xs
      BY <1>1, <1>3, <1>4
    <2>2. QED
      BY <1>5, <2>1, Renewed
  <1>7. QED
    BY <1>6 DEF a, b

\* The variables of the innermost activation
OwnIn(c, ups) == ActIn(c, ups)[Len(ActIn(c, ups))].vars

LEMMA OwnIs ==
    ASSUME NEW c, NEW ups, WellFormed(c, ups), Depth(c) > 0
    PROVE  /\ OwnIn(c, ups) \in Vars /\ Len(OwnIn(c, ups)) = Live(c)
           /\ Live(c) \in Nat /\ Live(c) >= 1 /\ Frame(c).slots[2] \in Nat
           /\ Frame(c).need \in Nat /\ Live(c) <= Frame(c).need
           /\ Frame(c).slots[2] + Frame(c).need <= Capacity(c) /\ Capacity(c) \in Nat
           /\ Len(ActIn(c, ups)) = Depth(c) /\ Depth(c) \in Nat /\ ActIn(c, ups) \in ActSeq
           /\ \A k \in 1 .. Live(c) :
                OwnIn(c, ups)[k] = VarIn(c, ups, Frame(c).slots[2] + k - 1)
  <1> DEFINE D == Depth(c)  at == Frame(c).slots[2]
  <1>1. D \in 1 .. Len(c.frames) /\ D = Len(c.frames) /\ D \in Nat /\ Frame(c) = c.frames[D]
        /\ Live(c) = c.frames[D].live
    BY FrameShape, WellFormedIs, ContextShape DEF Depth
  <1>2. /\ Live(c) \in 1 .. Frame(c).need /\ Frame(c).need \in Nat /\ at \in Nat
        /\ at + Frame(c).need <= Capacity(c) /\ Capacity(c) \in Nat
    BY FrameShape, WellFormedIs, ContextShape
  <1>3. Len(ActIn(c, ups)) = D /\ ActIn(c, ups) \in ActSeq
    BY <1>1, ActInIs
  <1>4. /\ ActIn(c, ups)[D].vars = [k \in 1 .. c.frames[D].live |->
                                      VarIn(c, ups, c.frames[D].slots[2] + k - 1)]
        /\ ActIn(c, ups)[D].vars \in Vars /\ Len(ActIn(c, ups)[D].vars) = c.frames[D].live
    <2> HIDE DEF D
    <2>1. QED
      BY <1>1, ActInIs
  <1> HIDE DEF D, at
  <1>5. OwnIn(c, ups) = [k \in 1 .. Live(c) |-> VarIn(c, ups, at + k - 1)]
        /\ OwnIn(c, ups) \in Vars /\ Len(OwnIn(c, ups)) = Live(c)
    BY <1>1, <1>3, <1>4 DEF OwnIn, at
  <1>6. \A k \in 1 .. Live(c) : OwnIn(c, ups)[k] = VarIn(c, ups, at + k - 1)
    BY <1>5
  <1>7. Live(c) \in Nat /\ Live(c) >= 1 /\ Live(c) <= Frame(c).need
    BY <1>2
  <1>8. QED
    BY <1>1, <1>2, <1>3, <1>5, <1>6, <1>7 DEF D, at

\* The registers in use are below the first free one.
LEMMA LiveBelow ==
    ASSUME NEW c, NEW ups, WellFormed(c, ups), Depth(c) > 0, NEW s \in Nat, LiveSlot(c, s)
    PROVE  s < Frame(c).slots[2] + Live(c)
  <1> DEFINE D == Depth(c)
  <1>1. D \in 1 .. Len(c.frames) /\ Frame(c) = c.frames[D] /\ Live(c) = c.frames[D].live
        /\ DOMAIN c.frames = 1 .. Len(c.frames) /\ D = Len(c.frames) /\ c \in Context
        /\ FramesNested(c)
    BY FrameShape, WellFormedIs, ContextShape DEF Depth
  <1> HIDE DEF D
  <1>2. PICK d \in 1 .. Len(c.frames) :
           s \in c.frames[d].slots[2] .. c.frames[d].slots[2] + c.frames[d].live - 1
    BY <1>1 DEF LiveSlot
  <1>3. \A e \in 1 .. Len(c.frames) : c.frames[e].slots[2] \in Nat /\ c.frames[e].live \in Nat
    BY ActInIs
  <1>4. CASE d = D
    BY <1>1, <1>2, <1>3, <1>4
  <1>5. CASE d < D
    <2>1. c.frames[d].slots[2] + c.frames[d].live <= c.frames[D].slots[2]
      BY <1>1, <1>5, NestedOrder
    <2>2. c.frames[D].slots[2] \in Nat /\ c.frames[D].live \in Nat
          /\ c.frames[d].slots[2] \in Nat /\ c.frames[d].live \in Nat
      BY <1>1, <1>3
    <2>3. s < c.frames[d].slots[2] + c.frames[d].live
      BY <1>2, <2>2
    <2>30. s < c.frames[D].slots[2] + c.frames[D].live
      <3> DEFINE x == c.frames[d].slots[2] + c.frames[d].live
                 y == c.frames[D].slots[2]  z == c.frames[D].live
      <3>1. x \in Nat /\ y \in Nat /\ z \in Nat /\ s < x /\ x <= y
        BY <2>1, <2>2, <2>3
      <3> HIDE DEF x, y, z
      <3>2. s < y + z
        BY <3>1
      <3>3. QED
        BY <3>2 DEF y, z
    <2>4. QED
      BY <1>1, <2>30
  <1>6. QED
    BY <1>1, <1>2, <1>4, <1>5

\* In a settled context no open upvalue points at or above the first free register.
LEMMA NoneAbove ==
    ASSUME NEW c, NEW ups, WellFormed(c, ups), Settled(c, ups), Depth(c) > 0, NEW s \in Nat,
           s >= Frame(c).slots[2] + Live(c), NEW u
    PROVE  ~At(c, ups, s, u)
  <1>1. SUFFICES ASSUME At(c, ups, s, u) PROVE FALSE
    OBVIOUS
  <1>2. LiveSlot(c, s)
    BY <1>1 DEF At, Settled
  <1>3. s < Frame(c).slots[2] + Live(c)
    BY <1>2, LiveBelow
  <1>4. QED
    BY <1>3, OwnIs

\* Put adds variables with the values put.
PutFaithful(c, ups, values, p) ==
    /\ WellFormed(p, ups) /\ Depth(p) = Depth(c) /\ p.open = c.open /\ p.block = c.block
    /\ ActIn(p, ups) = A!WithVars(ActIn(c, ups), OwnIn(c, ups) \o values)
    /\ \A u : OnList(c, u) => OnList(p, u) /\ p.stack[ups[u].location[2]]
                                                = c.stack[ups[u].location[2]]

LEMMA PutActs ==
    ASSUME NEW c, NEW ups, WellFormed(c, ups), Settled(c, ups), Depth(c) > 0,
           NEW values \in Seq(Contents), Live(c) + Len(values) <= Frame(c).need,
           NEW p, p = Put(c, Live(c), values)
    PROVE  PutFaithful(c, ups, values, p)
  <1> DEFINE at == Frame(c).slots[2]  from == at + Live(c)  xs == OwnIn(c, ups) \o values
             D == Depth(c)
  <1>1. /\ p \in Context /\ p.block = c.block /\ p.open = c.open
        /\ Len(p.frames) = Len(c.frames) /\ Depth(p) = D
        /\ \A d \in 1 .. Len(c.frames) : SameFrame(p.frames[d], c.frames[d])
        /\ \A d \in 1 .. Len(c.frames) :
             p.frames[d].live = IF d = D THEN Live(c) + Len(values) ELSE c.frames[d].live
        /\ \A s \in 0 .. Capacity(c) - 1 :
             p.stack[s] = IF s \in from .. from + Len(values) - 1
                          THEN values[s - from + 1] ELSE c.stack[s]
    BY PutIs, WellFormedIs
  <1>2. ContextOK(p, ups)
    BY PutKeeps, WellFormedIs
  <1>3. WellFormed(p, ups)
    BY <1>1, <1>2 DEF WellFormed, Owned, OnList
  <1>4. \A u, s : At(p, ups, s, u) <=> At(c, ups, s, u)
    BY <1>1 DEF At, OnList
  <1>5. /\ at \in Nat /\ Live(c) \in Nat /\ Live(c) >= 1 /\ Len(values) \in Nat /\ from \in Nat
        /\ from + Len(values) <= Capacity(c) /\ Capacity(c) \in Nat
        /\ OwnIn(c, ups) \in Vars /\ Len(OwnIn(c, ups)) = Live(c)
        /\ \A k \in 1 .. Live(c) : OwnIn(c, ups)[k] = VarIn(c, ups, at + k - 1)
    BY OwnIs
  <1> HIDE DEF at, from, D
  <1>6. ASSUME NEW s \in Nat, s < from
        PROVE  VarIn(p, ups, s) = VarIn(c, ups, s) /\ p.stack[s] = c.stack[s]
    <2>1. s \in 0 .. Capacity(c) - 1 /\ s \notin from .. from + Len(values) - 1
      BY <1>5, <1>6
    <2>2. p.stack[s] = c.stack[s]
      BY <1>1, <2>1
    <2>3. QED
      BY <1>3, <1>4, <2>2, VarInSame
  <1>7. ASSUME NEW j \in 1 .. Len(values)
        PROVE  VarIn(p, ups, from + j - 1) = values[j]
    <2>1. /\ from + j - 1 \in Nat /\ from + j - 1 \in 0 .. Capacity(c) - 1
          /\ from + j - 1 \in from .. from + Len(values) - 1
          /\ (from + j - 1) - from + 1 = j /\ from + j - 1 >= from
      BY <1>5
    <2>2. p.stack[from + j - 1] = values[j]
      BY <1>1, <2>1
    <2>3. \A u : ~At(c, ups, from + j - 1, u)
      BY <2>1, NoneAbove DEF from, at
    <2>4. QED
      BY <1>3, <1>4, <2>1, <2>2, <2>3, VarInIs
  <1>8. xs \in Vars /\ Len(xs) = Live(c) + Len(values)
        /\ \A k \in 1 .. Live(c) + Len(values) :
             xs[k] = IF k <= Live(c) THEN OwnIn(c, ups)[k] ELSE values[k - Live(c)]
    <2> DEFINE own == OwnIn(c, ups)
    <2>1. own \in Vars /\ Len(own) = Live(c)
      BY <1>5
    <2> HIDE DEF own
    <2>2. /\ own \o values \in Vars /\ Len(own \o values) = Len(own) + Len(values)
          /\ \A k \in 1 .. Len(own) + Len(values) :
               (own \o values)[k] = IF k <= Len(own) THEN own[k] ELSE values[k - Len(own)]
      BY <2>1, Appended
    <2>3. xs = own \o values
      BY DEF own
    <2> HIDE DEF xs
    <2>4. QED
      BY <2>1, <2>2, <2>3 DEF own
  <1> HIDE DEF xs
  <1>9. ASSUME NEW k \in 1 .. Len(xs)
        PROVE  xs[k] = VarIn(p, ups, at + k - 1)
    <2>1. CASE k <= Live(c)
      <3>1. k \in 1 .. Live(c) /\ at + k - 1 \in Nat /\ at + k - 1 < from
        BY <1>5, <1>8, <2>1 DEF from
      <3>2. QED
        BY <1>5, <1>6, <1>8, <2>1, <3>1
    <2>2. CASE k > Live(c)
      <3>1. k - Live(c) \in 1 .. Len(values) /\ from + (k - Live(c)) - 1 = at + k - 1
            /\ ~(k <= Live(c)) /\ k \in 1 .. Live(c) + Len(values)
        BY <1>5, <1>8, <2>2 DEF from
      <3>2. VarIn(p, ups, from + (k - Live(c)) - 1) = values[k - Live(c)]
        BY <1>7, <3>1
      <3>3. QED
        BY <1>8, <3>1, <3>2
    <2>3. QED
      BY <1>5, <1>8, <2>1, <2>2
  <1>10. /\ Len(xs) = Live(p)
         /\ \A d \in 1 .. Len(c.frames) :
               /\ p.frames[d].slots[2] = c.frames[d].slots[2]
               /\ d # Depth(c) => p.frames[d].live = c.frames[d].live
               /\ p.frames[d].expected = c.frames[d].expected
    <2>1. D \in 1 .. Len(c.frames) /\ Live(p) = p.frames[D].live
      BY <1>1, ContextShape, WellFormedIs DEF Depth, Live, Frame, D
    <2>2. Live(p) = Live(c) + Len(values)
      BY <1>1, <2>1
    <2>3. QED
      BY <1>1, <1>8, <2>2 DEF SameFrame, D
  <1>11. \A s \in Nat : s < Frame(c).slots[2] => VarIn(p, ups, s) = VarIn(c, ups, s)
    <2> SUFFICES ASSUME NEW s \in Nat, s < at PROVE VarIn(p, ups, s) = VarIn(c, ups, s)
      BY DEF at
    <2>1. s < from
      BY <1>5 DEF from
    <2>2. QED
      BY <1>6, <2>1
  <1>12. ActIn(p, ups) = A!WithVars(ActIn(c, ups), xs)
    BY <1>1, <1>3, <1>8, <1>9, <1>10, <1>11, ActInTop DEF at
  <1>13. ASSUME NEW u, OnList(c, u)
         PROVE  OnList(p, u) /\ p.stack[ups[u].location[2]] = c.stack[ups[u].location[2]]
    <2>1. ups[u].location[2] \in Nat /\ ups[u].location[2] < from
      BY <1>13, OnListIs, LiveBelow DEF from, at, Settled
    <2>2. QED
      BY <1>1, <1>6, <1>13, <2>1 DEF OnList
  <1>14. QED
    BY <1>1, <1>3, <1>12, <1>13 DEF PutFaithful, xs, D

LEMMA ActInKept ==
    ASSUME NEW c, NEW ups, WellFormed(c, ups), NEW ups1, WellFormed(c, ups1),
           \A u : OnList(c, u) => ups1[u] = ups[u]
    PROVE  ActIn(c, ups1) = ActIn(c, ups)
  <1>1. \A s \in Nat : VarIn(c, ups1, s) = VarIn(c, ups, s)
    BY VarInSame DEF At
  <1>2. QED
    BY <1>1, ActInSame

\* A cell holds what it held if its upvalue stays closed, if it stays open and
\* the value is in its slot, or if it is closed with the value that was there.
StaysClosed(u) == up'[u] = up[u] /\ (up[u] = None \/ up[u].location = None)
StaysOpen(u) ==
    \E c \in Contexts, p \in Contexts' :
        /\ OnList(c, u) /\ OnList(p, u)
        /\ p.stack[up'[u].location[2]] = c.stack[up[u].location[2]]
IsClosed(u) ==
    \E c \in Contexts :
        /\ OnList(c, u) /\ up'[u] # None /\ up'[u].location = None
        /\ up'[u].closed = c.stack[up[u].location[2]]
CellKept(u) == StaysClosed(u) \/ StaysOpen(u) \/ IsClosed(u)

LEMMA CellSame ==
    ASSUME IInv, IInv', NEW u \in Cell, CellKept(u)
    PROVE  Cells'[u] = Cells[u]
  <1>1. /\ up[u] = None => Cells[u] = None
        /\ up[u] # None /\ up[u].location = None => Cells[u] = up[u].closed
        /\ \A c \in Contexts : OnList(c, u) => Cells[u] = c.stack[up[u].location[2]]
    BY CellsInv DEF CellsHold
  <1>2. /\ up'[u] = None => Cells'[u] = None
        /\ up'[u] # None /\ up'[u].location = None => Cells'[u] = up'[u].closed
        /\ \A c \in Contexts' : OnList(c, u) => Cells'[u] = c.stack[up'[u].location[2]]
    BY CellsAfter DEF CellsHold
  <1>3. CASE StaysClosed(u)
    BY <1>1, <1>2, <1>3 DEF StaysClosed
  <1>4. CASE StaysOpen(u)
    BY <1>1, <1>2, <1>4 DEF StaysOpen
  <1>5. CASE IsClosed(u)
    BY <1>1, <1>2, <1>5 DEF IsClosed
  <1>6. QED
    BY <1>3, <1>4, <1>5 DEF CellKept

LEMMA CellsSame ==
    ASSUME IInv, IInv', \A u \in Cell : CellKept(u)
    PROVE  Cells' = Cells
  <1>1. \A u \in Cell : Cells'[u] = Cells[u]
    BY CellSame
  <1>2. DOMAIN Cells = Cell /\ DOMAIN Cells' = Cell
        /\ Cells = [u \in Cell |-> Cells[u]] /\ Cells' = [u \in Cell |-> Cells'[u]]
    BY DEF Cells
  <1> QED
    BY <1>1, <1>2

\* Cells of the contexts that a step of the running one leaves alone
LEMMA OtherCells ==
    ASSUME IInv, UNCHANGED switchVars, NEW u \in Cell, ~OnList(vm, u), up'[u] = up[u]
    PROVE  CellKept(u)
  <1>1. CASE up[u] = None \/ up[u].location = None
    BY <1>1 DEF CellKept, StaysClosed
  <1>2. CASE up[u] # None /\ up[u].location # None
    <2>1. PICK c \in Contexts : OnList(c, u)
      BY <1>2 DEF IInv, OpenListed, OnList
    <2>2. c \in Contexts'
      <3>1. c # vm
        BY <2>1
      <3>2. QED
        BY <3>1 DEF switchVars, Contexts
    <2>3. QED
      BY <2>1, <2>2 DEF CellKept, StaysOpen
  <1>3. QED
    BY <1>1, <1>2

LEMMA RunningActs ==
    ASSUME IInv, Executing
    PROVE  /\ Thread = (IF caller = None THEN "main" ELSE "co")
           /\ Thread \in {"main", "co"} /\ DOMAIN Acts = {"main", "co"}
           /\ Acts = [t \in {"main", "co"} |-> Acts[t]]
           /\ Acts[Thread] = ActIn(vm, up) /\ WellFormed(vm, up) /\ Depth(vm) > 0
           /\ A!Active /\ A!Own = OwnIn(vm, up)
  <1>1. Thread = (IF caller = None THEN "main" ELSE "co")
    BY DEF Thread, Executing
  <1>2. Activated(vm) = ActIn(vm, up)
    BY DEF Activated, ActIn, Variable, VarIn
  <1>3. Acts[Thread] = ActIn(vm, up) /\ DOMAIN Acts = {"main", "co"}
    BY <1>1, <1>2 DEF Acts
  <1>4. WellFormed(vm, up) /\ Depth(vm) > 0
    BY WellInv, Running DEF AllWell, Contexts, IInv, TypeOK
  <1>5. Len(ActIn(vm, up)) > 0 /\ ActIn(vm, up) # <<>>
    BY <1>4, OwnIs
  <1>6. A!Active
    BY <1>1, <1>3, <1>5 DEF A!Active
  <1>7. A!Own = OwnIn(vm, up)
    BY <1>3 DEF A!Own, OwnIn
  <1>8. Acts = [t \in {"main", "co"} |-> Acts[t]]
    BY DEF Acts
  <1>9. QED
    BY <1>1, <1>3, <1>4, <1>6, <1>7, <1>8

\* The activations of the other contexts
LEMMA OtherActs ==
    ASSUME IInv, IInv', UNCHANGED switchVars,
           \A u \in Cell : ~OnList(vm, u) /\ up[u] # None /\ up[u].location # None =>
               up'[u] = up[u]
    PROVE  /\ caller # None => ActIn(caller, up') = ActIn(caller, up)
           /\ co # None => ActIn(co, up') = ActIn(co, up)
  <1>1. caller' = caller /\ co' = co
    BY DEF switchVars
  <1>2. WellFormed(vm, up) /\ \A c \in Contexts : WellFormed(c, up)
    BY WellInv DEF AllWell, IInv, TypeOK, Contexts
  <1>3. \A c \in Contexts' : WellFormed(c, up')
    BY WellAfter DEF AllWell
  <1>4. ASSUME NEW c \in Contexts, c \in Contexts', c.block[1] # vm.block[1]
        PROVE  ActIn(c, up') = ActIn(c, up)
    <2>1. WellFormed(c, up) /\ WellFormed(c, up')
      BY <1>2, <1>3, <1>4
    <2>2. ASSUME NEW u, OnList(c, u) PROVE up'[u] = up[u]
      <3>1. ~OnList(vm, u)
        BY <1>2, <1>4, <2>1, <2>2, ListsApart, WellFormedIs
      <3>2. u \in Cell /\ up[u] # None /\ up[u].location # None
        BY <2>1, <2>2, OnListIs
      <3>3. QED
        BY <3>1, <3>2
    <2>3. QED
      BY <2>1, <2>2, ActInKept
  <1>5. caller # None => ActIn(caller, up') = ActIn(caller, up)
    BY <1>1, <1>4, InvContexts DEF Contexts
  <1>6. co # None => ActIn(co, up') = ActIn(co, up)
    BY <1>1, <1>4, InvContexts DEF Contexts
  <1>7. QED
    BY <1>5, <1>6

LEMMA ContextActs ==
    /\ Activated(vm) = ActIn(vm, up) /\ Activated(vm)' = ActIn(vm', up')
    /\ Activated(caller) = ActIn(caller, up) /\ Activated(caller)' = ActIn(caller', up')
    /\ Activated(co) = ActIn(co, up) /\ Activated(co)' = ActIn(co', up')
  BY DEF Activated, ActIn, Variable, VarIn

\* A step of the running context changes the activations of its thread.
LEMMA ActsStep ==
    ASSUME IInv, IInv', Executing, host' = host, UNCHANGED switchVars,
           \A u \in Cell : ~OnList(vm, u) /\ up[u] # None /\ up[u].location # None =>
               up'[u] = up[u]
    PROVE  /\ Thread' = Thread /\ expected' = expected /\ (state = "dead")' = (state = "dead")
           /\ Acts' = [Acts EXCEPT ![Thread] = ActIn(vm', up')]
           /\ WellFormed(vm', up')
  <1>1. caller' = caller /\ co' = co /\ state' = state /\ expected' = expected
    BY DEF switchVars
  <1>2. Thread' = Thread /\ Thread = (IF caller = None THEN "main" ELSE "co")
    BY <1>1, RunningActs DEF Thread
  <1>3. Acts' = [Acts EXCEPT ![Thread] = ActIn(vm', up')]
    BY <1>1, <1>2, OtherActs, ContextActs DEF Acts
  <1>4. WellFormed(vm', up')
    BY WellAfter DEF AllWell, IInv, TypeOK, Contexts
  <1>5. QED
    BY <1>1, <1>2, <1>3, <1>4

\* The innermost activation gets other variables, and nothing else happens.
LEMMA VarsStep ==
    ASSUME IInv, IInv', Executing, host' = host, UNCHANGED switchVars,
           \A u \in Cell : ~OnList(vm, u) /\ up[u] # None /\ up[u].location # None =>
               up'[u] = up[u],
           NEW xs, ActIn(vm', up') = A!WithVars(ActIn(vm, up), xs)
    PROVE  /\ A!SetVars(xs) /\ UNCHANGED <<expected, state = "dead", Thread>>
           /\ A!Active /\ A!Own = OwnIn(vm, up)
  <1>1. /\ Thread' = Thread /\ expected' = expected /\ (state = "dead")' = (state = "dead")
        /\ Acts' = [Acts EXCEPT ![Thread] = ActIn(vm', up')]
    BY ActsStep
  <1>2. A!Active /\ A!Own = OwnIn(vm, up) /\ Acts[Thread] = ActIn(vm, up)
    BY RunningActs
  <1>3. A!SetVars(xs)
    BY <1>1, <1>2 DEF A!SetVars
  <1>4. QED
    BY <1>1, <1>2, <1>3

LEMMA PutDeclares ==
    ASSUME IInv, IInv', Executing, host' = host, UNCHANGED switchVars,
           \A u \in Cell : ~OnList(vm, u) /\ up[u] # None /\ up[u].location # None =>
               up'[u] = up[u],
           NEW c, WellFormed(c, up'), Settled(c, up'), Depth(c) > 0,
           ActIn(c, up') = ActIn(vm, up),
           NEW values \in Seq(Contents), Live(c) + Len(values) <= Frame(c).need,
           vm' = Put(c, Live(c), values), Cells' = Cells
    PROVE  A!Declare(values)
  <1>1. PutFaithful(c, up', values, vm')
    BY PutActs
  <1>2. ActIn(vm', up') = A!WithVars(ActIn(vm, up), OwnIn(vm, up) \o values)
    BY <1>1 DEF PutFaithful, OwnIn
  <1>3. /\ A!SetVars(OwnIn(vm, up) \o values) /\ UNCHANGED <<expected, state = "dead", Thread>>
        /\ A!Active /\ A!Own = OwnIn(vm, up)
    BY <1>2, VarsStep
  <1>4. QED
    BY <1>3 DEF A!Declare

\* No upvalue changes, and the values put are new variables.
LEMMA PutOnly ==
    ASSUME IInv, IInv', ~Leaked, Executing, up' = up, host' = host, UNCHANGED switchVars,
           NEW values \in Seq(Contents), Live(vm) + Len(values) <= Frame(vm).need,
           vm' = Put(vm, Live(vm), values)
    PROVE  A!Declare(values) /\ Cells' = Cells
  <1>1. up' = up /\ host' = host /\ UNCHANGED switchVars
    OBVIOUS
  <1>2. WellFormed(vm, up) /\ Depth(vm) > 0 /\ Settled(vm, up)
    BY RunningActs, SettledInv DEF Contexts, IInv, TypeOK
  <1>3. PutFaithful(vm, up, values, vm')
    BY <1>2, PutActs
  <1>4. ASSUME NEW u \in Cell PROVE CellKept(u)
    <2>1. CASE OnList(vm, u)
      <3>1. OnList(vm', u) /\ vm'.stack[up[u].location[2]] = vm.stack[up[u].location[2]]
        BY <1>3, <2>1 DEF PutFaithful
      <3>2. vm \in Contexts /\ vm' \in Contexts'
        BY DEF IInv, TypeOK, Contexts
      <3>3. QED
        BY <1>1, <2>1, <3>1, <3>2 DEF CellKept, StaysOpen
    <2>2. CASE ~OnList(vm, u)
      BY <1>1, <2>2, OtherCells
    <2>3. QED
      BY <2>1, <2>2
  <1>5. Cells' = Cells
    BY <1>4, CellsSame
  <1>6. A!Declare(values)
    BY <1>1, <1>2, <1>5, PutDeclares
  <1>7. QED
    BY <1>5, <1>6

LEMMA DeclareStep ==
    ASSUME IInv, IInv', ~Leaked, NEW v \in Literal, Declare(v)
    PROVE  A!Next
  <1>1. <<v>> \in Seq(Contents) /\ Len(<<v>>) = 1
    BY Constants
  <1>2. A!Declare(<<v>>)
    BY <1>1, PutOnly DEF Declare, Fits, upvalueVars
  <1>3. A!Same
    BY <1>2 DEF A!Same, A!Inside, A!Declare
  <1>4. QED
    BY <1>3 DEF A!Next

LEMMA GetUpvalStep ==
    ASSUME IInv, IInv', ~Leaked, NEW u \in Cell, GetUpval(u)
    PROVE  A!Next
  <1>1. Deref(u) \in Contents /\ Cells[u] = Deref(u)
    BY DerefIs DEF GetUpval, Cells
  <1>2. <<Deref(u)>> \in Seq(Contents) /\ Len(<<Deref(u)>>) = 1
    BY <1>1
  <1>3. A!Declare(<<Cells[u]>>)
    BY <1>1, <1>2, PutOnly DEF GetUpval, Fits, upvalueVars
  <1>4. Cells[u] # None
    BY <1>1, FramesAssumption
  <1>5. A!Load(u)
    BY <1>3, <1>4 DEF A!Load
  <1>6. A!Same
    BY <1>3, <1>5 DEF A!Same, A!Inside, A!Declare
  <1>7. QED
    BY <1>6 DEF A!Next

\* A live register is overwritten: a variable of its own, or a cell's.
Overwritten(c, ups, s, v, p) ==
    /\ WellFormed(p, ups) /\ p.block = c.block /\ p.frames = c.frames /\ p.open = c.open
    /\ \A t, u : At(p, ups, t, u) <=> At(c, ups, t, u)
    /\ \A t \in 0 .. Capacity(c) - 1 : p.stack[t] = IF t = s THEN v ELSE c.stack[t]

LEMMA OverwriteIs ==
    ASSUME NEW c, NEW ups, WellFormed(c, ups), NEW s \in Nat, s < c.top,
           NEW v \in Contents, NEW p, p = [c EXCEPT !.stack[s] = v]
    PROVE  Overwritten(c, ups, s, v, p) /\ s \in 0 .. Capacity(c) - 1
  <1>1. c \in Context /\ ContextOK(c, ups)
    BY WellFormedIs
  <1>2. /\ p \in Context /\ ContextOK(p, ups) /\ p.block = c.block /\ p.frames = c.frames
        /\ p.open = c.open /\ s \in 0 .. Capacity(c) - 1 /\ p.stack = [c.stack EXCEPT ![s] = v]
    BY <1>1, OverwriteKeeps
  <1>3. c.stack \in [0 .. Capacity(c) - 1 -> Contents]
    BY <1>1, ContextShape
  <1>4. \A t \in 0 .. Capacity(c) - 1 : p.stack[t] = IF t = s THEN v ELSE c.stack[t]
    BY <1>2, <1>3
  <1>5. WellFormed(p, ups)
    BY <1>2 DEF WellFormed, Owned, OnList
  <1>6. \A t, u : At(p, ups, t, u) <=> At(c, ups, t, u)
    BY <1>2 DEF At, OnList
  <1>7. QED
    BY <1>2, <1>4, <1>5, <1>6 DEF Overwritten

\* What an upvalue points at is no variable of the stack.
LEMMA OverwrittenCell ==
    ASSUME NEW c, NEW ups, WellFormed(c, ups), NEW s \in Nat, NEW v, NEW p,
           Overwritten(c, ups, s, v, p), NEW u \in Cell, At(c, ups, s, u)
    PROVE  ActIn(p, ups) = ActIn(c, ups)
  <1>1. WellFormed(p, ups) /\ p.frames = c.frames
        /\ \A t, w : At(p, ups, t, w) <=> At(c, ups, t, w)
    BY DEF Overwritten
  <1>2. ASSUME NEW t \in Nat, LiveSlot(c, t)
        PROVE  VarIn(p, ups, t) = VarIn(c, ups, t)
    <2>1. t \in 0 .. Capacity(c) - 1
      BY <1>2, LiveInside, WellFormedIs
    <2>2. t # s => p.stack[t] = c.stack[t]
      BY <2>1 DEF Overwritten
    <2>3. QED
      BY <1>1, <2>2, VarInSame
  <1>3. QED
    BY <1>1, <1>2, ActInSame

LEMMA OverwrittenVar ==
    ASSUME NEW c, NEW ups, WellFormed(c, ups), Depth(c) > 0, NEW k \in 1 .. Live(c),
           NEW v \in Contents, NEW p,
           Overwritten(c, ups, Frame(c).slots[2] + k - 1, v, p),
           \A u \in Cell : ~At(c, ups, Frame(c).slots[2] + k - 1, u)
    PROVE  ActIn(p, ups) = A!WithVars(ActIn(c, ups), [OwnIn(c, ups) EXCEPT ![k] = v])
  <1> DEFINE at == Frame(c).slots[2]  own == OwnIn(c, ups)  xs == [own EXCEPT ![k] = v]
             s == at + k - 1
  <1>1. /\ WellFormed(p, ups) /\ p.frames = c.frames
        /\ \A t, w : At(p, ups, t, w) <=> At(c, ups, t, w)
        /\ \A t \in 0 .. Capacity(c) - 1 : p.stack[t] = IF t = s THEN v ELSE c.stack[t]
        /\ \A u \in Cell : ~At(c, ups, s, u)
    BY DEF Overwritten
  <1>2. /\ own \in Vars /\ Len(own) = Live(c) /\ Live(c) \in Nat /\ at \in Nat
        /\ at + Live(c) <= Capacity(c) /\ Capacity(c) \in Nat
        /\ \A j \in 1 .. Live(c) : own[j] = VarIn(c, ups, at + j - 1)
    <2>1. /\ own \in Vars /\ Len(own) = Live(c) /\ Live(c) \in Nat /\ at \in Nat
          /\ Live(c) <= Frame(c).need /\ Frame(c).need \in Nat
          /\ at + Frame(c).need <= Capacity(c) /\ Capacity(c) \in Nat
          /\ \A j \in 1 .. Live(c) : own[j] = VarIn(c, ups, at + j - 1)
      BY OwnIs
    <2> HIDE DEF at, own
    <2>2. at + Live(c) <= Capacity(c)
      BY <2>1
    <2>3. QED
      BY <2>1, <2>2
  <1> HIDE DEF own, at, s
  <1>3. xs \in Vars /\ Len(xs) = Live(c)
        /\ \A j \in 1 .. Live(c) : xs[j] = IF j = k THEN v ELSE own[j]
    <2>1. own \in Seq(Var) /\ k \in 1 .. Len(own) /\ v \in Var
      BY <1>2 DEF Vars, Var
    <2>2. QED
      BY <1>2, <2>1, ExceptSeq DEF Vars
  <1> HIDE DEF xs
  <1>4. ASSUME NEW t \in Nat, t # s, t < at + Live(c)
        PROVE  VarIn(p, ups, t) = VarIn(c, ups, t)
    <2>1. t \in 0 .. Capacity(c) - 1
      BY <1>2, <1>4
    <2>2. p.stack[t] = c.stack[t]
      BY <1>1, <1>4, <2>1
    <2>3. QED
      BY <1>1, <2>2, VarInSame
  <1>5. ASSUME NEW j \in 1 .. Live(c)
        PROVE  xs[j] = VarIn(p, ups, at + j - 1)
    <2>1. at + j - 1 \in Nat /\ at + j - 1 < at + Live(c) /\ at + j - 1 \in 0 .. Capacity(c) - 1
      BY <1>2
    <2>2. CASE j = k
      <3>1. at + j - 1 = s
        BY <2>2 DEF s
      <3>2. p.stack[s] = v /\ s \in Nat
        BY <1>1, <2>1, <3>1
      <3>3. VarIn(p, ups, s) = v
        BY <1>1, <3>2, VarInIs
      <3>4. QED
        BY <1>3, <2>2, <3>1, <3>3
    <2>3. CASE j # k
      <3>1. at + j - 1 # s
        BY <1>2, <2>3 DEF s
      <3>2. QED
        BY <1>2, <1>3, <1>4, <2>1, <2>3, <3>1
    <2>4. QED
      BY <2>2, <2>3
  <1>6. \A t \in Nat : t < at => VarIn(p, ups, t) = VarIn(c, ups, t)
    <2> SUFFICES ASSUME NEW t \in Nat, t < at PROVE VarIn(p, ups, t) = VarIn(c, ups, t)
      OBVIOUS
    <2>1. t # s /\ t < at + Live(c)
      BY <1>2 DEF s
    <2>2. QED
      BY <1>4, <2>1
  <1>7. Live(p) = Live(c) /\ Depth(p) = Depth(c)
    BY <1>1 DEF Live, Frame, Depth
  <1>8. \A t \in Nat : t < Frame(c).slots[2] => VarIn(p, ups, t) = VarIn(c, ups, t)
    BY <1>6 DEF at
  <1>9. \A j \in 1 .. Len(xs) : xs[j] = VarIn(p, ups, Frame(c).slots[2] + j - 1)
    BY <1>3, <1>5 DEF at
  <1>10. ActIn(p, ups) = A!WithVars(ActIn(c, ups), xs)
    BY <1>1, <1>3, <1>7, <1>8, <1>9, ActInTop
  <1>11. QED
    BY <1>10 DEF xs, own

LEMMA CellsChange ==
    ASSUME NEW u \in Cell, NEW v, Cells'[u] = v,
           \A w \in Cell : w # u => Cells'[w] = Cells[w]
    PROVE  Cells' = [Cells EXCEPT ![u] = v]
  <1>1. DOMAIN Cells = Cell /\ DOMAIN Cells' = Cell
        /\ Cells = [w \in Cell |-> Cells[w]] /\ Cells' = [w \in Cell |-> Cells'[w]]
    BY DEF Cells
  <1>2. QED
    BY <1>1

LEMMA VarIsNoCell ==
    ASSUME NEW x \in Contents
    PROVE  x \notin [cell : Cell]
  BY FramesAssumption

LEMMA AssignStep ==
    ASSUME IInv, IInv', NEW v \in Literal, NEW i \in 1 .. MaxStack, Assign(i, v)
    PROVE  A!Next
  <1> DEFINE at == Frame(vm).slots[2]  s == at + i  own == OwnIn(vm, up)
  <1>1. /\ Executing /\ host' = host /\ UNCHANGED switchVars /\ up' = up
        /\ WellFormed(vm, up) /\ Depth(vm) > 0 /\ v \in Contents
        /\ i \in 1 .. Live(vm) - 1
    BY RunningActs, Constants DEF Assign, upvalueVars
  <1>2. /\ Live(vm) \in Nat /\ at \in Nat /\ SlotOf(vm, i) = <<vm.block, at + i>>
        /\ at + Live(vm) <= vm.top /\ vm.top \in Nat /\ vm.top <= Capacity(vm)
        /\ Capacity(vm) \in Nat
        /\ \A k \in 1 .. Live(vm) : own[k] = VarIn(vm, up, at + k - 1)
    <2>1. /\ Live(vm) \in 1 .. Frame(vm).need /\ Frame(vm).need \in Nat /\ at \in Nat
          /\ at + Frame(vm).need <= vm.top /\ vm.top \in Nat /\ vm.top <= Capacity(vm)
          /\ Capacity(vm) \in Nat
      BY <1>1, FrameShape, WellFormedIs, ContextShape DEF NullAbove
    <2>2. SlotOf(vm, i) = <<vm.block, at + i>>
      <3>1. i \in Nat
        BY FramesAssumption
      <3>2. QED
        BY <1>1, <3>1, FrameShape, WellFormedIs
    <2>3. \A k \in 1 .. Live(vm) : own[k] = VarIn(vm, up, at + k - 1)
      BY <1>1, OwnIs
    <2> HIDE DEF at, own
    <2>4. at + Live(vm) <= vm.top
      BY <2>1
    <2>5. QED
      BY <2>1, <2>2, <2>3, <2>4
  <1>3. vm' = [vm EXCEPT !.stack[s] = v]
    BY <1>2 DEF Assign
  <1> HIDE DEF own, at
  <1>4. s \in Nat /\ s < vm.top /\ i + 1 \in 1 .. Live(vm) /\ s = at + (i + 1) - 1
        /\ s < Capacity(vm)
    BY <1>1, <1>2
  <1> HIDE DEF s
  <1>5. Overwritten(vm, up, s, v, vm') /\ s \in 0 .. Capacity(vm) - 1
    BY <1>1, <1>3, <1>4, OverwriteIs
  <1>6. own[i + 1] = VarIn(vm, up, s)
    BY <1>2, <1>4
  <1>7. Thread' = Thread /\ A!Active /\ A!Own = own /\ expected' = expected
        /\ (state = "dead")' = (state = "dead") /\ Acts[Thread] = ActIn(vm, up)
        /\ Acts' = [Acts EXCEPT ![Thread] = ActIn(vm', up')]
        /\ Acts = [t \in {"main", "co"} |-> Acts[t]]
    BY <1>1, ActsStep, RunningActs DEF own
  <1>8. ASSUME NEW w \in Cell, ~At(vm, up, s, w)
        PROVE  Cells'[w] = Cells[w]
    <2>1. CASE OnList(vm, w)
      <3>1. OnList(vm', w) /\ up[w].location[2] # s
        BY <1>5, <1>8, <2>1 DEF Overwritten, OnList, At
      <3>2. up[w].location[2] \in 0 .. Capacity(vm) - 1
        BY <1>1, <2>1, OnListIs, SlotInside, WellFormedIs
      <3>3. vm'.stack[up[w].location[2]] = vm.stack[up[w].location[2]]
        BY <1>5, <3>1, <3>2 DEF Overwritten
      <3>4. vm \in Contexts /\ vm' \in Contexts'
        BY DEF IInv, TypeOK, Contexts
      <3>5. CellKept(w)
        BY <1>1, <2>1, <3>1, <3>3, <3>4 DEF CellKept, StaysOpen
      <3>6. QED
        BY <3>5, CellSame
    <2>2. CASE ~OnList(vm, w)
      <3>1. CellKept(w)
        BY <1>1, <2>2, OtherCells
      <3>2. QED
        BY <3>1, CellSame
    <2>3. QED
      BY <2>1, <2>2
  <1>9. A!Assign(i + 1, v)
    <2>1. CASE \E u \in Cell : At(vm, up, s, u)
      <3>1. PICK u \in Cell : At(vm, up, s, u)
        BY <2>1
      <3>2. own[i + 1] = [cell |-> u] /\ own[i + 1] \in [cell : Cell] /\ own[i + 1].cell = u
        BY <1>1, <1>4, <1>6, <3>1, VarInIs
      <3>3. ActIn(vm', up') = ActIn(vm, up)
        BY <1>1, <1>4, <1>5, <3>1, OverwrittenCell
      <3>4. Acts' = Acts
        BY <1>7, <3>3
      <3>5. \A w \in Cell : w # u => Cells'[w] = Cells[w]
        BY <1>1, <1>8, <3>1, AtUnique
      <3>6. Cells'[u] = v
        <4>1. OnList(vm', u) /\ up[u].location[2] = s /\ vm' \in Contexts'
          BY <1>5, <3>1 DEF Overwritten, OnList, At, IInv, TypeOK, Contexts
        <4>2. Cells'[u] = vm'.stack[s]
          BY <1>1, <4>1, CellsAfter DEF CellsHold
        <4>3. QED
          BY <1>5, <4>2 DEF Overwritten
      <3>7. Cells' = [Cells EXCEPT ![u] = v]
        BY <3>5, <3>6, CellsChange
      <3>8. QED
        BY <1>7, <3>2, <3>4, <3>7 DEF A!Assign
    <2>2. CASE ~\E u \in Cell : At(vm, up, s, u)
      <3>1. own[i + 1] = vm.stack[s]
        BY <1>1, <1>4, <1>6, <2>2, VarInIs
      <3>2. own[i + 1] \notin [cell : Cell]
        <4>1. vm.stack[s] \in Contents
          BY <1>1, <1>5, WellFormedIs, ContextShape
        <4>2. QED
          BY <3>1, <4>1, VarIsNoCell
      <3>3. ActIn(vm', up') = A!WithVars(ActIn(vm, up), [own EXCEPT ![i + 1] = v])
        BY <1>1, <1>4, <1>5, <2>2, OverwrittenVar DEF own, at
      <3>4. A!SetVars([own EXCEPT ![i + 1] = v])
        BY <1>1, <3>3, VarsStep
      <3>5. Cells' = Cells
        <4>1. \A w \in Cell : Cells'[w] = Cells[w]
          BY <1>8, <2>2
        <4>2. QED
          BY <4>1 DEF Cells
      <3>6. QED
        BY <1>7, <3>2, <3>4, <3>5 DEF A!Assign
    <2>3. QED
      BY <2>1, <2>2
  <1>10. i + 1 \in DOMAIN own
    BY <1>1, <1>4, OwnIs, VarsIs DEF own
  <1>11. A!Same
    BY <1>7, <1>9, <1>10 DEF A!Same, A!Inside
  <1>12. QED
    BY <1>11 DEF A!Next

\* Mirrors Write, of SetUpval.
Writing(c, p, v) ==
    IF c # None /\ p # None /\ c.block = p[1] THEN [c EXCEPT !.stack[p[2]] = v] ELSE c

LEMMA WritingIs ==
    ASSUME NEW c, WellFormed(c, up), NEW u \in Cell, up[u] # None,
           NEW v \in Contents, NEW p, p = Writing(c, up[u].location, v)
    PROVE  /\ WellFormed(p, up) /\ p.block = c.block /\ p.open = c.open
           /\ ActIn(p, up) = ActIn(c, up)
           /\ \A w : OnList(c, w) /\ w # u =>
                p.stack[up[w].location[2]] = c.stack[up[w].location[2]]
           /\ OnList(c, u) => p.stack[up[u].location[2]] = v
  <1>1. c # None
    BY WellFormedIs
  <1>2. CASE OnList(c, u)
    <2> DEFINE s == up[u].location[2]
    <2>1. /\ up[u].location # None /\ up[u].location = <<c.block, s>> /\ s \in Nat
          /\ FrameSlot(c, s)
      BY <1>2, OnListIs
    <2>2. s < c.top
      BY <2>1, SlotInside, WellFormedIs
    <2> HIDE DEF s
    <2>3. p = [c EXCEPT !.stack[s] = v]
      BY <1>1, <2>1 DEF Writing, s
    <2>4. Overwritten(c, up, s, v, p) /\ s \in 0 .. Capacity(c) - 1
      BY <2>1, <2>2, <2>3, OverwriteIs
    <2>5. At(c, up, s, u)
      BY <1>2 DEF At, s
    <2>6. ActIn(p, up) = ActIn(c, up)
      BY <2>1, <2>4, <2>5, OverwrittenCell
    <2>7. ASSUME NEW w, OnList(c, w), w # u
          PROVE  p.stack[up[w].location[2]] = c.stack[up[w].location[2]]
      <3>1. up[w].location[2] # s
        BY <2>5, <2>7, AtUnique DEF At
      <3>2. up[w].location[2] \in 0 .. Capacity(c) - 1
        BY <2>7, OnListIs, SlotInside, WellFormedIs
      <3>3. QED
        BY <2>4, <3>1, <3>2 DEF Overwritten
    <2>8. QED
      BY <2>4, <2>6, <2>7 DEF Overwritten, s
  <1>3. CASE ~OnList(c, u)
    <2>1. ~(up[u].location # None /\ c.block = up[u].location[1])
      BY <1>3 DEF WellFormed, Owned
    <2>2. p = c
      BY <2>1 DEF Writing
    <2>3. QED
      BY <1>3, <2>2
  <1>4. QED
    BY <1>2, <1>3

LEMMA SetUpvalStep ==
    ASSUME IInv, IInv', NEW u \in Cell, NEW v \in Literal, SetUpval(u, v)
    PROVE  A!Next
  <1> DEFINE p == up[u].location
  <1>1. /\ up[u] # None /\ Executing /\ expected' = expected /\ state' = state
        /\ host' = host /\ v \in Contents /\ up[u] \in Upvalue
        /\ up \in [Cell -> Upvalue \cup {None}]
    BY Constants, InvContexts DEF SetUpval
  <1>2. \A c \in Contexts : WellFormed(c, up) /\ c # None
    BY WellInv DEF AllWell, Contexts
  <1>3. vm \in Contexts /\ vm' \in Contexts' /\ vm # None
        /\ (caller # None => caller \in Contexts) /\ (co # None => co \in Contexts)
    BY DEF IInv, TypeOK, Contexts
  <1>4. /\ ActIn(vm', up') = ActIn(vm, up)
        /\ (caller' = None) = (caller = None) /\ (co' = None) = (co = None)
        /\ caller # None => ActIn(caller', up') = ActIn(caller, up)
        /\ co # None => ActIn(co', up') = ActIn(co, up)
        /\ \A w \in Cell : w # u => CellKept(w)
        /\ Cells'[u] = v
    <2>1. CASE p = None
      <3>1. vm' = vm /\ caller' = caller /\ co' = co /\ up' = [up EXCEPT ![u].closed = v]
        BY <2>1 DEF SetUpval
      <3> DEFINE r == [up[u] EXCEPT !.closed = v]
      <3>2. r \in Upvalue /\ r.location = None /\ r.closed = v
        BY <1>1, <2>1 DEF Upvalue
      <3>3. up' = [up EXCEPT ![u] = r]
        BY <3>1
      <3> HIDE DEF r
      <3>4. up'[u] = r /\ \A w \in Cell : w # u => up'[w] = up[w]
        BY <1>1, <3>3
      <3>5. ASSUME NEW c \in Contexts PROVE ActIn(c, up') = ActIn(c, up)
        <4>1. WellFormed(c, up) /\ WellFormed(c, up')
          BY <1>2, <3>1, WellAfter DEF AllWell, Contexts
        <4>2. ASSUME NEW w, OnList(c, w) PROVE up'[w] = up[w]
          <5>1. w \in Cell /\ w # u
            BY <2>1, <4>1, <4>2, OnListIs
          <5>2. QED
            BY <3>4, <5>1
        <4>3. QED
          BY <4>1, <4>2, ActInKept
      <3>6. ASSUME NEW w \in Cell, w # u PROVE CellKept(w)
        <4>1. up'[w] = up[w] /\ Contexts' = Contexts
          BY <3>1, <3>4, <3>6 DEF Contexts
        <4>2. CASE up[w] = None \/ up[w].location = None
          BY <4>1, <4>2 DEF CellKept, StaysClosed
        <4>3. CASE up[w] # None /\ up[w].location # None
          <5>1. PICK c \in Contexts : OnList(c, w)
            BY <4>3 DEF IInv, OpenListed, OnList
          <5>2. QED
            BY <4>1, <5>1 DEF CellKept, StaysOpen
        <4>4. QED
          BY <4>2, <4>3
      <3>7. Cells'[u] = v
        <4>1. up'[u] # None /\ up'[u].location = None /\ up'[u].closed = v
          BY <3>2, <3>4, FramesAssumption
        <4>2. QED
          BY <4>1, CellsAfter DEF CellsHold
      <3>8. QED
        BY <1>3, <3>1, <3>5, <3>6, <3>7
    <2>2. CASE p # None
      <3>1. /\ vm' = Writing(vm, p, v) /\ caller' = Writing(caller, p, v)
            /\ co' = Writing(co, p, v) /\ up' = up
        BY <2>2 DEF SetUpval, Writing
      <3>2. ASSUME NEW c \in Contexts
            PROVE  LET x == Writing(c, p, v) IN
                   /\ x # None /\ x.open = c.open /\ ActIn(x, up) = ActIn(c, up)
                   /\ \A w : OnList(c, w) /\ w # u =>
                        x.stack[up[w].location[2]] = c.stack[up[w].location[2]]
                   /\ OnList(c, u) => x.stack[up[u].location[2]] = v
        BY <1>1, <1>2, WritingIs, WellFormedIs
      <3>3. ASSUME NEW c \in Contexts PROVE Writing(c, p, v) \in Contexts'
        BY <3>1, <3>2 DEF Contexts
      <3>4. Writing(None, p, v) = None
        BY DEF Writing
      <3> HIDE DEF p
      <3>5. ASSUME NEW w \in Cell, w # u PROVE CellKept(w)
        <4>1. CASE up[w] = None \/ up[w].location = None
          BY <3>1, <4>1 DEF CellKept, StaysClosed
        <4>2. CASE up[w] # None /\ up[w].location # None
          <5>1. PICK c \in Contexts : OnList(c, w)
            BY <4>2 DEF IInv, OpenListed, OnList
          <5>2. OnList(Writing(c, p, v), w)
            BY <3>2, <5>1 DEF OnList
          <5>3. Writing(c, p, v).stack[up[w].location[2]] = c.stack[up[w].location[2]]
            BY <3>2, <3>5, <5>1
          <5>4. QED
            BY <3>1, <3>3, <5>1, <5>2, <5>3 DEF CellKept, StaysOpen
        <4>3. QED
          BY <4>1, <4>2
      <3>6. Cells'[u] = v
        <4>1. PICK c \in Contexts : OnList(c, u)
          BY <1>1, <2>2 DEF IInv, OpenListed, OnList, p
        <4>2. OnList(Writing(c, p, v), u) /\ Writing(c, p, v).stack[up[u].location[2]] = v
          BY <3>2, <4>1 DEF OnList
        <4>3. Cells'[u] = Writing(c, p, v).stack[up'[u].location[2]]
          BY <3>3, <4>1, <4>2, CellsAfter DEF CellsHold
        <4>4. QED
          BY <3>1, <4>2, <4>3
      <3>7. QED
        BY <1>3, <3>1, <3>2, <3>4, <3>5, <3>6
    <2>3. QED
      BY <2>1, <2>2
  <1>5. \A w \in Cell : w # u => Cells'[w] = Cells[w]
    BY <1>4, CellSame
  <1>6. Cells' = [Cells EXCEPT ![u] = v]
    BY <1>4, <1>5, CellsChange
  <1>7. Acts' = Acts
    BY <1>4, ContextActs DEF Acts
  <1>8. Thread' = Thread
    BY <1>1, <1>4 DEF Thread
  <1>9. Cells[u] # None
    <2>1. Cells[u] \in Contents
      BY <1>1, CellsInv DEF CellsHold
    <2>2. QED
      BY <2>1, FramesAssumption
  <1>10. A!Store(u, v)
    BY <1>1, <1>6, <1>7, <1>8, <1>9 DEF A!Store
  <1>11. A!Same
    BY <1>1, <1>8, <1>10, RunningActs DEF A!Same, A!Inside
  <1>12. QED
    BY <1>11 DEF A!Next

\* Upvalues are closed from slot s on.
LEMMA ClosedCells ==
    ASSUME IInv, NEW s \in Nat, up' = MovedIn(vm, s)
    PROVE  /\ \A u \in Cell : ~OnList(vm, u) => up'[u] = up[u]
           /\ \A u : OnList(vm, u) /\ up[u].location[2] < s => up'[u] = up[u]
           /\ \A u : OnList(vm, u) /\ up[u].location[2] >= s =>
                /\ up'[u] # None /\ up'[u].location = None
                /\ up'[u].closed = vm.stack[up[u].location[2]]
  <1>1. /\ vm \in Context /\ ContextOK(vm, up) /\ OpenSorted(vm, up)
        /\ up \in [Cell -> Upvalue \cup {None}] /\ WellFormed(vm, up)
    BY InvContexts, WellInv DEF AllWell, Contexts, IInv, TypeOK
  <1>2. /\ \A k \in 1 .. Len(vm.open) :
             vm.open[k] \in Gone(vm, s) <=> up[vm.open[k]].location[2] >= s
        /\ \A u \in Gone(vm, s) : \E k \in 1 .. Len(vm.open) : u = vm.open[k]
    BY <1>1, GoneIs
  <1>3. /\ \A u \in Cell : u \notin Gone(vm, s) => up'[u] = up[u]
        /\ \A u \in Gone(vm, s) : up'[u] = [location |-> None,
                                            closed |-> vm.stack[up[u].location[2]]]
    <2>1. Gone(vm, s) \subseteq Cell
      BY <1>1, GoneIs
    <2>2. QED
      BY <1>1, <2>1 DEF MovedIn
  <1>4. ASSUME NEW u, OnList(vm, u)
        PROVE  /\ u \in Cell /\ up[u].location[2] \in Nat
               /\ u \in Gone(vm, s) <=> up[u].location[2] >= s
    BY <1>1, <1>2, <1>4, OnListIs DEF OnList
  <1>5. ASSUME NEW u, OnList(vm, u), up[u].location[2] < s
        PROVE  up'[u] = up[u]
    BY <1>3, <1>4, <1>5
  <1>6. ASSUME NEW u \in Cell, ~OnList(vm, u)
        PROVE  up'[u] = up[u]
    BY <1>2, <1>3, <1>6 DEF OnList
  <1>7. ASSUME NEW u, OnList(vm, u), up[u].location[2] >= s
        PROVE  /\ up'[u] # None /\ up'[u].location = None
               /\ up'[u].closed = vm.stack[up[u].location[2]]
    <2>1. up'[u] = [location |-> None, closed |-> vm.stack[up[u].location[2]]]
      BY <1>3, <1>4, <1>7
    <2>2. vm.stack[up[u].location[2]] \in Contents
      BY <1>1, <1>7, OpenInside DEF OnList
    <2>3. up'[u] \in Upvalue
      BY <2>1, <2>2 DEF Upvalue
    <2>4. QED
      BY <2>1, <2>3, FramesAssumption
  <1>8. QED
    BY <1>5, <1>6, <1>7

\* The cells and the lower variables of a stack from which upvalues are closed
LEMMA CloseIs ==
    ASSUME IInv, NEW s \in Nat, up' = MovedIn(vm, s), vm'.open = Closed(vm, s).open
    PROVE  /\ \A u \in Cell : ~OnList(vm, u) => up'[u] = up[u]
           /\ \A u : OnList(vm', u) => OnList(vm, u) /\ up[u].location[2] < s
           /\ \A u : OnList(vm, u) /\ up[u].location[2] < s =>
                OnList(vm', u) /\ up'[u] = up[u]
           /\ \A u : OnList(vm, u) /\ up[u].location[2] >= s =>
                /\ up'[u] # None /\ up'[u].location = None
                /\ up'[u].closed = vm.stack[up[u].location[2]]
  <1>1. /\ vm \in Context /\ ContextOK(vm, up) /\ OpenSorted(vm, up)
        /\ up \in [Cell -> Upvalue \cup {None}] /\ WellFormed(vm, up)
    BY InvContexts, WellInv DEF AllWell, Contexts, IInv, TypeOK
  <1>4. ASSUME NEW u, OnList(vm', u)
        PROVE  OnList(vm, u) /\ up[u].location[2] < s
    <2>1. PICK k \in 1 .. Len(vm'.open) : vm'.open[k] = u
      BY <1>4 DEF OnList
    <2> DEFINE n == Closing(vm, s)
    <2>2. n \in 0 .. Len(vm.open) /\ k \in Nat /\ k >= 1
          /\ k + n \in 1 .. Len(vm.open) /\ vm'.open[k] = vm.open[k + n]
      <3>1. n \in 0 .. Len(vm.open)
        BY <1>1, ClosingIs
      <3> DEFINE q == Closed(vm, s)
      <3>2. \A j \in 1 .. Len(q.open) : j + n \in 1 .. Len(vm.open) /\ q.open[j] = vm.open[j + n]
        BY <1>1, ClosedIs
      <3> HIDE DEF n
      <3>3. k \in 1 .. Len(q.open) /\ vm'.open = q.open
        BY <2>1
      <3>4. k \in Nat /\ k >= 1
        BY <2>1
      <3>5. QED
        BY <3>1, <3>2, <3>3, <3>4
    <2>3. up[vm.open[k + n]].location[2] >= s <=> k + n <= n
      BY <1>1, <2>2, ClosingIs
    <2> HIDE DEF n
    <2>4. ~(k + n <= n)
      BY <2>2
    <2>5. OnList(vm, u)
      BY <2>1, <2>2 DEF OnList
    <2>6. up[u].location[2] \in Nat
      BY <1>1, <2>5, OnListIs
    <2>7. up[u].location[2] < s
      BY <2>1, <2>2, <2>3, <2>4, <2>6
    <2>8. QED
      BY <2>5, <2>7
  <1>6. ASSUME NEW u, OnList(vm, u), up[u].location[2] < s
        PROVE  OnList(vm', u) /\ up'[u] = up[u]
    <2>1. PICK k \in 1 .. Len(vm.open) : vm.open[k] = u
      BY <1>6 DEF OnList
    <2>2. OnList(vm', u)
      BY <1>1, <1>6, <2>1, ClosedIs DEF OnList
    <2>3. QED
      BY <1>6, <2>2, ClosedCells
  <1>9. QED
    BY <1>4, <1>6, ClosedCells

LEMMA CloseVars ==
    ASSUME IInv, IInv', NEW s \in Nat, up' = MovedIn(vm, s), vm'.open = Closed(vm, s).open,
           \A t \in Nat : t < s /\ FrameSlot(vm, t) => vm'.stack[t] = vm.stack[t]
    PROVE  /\ \A u \in Cell : OnList(vm, u) => CellKept(u)
           /\ \A t \in Nat : t < s /\ LiveSlot(vm, t) => VarIn(vm', up', t) = VarIn(vm, up, t)
  <1>1. /\ WellFormed(vm, up) /\ WellFormed(vm', up') /\ vm \in Contexts /\ vm' \in Contexts'
    BY WellInv, WellAfter DEF AllWell, Contexts, IInv, TypeOK
  <1>2. /\ \A u : OnList(vm', u) => OnList(vm, u) /\ up[u].location[2] < s
        /\ \A u : OnList(vm, u) /\ up[u].location[2] < s => OnList(vm', u) /\ up'[u] = up[u]
        /\ \A u : OnList(vm, u) /\ up[u].location[2] >= s =>
             /\ up'[u] # None /\ up'[u].location = None
             /\ up'[u].closed = vm.stack[up[u].location[2]]
    BY CloseIs
  <1>3. ASSUME NEW u \in Cell, OnList(vm, u)
        PROVE  CellKept(u)
    <2>1. up[u].location[2] \in Nat /\ FrameSlot(vm, up[u].location[2])
      BY <1>1, <1>3, OnListIs
    <2>2. CASE up[u].location[2] < s
      <3>1. OnList(vm', u) /\ up'[u] = up[u]
        BY <1>2, <1>3, <2>2
      <3>2. vm'.stack[up[u].location[2]] = vm.stack[up[u].location[2]]
        BY <2>1, <2>2
      <3>3. QED
        BY <1>1, <1>3, <3>1, <3>2 DEF CellKept, StaysOpen
    <2>3. CASE up[u].location[2] >= s
      BY <1>1, <1>2, <1>3, <2>3 DEF CellKept, IsClosed
    <2>4. QED
      BY <2>1, <2>2, <2>3
  <1>4. ASSUME NEW t \in Nat, t < s, LiveSlot(vm, t)
        PROVE  VarIn(vm', up', t) = VarIn(vm, up, t)
    <2>1. \A u \in Cell : At(vm', up', t, u) <=> At(vm, up, t, u)
      BY <1>2, <1>4 DEF At
    <2>2. vm'.stack[t] = vm.stack[t]
      BY <1>1, <1>4, LiveInside, WellFormedIs
    <2>3. QED
      BY <1>1, <1>4, <2>1, <2>2, VarInSame
  <1>5. QED
    BY <1>3, <1>4

\* The variables of the innermost frame are in use.
LEMMA BelowLive ==
    ASSUME NEW c, NEW ups, WellFormed(c, ups), Depth(c) > 0,
           NEW k \in 1 .. Live(c)
    PROVE  LiveSlot(c, Frame(c).slots[2] + k - 1)
  <1>1. /\ Depth(c) \in DOMAIN c.frames /\ Frame(c) = c.frames[Depth(c)]
        /\ Live(c) = c.frames[Depth(c)].live
    BY FrameShape, WellFormedIs, ContextShape
  <1>2. Frame(c).slots[2] \in Nat /\ Live(c) \in Nat
    BY OwnIs
  <1> DEFINE at == Frame(c).slots[2]
  <1>3. at + k - 1 \in at .. at + Live(c) - 1
    <2> HIDE DEF at
    <2>1. QED
      BY <1>2 DEF at
  <1>4. QED
    BY <1>1, <1>3 DEF LiveSlot

\* The registers from n on are free: those below, and the cells, are untouched.
LEMMA FreedStep ==
    ASSUME IInv, IInv', Executing, host' = host, UNCHANGED switchVars,
           NEW n \in Nat, n \in 1 .. Live(vm) - 1, NEW q \in Context,
           q.block = vm.block, q.stack = vm.stack, q.top = vm.top, q.frames = vm.frames,
           vm' = Freed(q, n), \A u \in Cell : ~OnList(vm, u) => up'[u] = up[u],
           \A u \in Cell : CellKept(u),
           \A t \in Nat : t < Frame(vm).slots[2] + n /\ LiveSlot(vm, t) =>
               VarIn(vm', up', t) = VarIn(vm, up, t)
    PROVE  A!Next
  <1> DEFINE at == Frame(vm).slots[2]  own == OwnIn(vm, up)  xs == SubSeq(own, 1, n)
  <1>1. WellFormed(vm, up) /\ WellFormed(vm', up') /\ Depth(vm) > 0
    BY RunningActs, WellAfter DEF AllWell, IInv, TypeOK, Contexts
  <1>2. /\ at \in Nat /\ Len(vm'.frames) = Len(vm.frames)
        /\ \A d \in 1 .. Len(vm.frames) :
              /\ SameFrame(vm'.frames[d], vm.frames[d])
              /\ vm'.frames[d].live = IF d = Depth(vm) THEN n ELSE vm.frames[d].live
    BY FreedIs
  <1>3. /\ own \in Vars /\ Len(own) = Live(vm) /\ Live(vm) \in Nat
        /\ \A k \in 1 .. Live(vm) : own[k] = VarIn(vm, up, at + k - 1)
    BY <1>1, OwnIs
  <1>4. n \in 1 .. Live(vm) /\ n < Live(vm)
    BY <1>3
  <1>5. \A t \in Nat : t < at + n /\ LiveSlot(vm, t) => VarIn(vm', up', t) = VarIn(vm, up, t)
    OBVIOUS
  <1> HIDE DEF at, own
  <1>7. Cells' = Cells
    BY CellsSame
  <1>8. xs \in Vars /\ Len(xs) = n /\ \A k \in 1 .. n : xs[k] = own[k]
    <2>1. \A k \in 1 .. n : own[k] \in Var
      BY <1>3, <1>4, VarsIs
    <2>2. n - 1 + 1 = n /\ 1 <= n /\ 1 \in Int /\ n \in Int
      BY <1>4
    <2>3. /\ xs \in Seq(Var) /\ Len(xs) = IF 1 <= n THEN n - 1 + 1 ELSE 0
          /\ \A k \in 1 .. n - 1 + 1 : xs[k] = own[1 + k - 1]
      BY <2>1, <2>2, SubSeqProperties
    <2>4. \A k \in 1 .. n : 1 + k - 1 = k
      BY <1>4
    <2> HIDE DEF xs
    <2>5. QED
      BY <2>2, <2>3, <2>4 DEF Vars
  <1> HIDE DEF xs
  <1>9. \A k \in 1 .. Len(xs) : xs[k] = VarIn(vm', up', Frame(vm).slots[2] + k - 1)
    <2> SUFFICES ASSUME NEW k \in 1 .. n PROVE xs[k] = VarIn(vm', up', at + k - 1)
      BY <1>8 DEF at
    <2>1. k \in 1 .. Live(vm) /\ at + k - 1 \in Nat /\ at + k - 1 < at + n
      BY <1>2, <1>3, <1>4
    <2>2. LiveSlot(vm, at + k - 1)
      BY <1>1, <2>1, BelowLive DEF at
    <2>3. QED
      BY <1>3, <1>5, <1>8, <2>1, <2>2
  <1>10. \A t \in Nat : t < Frame(vm).slots[2] /\ LiveSlot(vm, t) =>
             VarIn(vm', up', t) = VarIn(vm, up, t)
    <2> SUFFICES ASSUME NEW t \in Nat, t < at, LiveSlot(vm, t)
                 PROVE  VarIn(vm', up', t) = VarIn(vm, up, t)
      BY DEF at
    <2>1. t < at + n
      BY <1>2, <1>4
    <2>2. QED
      BY <1>5, <2>1
  <1>11. Len(xs) = Live(vm')
    <2>1. Depth(vm) \in 1 .. Len(vm.frames) /\ Depth(vm') = Depth(vm)
      BY <1>1, <1>2, FrameShape, WellFormedIs DEF Depth
    <2>2. QED
      BY <1>2, <1>8, <2>1 DEF Live, Frame
  <1>12. ActIn(vm', up') = A!WithVars(ActIn(vm, up), xs)
    <2>1. \A d \in 1 .. Len(vm.frames) :
             /\ vm'.frames[d].slots[2] = vm.frames[d].slots[2]
             /\ d # Depth(vm) => vm'.frames[d].live = vm.frames[d].live
             /\ vm'.frames[d].expected = vm.frames[d].expected
      BY <1>2 DEF SameFrame
    <2>2. QED
      BY <1>1, <1>2, <1>8, <1>9, <1>10, <1>11, <2>1, ActInTop
  <1>13. /\ A!SetVars(xs) /\ UNCHANGED <<expected, state = "dead", Thread>>
         /\ A!Active /\ A!Own = own
    BY <1>12, VarsStep DEF own
  <1>14. A!EndScope(n)
    BY <1>7, <1>13 DEF A!EndScope, xs
  <1>15. n \in DOMAIN own
    BY <1>3, <1>4, VarsIs
  <1>16. A!Same
    BY <1>13, <1>14, <1>15 DEF A!Same, A!Inside
  <1>17. QED
    BY <1>16 DEF A!Next

LEMMA EndScopeStep ==
    ASSUME IInv, IInv', NEW n \in 1 .. MaxStack, EndScope(n)
    PROVE  A!Next
  <1>1. /\ Executing /\ host' = host /\ UNCHANGED switchVars /\ up' = up
        /\ n \in Nat /\ n \in 1 .. Live(vm) - 1 /\ vm' = Freed(vm, n)
    BY FramesAssumption DEF EndScope, Freed, upvalueVars
  <1>2. /\ vm \in Context /\ WellFormed(vm, up) /\ WellFormed(vm', up')
        /\ vm \in Contexts /\ vm' \in Contexts'
    BY WellInv, WellAfter, InvContexts DEF AllWell, IInv, TypeOK, Contexts
  <1>3. vm'.stack = vm.stack /\ vm'.open = vm.open
    BY <1>1, <1>2, FreedIs
  <1>4. \A u : OnList(vm', u) <=> OnList(vm, u)
    BY <1>3 DEF OnList
  <1>5. ASSUME NEW u \in Cell PROVE CellKept(u)
    <2>1. CASE OnList(vm, u)
      BY <1>1, <1>2, <1>3, <1>4, <2>1 DEF CellKept, StaysOpen
    <2>2. CASE ~OnList(vm, u)
      BY <1>1, <2>2, OtherCells
    <2>3. QED
      BY <2>1, <2>2
  <1>6. \A t, u : At(vm', up', t, u) <=> At(vm, up, t, u)
    BY <1>1, <1>4 DEF At
  <1>7. \A t \in Nat : VarIn(vm', up', t) = VarIn(vm, up, t)
    BY <1>2, <1>3, <1>6, VarInSame
  <1>8. QED
    BY <1>1, <1>2, <1>5, <1>7, FreedStep

LEMMA LeaveScopeStep ==
    ASSUME IInv, IInv', NEW n \in 1 .. MaxStack, NEW m \in 1 .. MaxStack, LeaveScope(n, m)
    PROVE  A!Next
  <1> DEFINE s == SlotOf(vm, m)[2]  q == Closed(vm, s)  at == Frame(vm).slots[2]
  <1>1. /\ s = at + m /\ s \in Nat /\ n <= m /\ n \in Nat /\ m \in Nat
        /\ Executing /\ n \in 1 .. Live(vm) - 1
        /\ q \in Context /\ q.block = vm.block /\ q.stack = vm.stack /\ q.top = vm.top
        /\ q.frames = vm.frames /\ vm' = Freed(q, n)
        /\ CloseUpvalues(vm, s) /\ UNCHANGED <<host, switchVars>>
    BY LeftIs
  <1> HIDE DEF s, q, at
  <1>2. /\ vm'.stack = vm.stack /\ vm'.open = q.open /\ Frame(vm).slots[2] \in Nat
    BY <1>1, FreedIs
  <1>3. up' = MovedIn(vm, s) /\ vm'.open = Closed(vm, s).open
    BY <1>1, <1>2 DEF CloseUpvalues, q
  <1>4. /\ \A u \in Cell : OnList(vm, u) => CellKept(u)
        /\ \A t \in Nat : t < s /\ LiveSlot(vm, t) => VarIn(vm', up', t) = VarIn(vm, up, t)
    BY <1>1, <1>2, <1>3, CloseVars
  <1>5. \A u \in Cell : ~OnList(vm, u) => up'[u] = up[u]
    BY <1>1, <1>3, CloseIs
  <1>6. \A u \in Cell : CellKept(u)
    BY <1>1, <1>4, <1>5, OtherCells
  <1>7. ASSUME NEW t \in Nat, t < at + n, LiveSlot(vm, t)
        PROVE  VarIn(vm', up', t) = VarIn(vm, up, t)
    <2>1. at \in Nat
      BY <1>2 DEF at
    <2>2. t < s
      BY <1>1, <1>7, <2>1
    <2>3. QED
      BY <1>4, <1>7, <2>2
  <1>8. \A t \in Nat : t < Frame(vm).slots[2] + n /\ LiveSlot(vm, t) =>
             VarIn(vm', up', t) = VarIn(vm, up, t)
    BY <1>7 DEF at
  <1>9. QED
    BY <1>1, <1>5, <1>6, <1>8, FreedStep

\* A captured variable is captured again: the closures share its upvalue.
LEMMA CaptureShared ==
    ASSUME IInv, IInv', ~Leaked, Executing, Fits(vm, 1), NEW i \in Nat, i \in 1 .. Live(vm),
           up' = up, host' = host, UNCHANGED switchVars,
           vm' = Put(vm, Live(vm), <<Fn>>), NEW u \in Cell,
           At(vm, up, Frame(vm).slots[2] + i, u)
    PROVE  A!Capture(i + 1, u) /\ i + 1 \in 1 .. Len(A!Own) + 1 /\ A!Active
           /\ Thread' = Thread
  <1> DEFINE at == Frame(vm).slots[2]  own == OwnIn(vm, up)  own1 == Append(own, Fn)
  <1>1. WellFormed(vm, up) /\ Depth(vm) > 0 /\ A!Own = own /\ A!Active
    BY RunningActs
  <1>2. /\ own \in Vars /\ Len(own) = Live(vm) /\ Live(vm) \in Nat /\ at \in Nat
        /\ \A k \in 1 .. Live(vm) : own[k] = VarIn(vm, up, at + k - 1)
    BY <1>1, OwnIs
  <1>3. <<Fn>> \in Seq(Contents) /\ Len(<<Fn>>) = 1 /\ Fn \in Var
    BY Constants DEF Var
  <1>4. A!Declare(<<Fn>>) /\ Cells' = Cells
    BY <1>3, PutOnly DEF Fits
  <1>5. own1 = own \o <<Fn>>
    BY <1>2, <1>3, AppendIsConcat DEF Vars
  <1>6. A!SetVars(own1) /\ UNCHANGED <<expected, state = "dead", Thread>>
    BY <1>1, <1>4, <1>5 DEF A!Declare
  <1> HIDE DEF at, own
  <1>7. LiveSlot(vm, at + i)
    <2>1. vm \in Contexts
      BY DEF IInv, TypeOK, Contexts
    <2>2. Settled(vm, up)
      BY <2>1, SettledInv
    <2>3. OnList(vm, u) /\ up[u].location[2] = at + i
      BY DEF At, at
    <2>4. QED
      BY <2>2, <2>3 DEF Settled
  <1>8. at + i \in Nat
    BY <1>2
  <1>9. at + i < at + Live(vm)
    BY <1>1, <1>7, <1>8, LiveBelow DEF at
  <1>10. i + 1 \in 1 .. Live(vm) /\ at + (i + 1) - 1 = at + i
    BY <1>2, <1>9
  <1>11. own1[i + 1] = own[i + 1]
    <2>1. own \in Seq(Var) /\ i + 1 \in 1 .. Len(own)
      BY <1>2, <1>10 DEF Vars
    <2>2. QED
      BY <1>3, <2>1, AppendProperties
  <1>12. own1[i + 1] = VarIn(vm, up, at + i)
    BY <1>2, <1>10, <1>11
  <1>13. VarIn(vm, up, at + i) = [cell |-> u]
    BY <1>1, <1>8, VarInIs DEF at
  <1> HIDE DEF own1
  <1>14. own1[i + 1] \in [cell : Cell] /\ own1[i + 1].cell = u
    BY <1>12, <1>13
  <1>15. A!Capture(i + 1, u)
    BY <1>1, <1>4, <1>6, <1>14 DEF A!Capture, own1
  <1>16. i + 1 \in 1 .. Len(own) + 1
    BY <1>2, <1>10
  <1>17. QED
    BY <1>1, <1>6, <1>15, <1>16

\* What OP_CLOSURE leaves when it captures a variable for the first time.
NewlyCaptured(i, u) ==
    LET s == Frame(vm).slots[2] + i IN
    /\ s \in Nat /\ up[u] = None /\ ~OnList(vm, u)
    /\ \A w \in Cell : ~At(vm, up, s, w)
    /\ \A w : OnList(vm', w) <=> OnList(vm, w) \/ w = u
    /\ up'[u].location[2] = s /\ \A w \in Cell : w # u => up'[w] = up[w]
    /\ Live(vm') = Live(vm) + 1 /\ Depth(vm') = Depth(vm) /\ Len(vm'.frames) = Len(vm.frames)
    /\ \A d \in 1 .. Len(vm.frames) :
        /\ vm'.frames[d].slots[2] = vm.frames[d].slots[2]
        /\ d # Depth(vm) => vm'.frames[d].live = vm.frames[d].live
        /\ vm'.frames[d].expected = vm.frames[d].expected
    /\ \A t \in Nat : t < Frame(vm).slots[2] + Live(vm) => vm'.stack[t] = vm.stack[t]
    /\ vm'.stack[Frame(vm).slots[2] + Live(vm)] = Fn

LEMMA NewlyCapturedIs ==
    ASSUME IInv, NEW i \in Nat, i \in 1 .. Live(vm), NEW u \in Cell, Executing, Fits(vm, 1),
           NEW local, local = <<vm.block, Frame(vm).slots[2] + i>>,
           Listed(local) = None, up[u] = None,
           up' = [up EXCEPT ![u] = [location |-> local, closed |-> Null]],
           vm' = [Put(vm, Live(vm), <<Fn>>) EXCEPT !.open =
                    Inserting(vm.open, Passed(local), u)]
    PROVE  NewlyCaptured(i, u)
  <1> DEFINE at == Frame(vm).slots[2]  s == at + i  n == Passed(local)
             with == Put(vm, Live(vm), <<Fn>>)  op == Inserting(vm.open, n, u)
  <1>1. /\ vm \in Context /\ OpenSorted(vm, up) /\ FramesNested(vm) /\ NullAbove(vm)
        /\ WellFormed(vm, up) /\ Depth(vm) > 0 /\ up \in [Cell -> Upvalue \cup {None}]
    BY RunningActs, InvContexts
  <1>2. <<Fn>> \in Seq(Contents) /\ Len(<<Fn>>) = 1 /\ <<Fn>>[1] = Fn
        /\ Live(vm) + 1 <= Frame(vm).need
    BY Constants DEF Fits
  <1>3. /\ at \in Nat /\ Live(vm) \in Nat /\ at + Live(vm) < Capacity(vm)
        /\ Capacity(vm) \in Nat
    <2>1. /\ at \in Nat /\ Live(vm) \in Nat /\ at + Frame(vm).need <= Capacity(vm)
          /\ Frame(vm).need \in Nat /\ Capacity(vm) \in Nat
      BY <1>1, OwnIs
    <2> HIDE DEF at
    <2>2. QED
      BY <1>2, <2>1
  <1> HIDE DEF at
  <1>4. s \in Nat /\ local[2] = s /\ local[2] \in Nat
    BY <1>3 DEF at
  <1>5. /\ with \in Context /\ with.block = vm.block /\ Depth(with) = Depth(vm)
        /\ Len(with.frames) = Len(vm.frames)
        /\ \A d \in 1 .. Len(vm.frames) : SameFrame(with.frames[d], vm.frames[d])
        /\ \A d \in 1 .. Len(vm.frames) :
             with.frames[d].live = IF d = Depth(vm) THEN Live(vm) + 1 ELSE vm.frames[d].live
        /\ \A t \in 0 .. Capacity(vm) - 1 :
             with.stack[t] = IF t \in at + Live(vm) .. at + Live(vm) + 1 - 1
                             THEN <<Fn>>[t - (at + Live(vm)) + 1] ELSE vm.stack[t]
    <2> DEFINE values == <<Fn>>
    <2>1. values \in Seq(Contents) /\ Len(values) = 1 /\ Live(vm) + Len(values) <= Frame(vm).need
      BY <1>2
    <2>2. with = Put(vm, Live(vm), values)
      OBVIOUS
    <2> HIDE DEF values, with
    <2>3. /\ with \in Context /\ with.block = vm.block /\ Depth(with) = Depth(vm)
          /\ Len(with.frames) = Len(vm.frames)
          /\ \A d \in 1 .. Len(vm.frames) : SameFrame(with.frames[d], vm.frames[d])
          /\ \A d \in 1 .. Len(vm.frames) :
               with.frames[d].live = IF d = Depth(vm) THEN Live(vm) + Len(values)
                                     ELSE vm.frames[d].live
          /\ \A t \in 0 .. Capacity(vm) - 1 :
               with.stack[t] = IF t \in at + Live(vm) .. at + Live(vm) + Len(values) - 1
                               THEN values[t - (at + Live(vm)) + 1] ELSE vm.stack[t]
      BY <1>1, <2>1, <2>2, PutIs DEF at
    <2>4. QED
      BY <2>1, <2>3 DEF values
  <1> HIDE DEF with, op, s
  <1>6. /\ vm'.open = op /\ vm'.stack = with.stack /\ vm'.frames = with.frames
        /\ vm'.block = vm.block
    <2>1. vm' = [with EXCEPT !.open = op]
      BY DEF with, op
    <2>2. with = [block |-> with.block, stack |-> with.stack, top |-> with.top,
                  frames |-> with.frames, open |-> with.open]
      BY <1>5, ContextFields
    <2>3. QED
      BY <1>5, <2>1, <2>2
  <1>7. n \in 0 .. Len(vm.open) /\ Len(vm.open) \in Nat /\ vm.open \in Seq(Cell)
        /\ \A k \in 1 .. Len(vm.open) :
             /\ k <= n => up[vm.open[k]].location[2] > s
             /\ k > n + 1 => up[vm.open[k]].location[2] < s
    BY <1>1, <1>4, PassedIs, ContextShape
  <1>8. ASSUME NEW w \in Cell, At(vm, up, s, w) PROVE FALSE
    <2>1. PICK k \in 1 .. Len(vm.open) : vm.open[k] = w
      BY <1>8 DEF At, OnList
    <2>2. up[w].location = local /\ up[w].location[2] = s
      BY <1>1, <1>4, <1>8, OnListIs DEF At, s, at
    <2>3. k = n + 1
      BY <1>4, <1>7, <2>1, <2>2
    <2>4. n < Len(vm.open) /\ vm.open[n + 1] = w
      BY <1>7, <2>1, <2>3
    <2>40. Listed(local) = w
      BY <2>2, <2>4 DEF Listed
    <2>5. QED
      BY <2>40, FramesAssumption
  <1>9. ~OnList(vm, u)
    BY <1>1, OnListIs
  <1>10. \A w : OnList(vm', w) <=> OnList(vm, w) \/ w = u
    <2> HIDE DEF n
    <2>1. WithInserted(vm.open, n, u, op)
      BY <1>7, Inserted DEF op
    <2>2. /\ Len(vm'.open) = Len(vm.open) + 1
          /\ \A k \in 1 .. Len(vm.open) + 1 :
               vm'.open[k] = IF k <= n THEN vm.open[k] ELSE IF k = n + 1 THEN u ELSE vm.open[k - 1]
      BY <1>6, <2>1 DEF WithInserted
    <2>3. ASSUME NEW w, OnList(vm', w) PROVE OnList(vm, w) \/ w = u
      <3>1. PICK k \in 1 .. Len(vm.open) + 1 : vm'.open[k] = w
        BY <2>2, <2>3 DEF OnList
      <3>2. CASE k <= n
        <4>1. k \in 1 .. Len(vm.open)
          BY <1>7, <3>2
        <4>2. vm.open[k] = w
          BY <2>2, <3>1, <3>2
        <4>3. QED
          BY <4>1, <4>2 DEF OnList
      <3>3. CASE k = n + 1
        <4>1. ~(k <= n)
          BY <1>7, <3>3
        <4>2. QED
          BY <2>2, <3>1, <3>3, <4>1
      <3>4. CASE k > n + 1
        <4>1. ~(k <= n) /\ k # n + 1 /\ k - 1 \in 1 .. Len(vm.open)
          BY <1>7, <3>4
        <4>2. QED
          BY <2>2, <3>1, <4>1 DEF OnList
      <3>5. QED
        BY <1>7, <3>2, <3>3, <3>4
    <2>4. ASSUME NEW w, OnList(vm, w) PROVE OnList(vm', w)
      <3>1. PICK k \in 1 .. Len(vm.open) : vm.open[k] = w
        BY <2>4 DEF OnList
      <3>2. CASE k <= n
        <4>1. k \in 1 .. Len(vm.open) + 1
          BY <1>7
        <4>2. QED
          BY <2>2, <3>1, <3>2, <4>1 DEF OnList
      <3>3. CASE k > n
        <4> DEFINE j == k + 1
        <4>1. j \in 1 .. Len(vm.open) + 1 /\ ~(j <= n) /\ j # n + 1 /\ j - 1 = k
          BY <1>7, <3>3
        <4> HIDE DEF j
        <4>2. vm'.open[j] = w
          BY <2>2, <3>1, <4>1
        <4>3. QED
          BY <2>2, <4>1, <4>2 DEF OnList
      <3>4. QED
        BY <1>7, <3>2, <3>3
    <2>5. OnList(vm', u)
      <3>1. n + 1 \in 1 .. Len(vm.open) + 1 /\ ~(n + 1 <= n)
        BY <1>7
      <3>2. QED
        BY <2>2, <3>1 DEF OnList
    <2>6. QED
      BY <2>3, <2>4, <2>5
  <1>11. up'[u].location[2] = s /\ \A w \in Cell : w # u => up'[w] = up[w]
    <2> DEFINE r == [location |-> local, closed |-> Null]
    <2>1. r.location = local
      OBVIOUS
    <2> HIDE DEF r
    <2>2. up' = [up EXCEPT ![u] = r]
      BY DEF r
    <2>3. QED
      BY <1>1, <1>4, <2>1, <2>2
  <1>12. Depth(vm') = Depth(vm) /\ Live(vm') = Live(vm) + 1
         /\ Depth(vm) \in 1 .. Len(vm.frames)
    BY <1>1, <1>5, <1>6, FrameShape DEF Depth, Live, Frame
  <1>13. \A d \in 1 .. Len(vm.frames) :
            /\ vm'.frames[d].slots[2] = vm.frames[d].slots[2]
            /\ d # Depth(vm) => vm'.frames[d].live = vm.frames[d].live
            /\ vm'.frames[d].expected = vm.frames[d].expected
    BY <1>5, <1>6 DEF SameFrame
  <1>14. ASSUME NEW t \in Nat, t < at + Live(vm) PROVE vm'.stack[t] = vm.stack[t]
    <2>1. t \in 0 .. Capacity(vm) - 1 /\ t \notin at + Live(vm) .. at + Live(vm) + 1 - 1
      BY <1>3, <1>14
    <2>2. QED
      BY <1>5, <1>6, <2>1
  <1>15. vm'.stack[at + Live(vm)] = Fn
    <2> DEFINE t == at + Live(vm)
    <2>1. t \in 0 .. Capacity(vm) - 1 /\ t \in t .. t + 1 - 1 /\ t - t + 1 = 1
      BY <1>3
    <2>2. QED
      BY <1>2, <1>5, <1>6, <2>1
  <1>16. QED
    BY <1>4, <1>5, <1>6, <1>8, <1>9, <1>10, <1>11, <1>12, <1>13, <1>14, <1>15
    DEF NewlyCaptured, s, at

\* A captured variable becomes a cell, with its value.
LEMMA CaptureNew ==
    ASSUME IInv, IInv', ~Leaked, Executing, host' = host, UNCHANGED switchVars,
           NEW i \in Nat, i \in 1 .. Live(vm), NEW u \in Cell, NewlyCaptured(i, u)
    PROVE  A!Capture(i + 1, u) /\ i + 1 \in 1 .. Len(A!Own) + 1 /\ A!Active
           /\ Thread' = Thread
  <1> DEFINE at == Frame(vm).slots[2]  s == at + i  own == OwnIn(vm, up)
             own1 == Append(own, Fn)  x == [cell |-> u]  xs == [own1 EXCEPT ![i + 1] = x]
  <1>1. WellFormed(vm, up) /\ Depth(vm) > 0 /\ A!Own = own /\ A!Active
    BY RunningActs
  <1>2. WellFormed(vm', up') /\ vm \in Contexts /\ vm' \in Contexts' /\ Settled(vm, up)
    BY WellAfter, SettledInv DEF AllWell, IInv, TypeOK, Contexts
  <1>3. /\ own \in Vars /\ Len(own) = Live(vm) /\ Live(vm) \in Nat /\ at \in Nat
        /\ \A k \in 1 .. Live(vm) : own[k] = VarIn(vm, up, at + k - 1)
    BY <1>1, OwnIs
  <1>4. /\ s \in Nat /\ up[u] = None /\ ~OnList(vm, u)
        /\ \A w \in Cell : ~At(vm, up, s, w)
        /\ \A w : OnList(vm', w) <=> OnList(vm, w) \/ w = u
        /\ up'[u].location[2] = s /\ \A w \in Cell : w # u => up'[w] = up[w]
        /\ Live(vm') = Live(vm) + 1 /\ Depth(vm') = Depth(vm)
        /\ Len(vm'.frames) = Len(vm.frames)
        /\ \A d \in 1 .. Len(vm.frames) :
             /\ vm'.frames[d].slots[2] = vm.frames[d].slots[2]
             /\ d # Depth(vm) => vm'.frames[d].live = vm.frames[d].live
             /\ vm'.frames[d].expected = vm.frames[d].expected
        /\ \A t \in Nat : t < at + Live(vm) => vm'.stack[t] = vm.stack[t]
        /\ vm'.stack[at + Live(vm)] = Fn
    BY DEF NewlyCaptured
  <1> HIDE DEF own, x
  <1>5. own1 \in Vars /\ Len(own1) = Live(vm) + 1 /\ own1[Live(vm) + 1] = Fn
        /\ \A k \in 1 .. Live(vm) : own1[k] = own[k]
    <2>1. Fn \in Var /\ own \in Seq(Var)
      BY <1>3, Constants DEF Var, Vars
    <2>2. /\ Append(own, Fn) \in Seq(Var) /\ Len(Append(own, Fn)) = Len(own) + 1
          /\ \A k \in 1 .. Len(own) : Append(own, Fn)[k] = own[k]
          /\ Append(own, Fn)[Len(own) + 1] = Fn
      BY <2>1, AppendProperties
    <2> HIDE DEF own1
    <2>3. own1 = Append(own, Fn)
      BY DEF own1
    <2>4. QED
      BY <1>3, <2>2, <2>3 DEF Vars
  <1> HIDE DEF own1
  <1>6. xs \in Vars /\ Len(xs) = Live(vm) + 1 /\ i + 1 \in 1 .. Live(vm) + 1
        /\ \A k \in 1 .. Live(vm) + 1 : xs[k] = IF k = i + 1 THEN x ELSE own1[k]
    <2> DEFINE j == i + 1
    <2>1. j \in 1 .. Len(own1)
      BY <1>3, <1>5
    <2>2. own1 \in Seq(Var) /\ x \in Var
      BY <1>5 DEF Vars, Var, x
    <2> HIDE DEF j
    <2>3. [own1 EXCEPT ![j] = x] \in Seq(Var) /\ Len([own1 EXCEPT ![j] = x]) = Len(own1)
          /\ \A k \in 1 .. Len(own1) : [own1 EXCEPT ![j] = x][k] = IF k = j THEN x ELSE own1[k]
      BY <2>1, <2>2, ExceptSeq
    <2>4. QED
      BY <1>5, <2>1, <2>3 DEF Vars, j
  <1> HIDE DEF at, xs
  <1>7. s = at + (i + 1) - 1 /\ \A k \in Nat : k # i + 1 => at + k - 1 # s
    BY <1>3
  <1> HIDE DEF s
  <1>8. ASSUME NEW t \in Nat, t # s, NEW w \in Cell
        PROVE  At(vm', up', t, w) <=> At(vm, up, t, w)
    BY <1>4, <1>8 DEF At
  <1>9. At(vm', up', s, u)
    BY <1>4 DEF At
  <1>10. ASSUME NEW t \in Nat, t # s, t < at + Live(vm)
         PROVE  VarIn(vm', up', t) = VarIn(vm, up, t)
    BY <1>1, <1>2, <1>4, <1>8, <1>10, VarInSame
  <1>11. ASSUME NEW k \in 1 .. Live(vm) + 1
         PROVE  xs[k] = VarIn(vm', up', at + k - 1)
    <2>1. CASE k = i + 1
      <3>1. VarIn(vm', up', s) = x
        BY <1>2, <1>4, <1>9, VarInIs DEF x
      <3>2. QED
        BY <1>6, <1>7, <2>1, <3>1
    <2>2. CASE k # i + 1 /\ k <= Live(vm)
      <3>1. k \in 1 .. Live(vm) /\ at + k - 1 \in Nat /\ at + k - 1 < at + Live(vm)
            /\ at + k - 1 # s
        BY <1>3, <1>7, <2>2
      <3>2. xs[k] = own[k]
        BY <1>5, <1>6, <2>2, <3>1
      <3>3. QED
        BY <1>3, <1>10, <3>1, <3>2
    <2>3. CASE k # i + 1 /\ k = Live(vm) + 1
      <3>1. at + k - 1 = at + Live(vm) /\ at + k - 1 \in Nat /\ at + k - 1 # s
            /\ at + k - 1 >= at + Live(vm)
        BY <1>3, <1>7, <2>3
      <3>2. \A w \in Cell : ~At(vm, up, at + k - 1, w)
        BY <1>1, <1>2, <3>1, NoneAbove DEF at
      <3>3. VarIn(vm', up', at + k - 1) = vm'.stack[at + k - 1]
        BY <1>2, <1>8, <3>1, <3>2, VarInIs
      <3>4. QED
        BY <1>4, <1>5, <1>6, <2>3, <3>1, <3>3
    <2>4. k <= Live(vm) \/ k = Live(vm) + 1
      <3>1. Live(vm) \in Nat
        BY <1>3
      <3>2. QED
        BY <3>1
    <2>5. QED
      BY <2>1, <2>2, <2>3, <2>4
  <1>12. \A t \in Nat : t < Frame(vm).slots[2] /\ LiveSlot(vm, t) =>
             VarIn(vm', up', t) = VarIn(vm, up, t)
    <2> SUFFICES ASSUME NEW t \in Nat, t < at PROVE VarIn(vm', up', t) = VarIn(vm, up, t)
      BY DEF at
    <2>1. t # s /\ t < at + Live(vm)
      BY <1>3, <1>7
    <2>2. QED
      BY <1>10, <2>1
  <1>13. ActIn(vm', up') = A!WithVars(ActIn(vm, up), xs)
    <2>1. Len(xs) = Live(vm')
          /\ \A k \in 1 .. Len(xs) : xs[k] = VarIn(vm', up', Frame(vm).slots[2] + k - 1)
      BY <1>4, <1>6, <1>11 DEF at
    <2>2. QED
      BY <1>1, <1>2, <1>4, <1>6, <1>12, <2>1, ActInTop
  <1>14. A!SetVars(xs) /\ UNCHANGED <<expected, state = "dead", Thread>>
    <2>1. \A w \in Cell : ~OnList(vm, w) /\ up[w] # None /\ up[w].location # None =>
              up'[w] = up[w]
      BY <1>4
    <2>2. QED
      BY <1>13, <2>1, VarsStep
  <1>15. own1[i + 1] = vm'.stack[s] /\ vm'.stack[s] \in Contents
    <2>1. CASE i < Live(vm)
      <3>1. i + 1 \in 1 .. Live(vm) /\ s < at + Live(vm)
        BY <1>3, <2>1 DEF s
      <3>2. own1[i + 1] = VarIn(vm, up, s)
        BY <1>3, <1>5, <1>7, <3>1
      <3>3. own1[i + 1] = vm.stack[s] /\ vm.stack[s] = vm'.stack[s]
        BY <1>1, <1>4, <3>1, <3>2, VarInIs
      <3>4. s \in 0 .. Capacity(vm) - 1
        <4>1. /\ Live(vm) <= Frame(vm).need /\ at + Frame(vm).need <= Capacity(vm)
              /\ Frame(vm).need \in Nat /\ Capacity(vm) \in Nat
          BY <1>1, OwnIs DEF at
        <4>2. QED
          BY <1>3, <1>4, <3>1, <4>1
      <3>5. vm.stack[s] \in Contents
        BY <1>1, <3>4, WellFormedIs, ContextShape
      <3>6. QED
        BY <3>3, <3>5
    <2>2. CASE i = Live(vm)
      BY <1>4, <1>5, <2>2, Constants DEF s
    <2>3. QED
      BY <1>3, <2>1, <2>2
  <1>16. Cells'[u] = own1[i + 1]
    BY <1>2, <1>4, <1>15, CellsAfter DEF CellsHold
  <1>17. Cells[u] = None
    BY <1>4, CellsInv DEF CellsHold
  <1>18. ASSUME NEW w \in Cell, w # u PROVE Cells'[w] = Cells[w]
    <2>1. CASE OnList(vm, w)
      <3>1. up[w].location[2] \in Nat /\ up[w].location[2] < at + Live(vm)
        BY <1>1, <1>2, <2>1, OnListIs, LiveBelow DEF at, Settled
      <3>2. CellKept(w)
        BY <1>2, <1>4, <1>18, <2>1, <3>1 DEF CellKept, StaysOpen
      <3>3. QED
        BY <3>2, CellSame
    <2>2. CASE ~OnList(vm, w)
      BY <1>4, <1>18, <2>2, OtherCells, CellSame
    <2>3. QED
      BY <2>1, <2>2
  <1>19. Cells' = [Cells EXCEPT ![u] = own1[i + 1]]
    BY <1>16, <1>18, CellsChange
  <1>20. own1[i + 1] \notin [cell : Cell]
    BY <1>15, VarIsNoCell
  <1>21. A!Capture(i + 1, u)
    BY <1>1, <1>14, <1>17, <1>19, <1>20 DEF A!Capture, own1, xs, x
  <1>22. QED
    BY <1>1, <1>3, <1>6, <1>14, <1>21

LEMMA CaptureStep ==
    ASSUME IInv, IInv', ~Leaked, NEW i \in 1 .. MaxStack, NEW u \in Cell, Capture(i, u)
    PROVE  A!Next
  <1> DEFINE local == SlotOf(vm, i)  with == Put(vm, Live(vm), <<Fn>>)
             s == Frame(vm).slots[2] + i
  <1>0. i \in Nat
    BY FramesAssumption
  <1>1. /\ Executing /\ Fits(vm, 1) /\ i \in 1 .. Live(vm) /\ host' = host
        /\ UNCHANGED switchVars
    BY DEF Capture
  <1>2. WellFormed(vm, up) /\ Depth(vm) > 0 /\ Frame(vm).slots[2] \in Nat
        /\ local = <<vm.block, s>> /\ vm \in Context
    <2>1. WellFormed(vm, up) /\ Depth(vm) > 0
      BY <1>1, RunningActs
    <2>2. QED
      BY <1>0, <2>1, FrameShape, WellFormedIs
  <1>3. s \in Nat /\ local[2] = s
    BY <1>0, <1>2
  <1>4. A!Capture(i + 1, u) /\ i + 1 \in 1 .. Len(A!Own) + 1 /\ A!Active
        /\ Thread' = Thread
    <2>1. CASE Cached(local) # None
      <3>1. vm' = with /\ u = Cached(local) /\ up' = up
        BY <2>1 DEF Capture, upvalueVars
      <3> HIDE DEF s, local
      <3>2. u = cache[local[2]] /\ u # None /\ up[u] # None /\ up[u].location = local
        BY <2>1, <3>1 DEF Cached
      <3>3. At(vm, up, s, u)
        BY <1>2, <1>3, <3>2, AtIs
      <3>4. QED
        BY <1>0, <1>1, <3>1, <3>3, CaptureShared DEF s
    <2>2. CASE Cached(local) = None /\ Listed(local) # None
      <3>1. vm' = with /\ u = Listed(local) /\ up' = up
        BY <2>2 DEF Capture
      <3> HIDE DEF s, local
      <3>2. Passed(local) \in 0 .. Len(vm.open)
        BY <1>2, <1>3, PassedIs, WellFormedIs
      <3>3. Passed(local) < Len(vm.open) /\ u = vm.open[Passed(local) + 1]
            /\ up[u].location = local
        BY <2>2, <3>1 DEF Listed
      <3>4. Passed(local) + 1 \in 1 .. Len(vm.open)
        BY <1>2, <3>2, <3>3, ContextShape
      <3>5. At(vm, up, s, u)
        BY <1>3, <3>3, <3>4 DEF At, OnList
      <3>6. QED
        BY <1>0, <1>1, <3>1, <3>5, CaptureShared DEF s
    <2>3. CASE Cached(local) = None /\ Listed(local) = None
      <3>1. /\ Unused # {} /\ u = NewUpvalue
            /\ up' = [up EXCEPT ![u] = [location |-> local, closed |-> Null]]
            /\ vm' = [with EXCEPT !.open =
                        SubSeq(@, 1, Passed(local)) \o <<u>> \o
                        SubSeq(@, Passed(local) + 1, Len(@))]
        BY <2>3 DEF Capture
      <3>2. up[u] = None
        BY <3>1 DEF NewUpvalue, Unused
      <3>3. with.open = vm.open
        <4> DEFINE values == <<Fn>>
        <4>1. values \in Seq(Contents) /\ Live(vm) + Len(values) <= Frame(vm).need
          BY <1>1, Constants DEF Fits
        <4> HIDE DEF values
        <4>2. Put(vm, Live(vm), values).open = vm.open
          BY <1>2, <4>1, PutIs, WellFormedIs
        <4>3. QED
          BY <4>2 DEF values
      <3>4. vm' = [with EXCEPT !.open = Inserting(vm.open, Passed(local), u)]
        BY <3>1, <3>3 DEF Inserting
      <3>5. local = <<vm.block, Frame(vm).slots[2] + i>>
        BY <1>2
      <3> HIDE DEF local
      <3>6. NewlyCaptured(i, u)
        BY <1>0, <1>1, <2>3, <3>1, <3>2, <3>4, <3>5, NewlyCapturedIs
      <3>7. QED
        BY <1>0, <1>1, <3>6, CaptureNew
    <2>4. QED
      BY <2>1, <2>2, <2>3
  <1>5. A!Same
    BY <1>4 DEF A!Same, A!Inside
  <1>6. QED
    BY <1>5 DEF A!Next

\* A stack that grows keeps its activations and what its open upvalues reach.
GrownFaithful(p, c) ==
    /\ WellFormed(c, up') /\ ActIn(c, up') = ActIn(p, up) /\ Len(c.frames) = Len(p.frames)
    /\ Settled(p, up) => Settled(c, up')
    /\ \A u : OnList(p, u) => /\ OnList(c, u)
                              /\ c.stack[up'[u].location[2]] = p.stack[up[u].location[2]]

LEMMA GrownActs ==
    ASSUME IInv, NEW needed \in Nat, NEW g \in Growths(needed), GrowUpvalues(g),
           NEW p, WellFormed(p, up), p.open = vm.open, p.block = vm.block,
           Capacity(p) = Capacity(vm), NEW c, c = Grown(p, g)
    PROVE  GrownFaithful(p, c)
  <1>1. p \in Context /\ ContextOK(p, up) /\ FramesNested(p) /\ vm \in Context
        /\ OpenSorted(p, up) /\ NullAbove(p)
    BY WellFormedIs, InvContexts
  <1>2. /\ g.size \in Capacities /\ g.moves \in BOOLEAN /\ g.size >= Capacity(p)
        /\ g.size \in Nat
    BY <1>1, GrowthIs
  <1>3. /\ MovedAlong(p, g, up, up') /\ \A u \in Cell : ~OnList(p, u) => up'[u] = up[u]
    BY <1>2, GrowUpvaluesIs DEF MovedAlong, OnList
  <1>4. ContextOK(c, up') /\ c \in Context
    BY <1>1, GrownOK
  <1>5. /\ c.open = p.open /\ Len(c.frames) = Len(p.frames) /\ c.block[1] = p.block[1]
        /\ \A d \in 1 .. Len(p.frames) :
             /\ c.frames[d].slots = <<c.block, p.frames[d].slots[2]>>
             /\ c.frames[d].live = p.frames[d].live
             /\ c.frames[d].expected = p.frames[d].expected
        /\ \A s \in 0 .. g.size - 1 :
             c.stack[s] = IF s < Capacity(p) THEN p.stack[s] ELSE Null
    BY <1>1, <1>2, GrownIs
  <1>6. ASSUME NEW u, OnList(p, u)
        PROVE  OnList(c, u) /\ up'[u].location[2] = up[u].location[2]
    <2>1. PICK k \in 1 .. Len(p.open) : p.open[k] = u
      BY <1>6 DEF OnList
    <2>2. /\ up[u] \in Upvalue /\ up[u].location \in Pointer /\ up[u].location[1] = p.block
          /\ p.block \in Block
      BY <1>1, <2>1, OpenInside, ContextShape
    <2> DEFINE l == Relocate(up[u].location, p.block)
    <2>3. l[2] = up[u].location[2]
      BY <2>2, RelocateIs
    <2>4. up'[u] = IF g.moves THEN [up[u] EXCEPT !.location = l] ELSE up[u]
      BY <1>3, <2>1 DEF MovedAlong
    <2> HIDE DEF l
    <2>5. [up[u] EXCEPT !.location = l].location = l
      BY <2>2 DEF Upvalue
    <2>6. OnList(c, u)
      BY <1>5, <1>6 DEF OnList
    <2>7. QED
      BY <2>3, <2>4, <2>5, <2>6
  <1>7. \A u : OnList(c, u) <=> OnList(p, u)
    BY <1>5 DEF OnList
  <1>8. ASSUME NEW u \in Cell, up'[u] # None, up'[u].location # None,
               up'[u].location[1] = c.block
        PROVE  OnList(c, u)
    <2>1. CASE OnList(p, u)
      BY <1>7, <2>1
    <2>2. CASE ~OnList(p, u)
      <3>1. up'[u] = up[u]
        BY <1>3, <2>2
      <3>2. PICK d \in Contexts : OnList(d, u)
        BY <1>8, <3>1 DEF IInv, OpenListed, OnList
      <3>3. WellFormed(d, up)
        BY WellInv DEF AllWell
      <3>4. up[u].location = <<d.block, up[u].location[2]>>
        BY <3>2, <3>3, OnListIs
      <3>5. d.block = c.block
        BY <1>8, <3>1, <3>4
      <3>6. vm \in Contexts /\ d.block[1] = vm.block[1]
        BY <1>5, <3>5 DEF IInv, TypeOK, Contexts
      <3>7. d = vm
        BY <3>6, BlocksUnique
      <3>8. QED
        BY <2>2, <3>2, <3>7 DEF OnList
    <2>3. QED
      BY <2>1, <2>2
  <1>9. WellFormed(c, up')
    BY <1>4, <1>8 DEF WellFormed, Owned
  <1>10. ASSUME NEW s \in Nat, FrameSlot(p, s) PROVE c.stack[s] = p.stack[s]
    <2>1. s \in 0 .. Capacity(p) - 1 /\ Capacity(p) \in Nat
      BY <1>1, <1>10, SlotInside, ContextShape
    <2>2. s \in 0 .. g.size - 1 /\ s < Capacity(p)
      BY <1>2, <2>1
    <2>3. QED
      BY <1>5, <2>2
  <1>11. ASSUME NEW s \in Nat, LiveSlot(p, s)
         PROVE  VarIn(c, up', s) = VarIn(p, up, s)
    <2>1. \A u \in Cell : At(c, up', s, u) <=> At(p, up, s, u)
      BY <1>6, <1>7 DEF At
    <2>2. c.stack[s] = p.stack[s]
      BY <1>1, <1>10, <1>11, LiveInside
    <2>3. QED
      BY <1>9, <1>11, <2>1, <2>2, VarInSame
  <1>12. ActIn(c, up') = ActIn(p, up)
    <2>1. \A d \in 1 .. Len(p.frames) :
             /\ c.frames[d].slots[2] = p.frames[d].slots[2]
             /\ c.frames[d].live = p.frames[d].live
             /\ c.frames[d].expected = p.frames[d].expected
      BY <1>5
    <2>2. QED
      BY <1>5, <1>9, <1>11, <2>1, ActInSame
  <1>13. ASSUME NEW u, OnList(p, u)
         PROVE  OnList(c, u) /\ c.stack[up'[u].location[2]] = p.stack[up[u].location[2]]
    BY <1>6, <1>10, <1>13, OnListIs
  <1>14. ASSUME NEW s, LiveSlot(p, s) PROVE LiveSlot(c, s)
    <2>1. PICK d \in 1 .. Len(p.frames) :
             s \in p.frames[d].slots[2] .. p.frames[d].slots[2] + p.frames[d].live - 1
      BY <1>1, <1>14, ContextShape DEF LiveSlot
    <2>2. d \in DOMAIN c.frames
      BY <1>4, <1>5, ContextShape
    <2>3. c.frames[d].slots[2] = p.frames[d].slots[2] /\ c.frames[d].live = p.frames[d].live
      BY <1>5
    <2>4. QED
      BY <2>1, <2>2, <2>3 DEF LiveSlot
  <1>15. Settled(p, up) => Settled(c, up')
    BY <1>6, <1>7, <1>14 DEF Settled
  <1>16. QED
    BY <1>5, <1>9, <1>12, <1>13, <1>15 DEF GrownFaithful

\* What registers get is what the caller gets of a list of results.
LEMMA StoredFitted ==
    ASSUME NEW n \in Nat
    PROVE  /\ \A results : Stored(results, FALSE, n) = A!Fitted(results, n)
           /\ Stored(<<Err>>, TRUE, n) = A!Fitted(A!Error(n), n)
           /\ Stored(<<True>>, TRUE, n) = A!Fitted(<<True>>, n)
           /\ Stored(<<Null>>, TRUE, n) = A!Fitted(<<>>, n)
  <1>1. \A results : Stored(results, FALSE, n) = A!Fitted(results, n)
    BY DEF Stored, A!Fitted
  <1>2. Stored(<<Err>>, TRUE, n) = A!Fitted(A!Error(n), n)
    <2>1. CASE n > 1
      <3>1. Stored(<<Err>>, TRUE, n) = [i \in 1 .. n |-> IF i = 2 THEN Err ELSE Null]
        BY <2>1 DEF Stored
      <3>2. A!Fitted(A!Error(n), n)
              = [i \in 1 .. n |-> IF i <= 2 THEN <<Null, Err>>[i] ELSE Null]
        BY <2>1 DEF A!Fitted, A!Error
      <3>3. \A i \in 1 .. n : (IF i <= 2 THEN <<Null, Err>>[i] ELSE Null)
                                = (IF i = 2 THEN Err ELSE Null)
        BY <2>1
      <3>4. QED
        BY <3>1, <3>2, <3>3
    <2>2. CASE ~(n > 1)
      BY <2>2 DEF Stored, A!Fitted, A!Error
    <2>3. QED
      BY <2>1, <2>2
  <1>3. Stored(<<True>>, TRUE, n) = A!Fitted(<<True>>, n)
    BY FramesAssumption DEF Stored, A!Fitted
  <1>4. Stored(<<Null>>, TRUE, n) = A!Fitted(<<>>, n)
    <2>1. Stored(<<Null>>, TRUE, n) = [i \in 1 .. n |-> IF i <= 1 THEN <<Null>>[i] ELSE Null]
      BY FramesAssumption DEF Stored
    <2>2. A!Fitted(<<>>, n) = [i \in 1 .. n |-> IF i <= 0 THEN <<>>[i] ELSE Null]
      BY DEF A!Fitted
    <2>3. \A i \in 1 .. n : (IF i <= 1 THEN <<Null>>[i] ELSE Null)
                              = (IF i <= 0 THEN <<>>[i] ELSE Null)
      OBVIOUS
    <2>4. QED
      BY <2>1, <2>2, <2>3
  <1>5. QED
    BY <1>1, <1>2, <1>3, <1>4

LEMMA NativeStep ==
    ASSUME IInv, IInv', ~Leaked,
           NEW results \in Lists, NEW n \in Wanted, NEW single \in BOOLEAN,
           NEW pushes \in BOOLEAN, Native(results, single, n, pushes)
    PROVE  A!Next
  <1> DEFINE needed == IF pushes THEN vm.top + 1 ELSE 0
             values == Stored(results, single, n)
  <1>1. /\ Executing /\ Fits(vm, n) /\ host' = host /\ UNCHANGED switchVars
        /\ single => Len(results) = 1
    BY DEF Native
  <1>2. /\ WellFormed(vm, up) /\ Depth(vm) > 0 /\ vm \in Contexts /\ vm' \in Contexts'
        /\ vm \in Context /\ ContextOK(vm, up) /\ Settled(vm, up)
    BY <1>1, RunningActs, InvContexts, SettledInv DEF IInv, TypeOK, Contexts
  <1>3. needed \in Nat /\ n \in Nat
    BY <1>2, ContextShape, FramesAssumption
  <1>4. PICK g \in Growths(needed) :
          GrowUpvalues(g) /\ vm' = Put(Grown(vm, g), Live(vm), values)
    BY DEF Native
  <1> DEFINE c == Grown(vm, g)
  <1>5. /\ Live(c) = Live(vm) /\ Frame(c).need = Frame(vm).need /\ Depth(c) = Depth(vm)
    BY <1>2, <1>3, <1>4, GrownOK
  <1>6. GrownFaithful(vm, c)
    BY <1>2, <1>3, <1>4, GrownActs
  <1>7. \A u \in Cell : ~OnList(vm, u) => up'[u] = up[u]
    BY <1>2, <1>3, <1>4, GrowthIs, GrowUpvaluesIs
  <1>8. values \in Seq(Contents) /\ Len(values) = n
    BY <1>3, StoredIs, Constants
  <1> HIDE DEF c, needed, values
  <1>9. /\ WellFormed(c, up') /\ Depth(c) > 0 /\ ActIn(c, up') = ActIn(vm, up)
        /\ Settled(c, up')
        /\ Live(c) + Len(values) <= Frame(c).need /\ vm' = Put(c, Live(c), values)
    BY <1>1, <1>2, <1>4, <1>5, <1>6, <1>8 DEF Fits, c, GrownFaithful
  <1>10. PutFaithful(c, up', values, vm')
    BY <1>8, <1>9, PutActs
  <1>11. ASSUME NEW u \in Cell PROVE CellKept(u)
    <2>1. CASE OnList(vm, u)
      <3>1. OnList(c, u) /\ c.stack[up'[u].location[2]] = vm.stack[up[u].location[2]]
        BY <1>6, <2>1 DEF GrownFaithful
      <3>2. OnList(vm', u) /\ vm'.stack[up'[u].location[2]] = c.stack[up'[u].location[2]]
        BY <1>10, <3>1 DEF PutFaithful
      <3>3. QED
        BY <1>2, <2>1, <3>1, <3>2 DEF CellKept, StaysOpen
    <2>2. CASE ~OnList(vm, u)
      BY <1>1, <1>7, <2>2, OtherCells
    <2>3. QED
      BY <2>1, <2>2
  <1>12. Cells' = Cells
    BY <1>11, CellsSame
  <1>13. A!Declare(values)
    BY <1>1, <1>7, <1>8, <1>9, <1>12, PutDeclares
  <1>14. values = A!Fitted(A!Error(n), n) \/ values = A!Fitted(results, n)
    <2>1. CASE single
      <3>1. results = <<Err>>
        <4>1. results = <<>> \/ results = <<Err>> \/ results = <<True, Err, Err>>
          BY DEF Lists
        <4>2. Len(results) = 1
          BY <1>1, <2>1
        <4>3. results # <<>>
          BY <4>2
        <4>4. results # <<True, Err, Err>>
          <5> DEFINE x == True
          <5> HIDE DEF x
          <5>1. Len(<<x, Err, Err>>) = 3
            OBVIOUS
          <5>2. QED
            BY <4>2, <5>1 DEF x
        <4>5. QED
          BY <4>1, <4>3, <4>4
      <3>2. QED
        BY <1>3, <2>1, <3>1, StoredFitted DEF values
    <2>2. CASE ~single
      BY <1>3, <2>2, StoredFitted DEF values
    <2>3. QED
      BY <2>1, <2>2
  <1>15. A!Same
    <2>1. A!Host
      BY <1>13, <1>14 DEF A!Host
    <2>2. QED
      BY <1>13, <2>1 DEF A!Same, A!Declare
  <1>16. QED
    BY <1>15 DEF A!Next

LEMMA ActInAt ==
    ASSUME NEW c, NEW ups, WellFormed(c, ups)
    PROVE  /\ ActIn(c, ups) \in ActSeq /\ Len(ActIn(c, ups)) = Len(c.frames)
           /\ \A d \in 1 .. Len(c.frames) :
                /\ ActIn(c, ups)[d].vars = [k \in 1 .. c.frames[d].live |->
                                              VarIn(c, ups, c.frames[d].slots[2] + k - 1)]
                /\ ActIn(c, ups)[d].vars \in Vars
                /\ Len(ActIn(c, ups)[d].vars) = c.frames[d].live
                /\ ActIn(c, ups)[d].want = c.frames[d].expected
                /\ c.frames[d].slots[2] \in Nat
  BY ActInIs

\* A call moves the callee and its arguments from the caller's variables into
\* an activation of their own.
LEMMA CalledActs ==
    ASSUME NEW c, NEW ups, WellFormed(c, ups), Depth(c) > 0, NEW p, WellFormed(p, ups),
           NEW base \in Nat, NEW n \in Nat, NEW need, NEW wanted \in Nat, NEW needed,
           IsCalled(c, base, n, need, wanted, needed, p), Live(c) = base + n,
           NEW a \in ActSeq, Len(a) = Len(c.frames),
           NEW own \in Vars, Len(own) = base, own = a[Len(a)].vars,
           NEW values \in Seq(Contents), Len(values) = n,
           ActIn(c, ups) = A!WithVars(a, own \o values)
    PROVE  ActIn(p, ups) = Append(a, [vars |-> values, want |-> wanted])
  <1> DEFINE b == ActIn(p, ups)  q == ActIn(c, ups)  x == [vars |-> values, want |-> wanted]
             e == Append(a, x)  D == Len(a)  at == Frame(c).slots[2]
  <1>1. /\ D \in Nat /\ D \in 1 .. D /\ D + 1 \in Nat /\ Len(c.frames) = D /\ Depth(c) = D
        /\ Len(p.frames) = D + 1 /\ Frame(c) = c.frames[D] /\ Live(c) = c.frames[D].live
        /\ c \in Context
    <2>1. c \in Context /\ Depth(c) = Len(c.frames) /\ Len(c.frames) \in Nat
      BY WellFormedIs, ContextShape DEF Depth
    <2>2. Len(c.frames) \in 1 .. Len(c.frames) /\ Len(c.frames) + 1 \in Nat
      BY <2>1
    <2>3. Frame(c) = c.frames[Len(c.frames)] /\ Live(c) = c.frames[Len(c.frames)].live
      BY <2>1 DEF Frame, Live
    <2>4. Len(p.frames) = Len(c.frames) + 1
      BY DEF IsCalled
    <2>5. QED
      BY <2>1, <2>2, <2>3, <2>4
  <1>2. /\ \A d \in 1 .. D : /\ p.frames[d].slots[2] = c.frames[d].slots[2]
                             /\ p.frames[d].expected = c.frames[d].expected
                             /\ p.frames[d].live = IF d = D THEN base ELSE c.frames[d].live
        /\ p.frames[D + 1].slots[2] = at + base /\ p.frames[D + 1].live = n
        /\ p.frames[D + 1].expected = wanted
        /\ p.block = c.block /\ p.stack = c.stack /\ p.open = c.open
    <2>1. p.block = c.block /\ p.stack = c.stack /\ p.open = c.open
      BY DEF IsCalled
    <2>2. \A d \in 1 .. D : /\ SameFrame(p.frames[d], c.frames[d])
                             /\ p.frames[d].live = IF d = D THEN base ELSE c.frames[d].live
      <3> HIDE DEF D
      <3>1. QED
        BY <1>1 DEF IsCalled
    <2>3. p.frames[D + 1] = [slots |-> <<c.block, at + base>>, live |-> n, need |-> need,
                             dest |-> base, expected |-> wanted, callerTop |-> c.top]
      <3> HIDE DEF D
      <3>1. QED
        BY <1>1 DEF IsCalled
    <2> HIDE DEF D, at
    <2>4. QED
      BY <2>1, <2>2, <2>3 DEF SameFrame
  <1>3. \A t : VarIn(p, ups, t) = VarIn(c, ups, t)
    BY <1>2 DEF VarIn
  <1>4. x \in Activation /\ x.vars = values /\ x.want = wanted /\ values \in Vars
    <2>1. values \in Seq(Var)
      BY DEF Var
    <2>2. QED
      BY <2>1 DEF Activation, Vars
  <1>5. e \in ActSeq /\ Len(e) = D + 1 /\ e[D + 1] = x /\ \A d \in 1 .. D : e[d] = a[d]
    <2>1. a \in Seq(Activation)
      BY DEF ActSeq
    <2> HIDE DEF x
    <2>2. QED
      BY <1>4, <2>1, AppendProperties DEF ActSeq
  <1>20. b \in ActSeq /\ Len(b) = Len(p.frames)
        /\ \A d \in 1 .. Len(p.frames) :
             /\ b[d].vars = [k \in 1 .. p.frames[d].live |->
                                VarIn(p, ups, p.frames[d].slots[2] + k - 1)]
             /\ b[d].vars \in Vars /\ Len(b[d].vars) = p.frames[d].live
             /\ b[d].want = p.frames[d].expected
    <2>1. b \in ActSeq /\ Len(b) = Len(p.frames)
      BY ActInAt
    <2>2. ASSUME NEW d \in 1 .. Len(p.frames)
          PROVE  /\ b[d].vars = [k \in 1 .. p.frames[d].live |->
                                    VarIn(p, ups, p.frames[d].slots[2] + k - 1)]
                 /\ b[d].vars \in Vars /\ Len(b[d].vars) = p.frames[d].live
                 /\ b[d].want = p.frames[d].expected
      <3>1. /\ b[d].vars = FrameVars(p, ups, d) /\ b[d].vars \in Vars
            /\ Len(b[d].vars) = p.frames[d].live /\ b[d].want = p.frames[d].expected
        BY ActInEach
      <3> HIDE DEF b
      <3>2. QED
        BY <3>1 DEF FrameVars
    <2> HIDE DEF b
    <2>3. QED
      BY <2>1, <2>2
  <1>21. \A d \in 1 .. Len(c.frames) :
             /\ q[d].vars = [k \in 1 .. c.frames[d].live |->
                                VarIn(c, ups, c.frames[d].slots[2] + k - 1)]
             /\ q[d].want = c.frames[d].expected
             /\ c.frames[d].slots[2] \in Nat
    <2> HIDE DEF D, e, x, b, at
    <2> SUFFICES ASSUME NEW d \in 1 .. Len(c.frames)
                 PROVE  /\ q[d].vars = [k \in 1 .. c.frames[d].live |->
                                          VarIn(c, ups, c.frames[d].slots[2] + k - 1)]
                        /\ q[d].want = c.frames[d].expected
                        /\ c.frames[d].slots[2] \in Nat
      OBVIOUS
    <2>1. q[d].vars = FrameVars(c, ups, d) /\ q[d].want = c.frames[d].expected
          /\ c.frames[d].slots[2] \in Nat
      BY ActInEach
    <2> HIDE DEF q
    <2>2. QED
      BY <2>1 DEF FrameVars
  <1>8. /\ own \o values \in Vars /\ Len(own \o values) = base + n
        /\ \A k \in 1 .. base + n :
             (own \o values)[k] = IF k <= base THEN own[k] ELSE values[k - base]
    BY Appended
  <1>9. /\ q[D].vars = own \o values
        /\ \A d \in 1 .. D : q[d].want = a[d].want /\ (d # D => q[d].vars = a[d].vars)
    <2> DEFINE ys == own \o values
    <2>1. ys \in Vars /\ Len(a) > 0
      BY <1>1, <1>8
    <2> HIDE DEF ys
    <2>2. A!WithVars(a, ys)[Len(a)].vars = ys
          /\ \A d \in 1 .. Len(a) : /\ A!WithVars(a, ys)[d].want = a[d].want
                                    /\ d # Len(a) => A!WithVars(a, ys)[d].vars = a[d].vars
      BY <2>1, WithVarsIs
    <2>3. q = A!WithVars(a, ys)
      BY DEF ys
    <2> HIDE DEF q
    <2>4. QED
      BY <2>2, <2>3 DEF ys
  <1> HIDE DEF b, q, x, e, D, at
  <1>6. b \in ActSeq /\ Len(b) = D + 1
        /\ \A d \in 1 .. D + 1 :
             /\ b[d].vars = [k \in 1 .. p.frames[d].live |->
                                VarIn(p, ups, p.frames[d].slots[2] + k - 1)]
             /\ b[d].vars \in Vars /\ Len(b[d].vars) = p.frames[d].live
             /\ b[d].want = p.frames[d].expected
    BY <1>1, <1>20
  <1>7. \A d \in 1 .. D :
             /\ q[d].vars = [k \in 1 .. c.frames[d].live |->
                                VarIn(c, ups, c.frames[d].slots[2] + k - 1)]
             /\ q[d].want = c.frames[d].expected
             /\ c.frames[d].slots[2] \in Nat
    BY <1>1, <1>21
  <1>10. at \in Nat /\ \A k \in 1 .. base + n : VarIn(c, ups, at + k - 1)
                            = IF k <= base THEN own[k] ELSE values[k - base]
    <2>1. at = c.frames[D].slots[2] /\ at \in Nat /\ c.frames[D].live = base + n
      BY <1>1, <1>7 DEF at
    <2>2. q[D].vars = [k \in 1 .. base + n |-> VarIn(c, ups, at + k - 1)]
      BY <1>1, <1>7, <2>1
    <2>3. \A k \in 1 .. base + n : q[D].vars[k] = VarIn(c, ups, at + k - 1)
      BY <2>2
    <2>4. \A k \in 1 .. base + n : VarIn(c, ups, at + k - 1) = (own \o values)[k]
      BY <1>9, <2>3
    <2>5. QED
      BY <1>8, <2>1, <2>4
  <1>11. ASSUME NEW d \in 1 .. D, d # D
         PROVE  b[d].vars = e[d].vars /\ b[d].want = e[d].want
    <2>1. d \in 1 .. D + 1
      BY <1>1
    <2>20. p.frames[d].live = c.frames[d].live /\ p.frames[d].slots[2] = c.frames[d].slots[2]
      BY <1>2, <1>11
    <2>21. b[d].vars = [k \in 1 .. c.frames[d].live |->
                            VarIn(p, ups, c.frames[d].slots[2] + k - 1)]
      BY <1>6, <2>1, <2>20
    <2>22. q[d].vars = [k \in 1 .. c.frames[d].live |->
                            VarIn(c, ups, c.frames[d].slots[2] + k - 1)]
      BY <1>7
    <2>2. b[d].vars = q[d].vars
      BY <1>3, <2>21, <2>22
    <2>3. b[d].want = q[d].want
      BY <1>2, <1>6, <1>7, <2>1
    <2>4. QED
      BY <1>5, <1>9, <1>11, <2>2, <2>3
  <1>12. b[D].vars = e[D].vars /\ b[D].want = e[D].want
    <2>1. D \in 1 .. D /\ D \in 1 .. D + 1
      BY <1>1
    <2>20. b[D].want = p.frames[D].expected /\ p.frames[D].expected = c.frames[D].expected
      BY <1>2, <1>6, <2>1
    <2>2. b[D].want = e[D].want
      BY <1>5, <1>7, <1>9, <2>1, <2>20
    <2>3. b[D].vars = [k \in 1 .. base |-> VarIn(c, ups, at + k - 1)]
          /\ b[D].vars \in Vars /\ Len(b[D].vars) = base
      BY <1>1, <1>2, <1>3, <1>6, <2>1 DEF at
    <2>4. ASSUME NEW k \in 1 .. base PROVE b[D].vars[k] = own[k]
      <3>1. k \in 1 .. base + n /\ k <= base
        OBVIOUS
      <3>2. QED
        BY <1>10, <2>3, <3>1
    <2> DEFINE ys == b[D].vars
    <2>40. ys \in Vars /\ Len(ys) = Len(own) /\ \A k \in 1 .. Len(ys) : ys[k] = own[k]
      BY <2>3, <2>4
    <2> HIDE DEF ys
    <2>41. ys = own
      BY <2>40, SameVars
    <2>5. b[D].vars = own
      BY <2>41 DEF ys
    <2>6. QED
      BY <1>5, <2>1, <2>2, <2>5 DEF D
  <1>13. b[D + 1].vars = e[D + 1].vars /\ b[D + 1].want = e[D + 1].want
    <2>1. D + 1 \in 1 .. D + 1
      BY <1>1
    <2>2. b[D + 1].want = e[D + 1].want
      BY <1>2, <1>4, <1>5, <1>6, <2>1
    <2>3. b[D + 1].vars = [k \in 1 .. n |-> VarIn(c, ups, at + base + k - 1)]
          /\ b[D + 1].vars \in Vars /\ Len(b[D + 1].vars) = n
      <3> DEFINE d == D + 1
      <3>1. d \in 1 .. D + 1 /\ p.frames[d].slots[2] = at + base /\ p.frames[d].live = n
        BY <1>2, <2>1
      <3> HIDE DEF d
      <3>2. /\ b[d].vars = [k \in 1 .. n |-> VarIn(p, ups, at + base + k - 1)]
            /\ b[d].vars \in Vars /\ Len(b[d].vars) = n
        BY <1>6, <3>1
      <3>3. QED
        BY <1>3, <3>2 DEF d
    <2>4. ASSUME NEW k \in 1 .. n PROVE b[D + 1].vars[k] = values[k]
      <3>1. base + k \in 1 .. base + n /\ ~(base + k <= base) /\ base + k - base = k
            /\ at + (base + k) - 1 = at + base + k - 1
        BY <1>10
      <3>2. VarIn(c, ups, at + (base + k) - 1) = values[base + k - base]
        <4> DEFINE j == base + k
        <4>1. j \in 1 .. base + n /\ ~(j <= base)
          BY <3>1
        <4> HIDE DEF j
        <4>2. VarIn(c, ups, at + j - 1) = values[j - base]
          BY <1>10, <4>1
        <4>3. QED
          BY <4>2 DEF j
      <3>3. QED
        BY <2>3, <3>1, <3>2
    <2> DEFINE ys == b[D + 1].vars
    <2>40. ys \in Vars /\ Len(ys) = Len(values) /\ \A k \in 1 .. Len(ys) : ys[k] = values[k]
      BY <2>3, <2>4
    <2> HIDE DEF ys
    <2>41. ys = values
      BY <1>4, <2>40, SameVars
    <2>5. b[D + 1].vars = values
      BY <2>41 DEF ys
    <2>6. QED
      BY <1>4, <1>5, <2>2, <2>5
  <1>14. \A d \in 1 .. Len(b) : b[d].vars = e[d].vars /\ b[d].want = e[d].want
    <2> SUFFICES ASSUME NEW d \in 1 .. D + 1
                 PROVE  b[d].vars = e[d].vars /\ b[d].want = e[d].want
      BY <1>6
    <2>1. d \in 1 .. D \/ d = D + 1
      BY <1>1
    <2>2. QED
      BY <1>11, <1>12, <1>13, <2>1
  <1>15. b = e
    BY <1>5, <1>6, <1>14, SameActivations
  <1>16. QED
    BY <1>15 DEF b, e, x

LEMMA CallStep ==
    ASSUME IInv, IInv', ~Leaked, NEW args \in Arguments, NEW wanted \in Wanted,
           NEW need \in Needs["called"], Call(args, wanted, need)
    PROVE  A!Next
  <1> DEFINE base == Live(vm)  needed == Frame(vm).slots[2] + base + need
             values == <<Fn>> \o args  n == Len(values)
             a == ActIn(vm, up)  own == OwnIn(vm, up)
  <1>1. PICK g : CallMade(args, wanted, need, g)
    BY CallIs
  <1> DEFINE put == Put(vm, base, values)  c == Grown(put, g)
  <1>2. /\ Executing /\ host' = host /\ UNCHANGED switchVars /\ Depth(vm) > 0
        /\ values \in Seq(Contents) /\ n \in Nat /\ wanted \in Nat /\ base \in Nat
        /\ base + n <= Frame(vm).need
        /\ needed \in Nat /\ g \in Growths(needed) /\ GrowUpvalues(g)
        /\ put.open = vm.open /\ put.block = vm.block /\ Capacity(put) = Capacity(vm)
        /\ Depth(c) = Depth(vm) /\ Live(c) = base + n
        /\ IsCalled(c, base, n, need, wanted, needed, vm')
    BY <1>1 DEF CallMade
  <1>3. /\ WellFormed(vm, up) /\ WellFormed(vm', up') /\ vm \in Contexts /\ vm' \in Contexts'
        /\ vm \in Context /\ Settled(vm, up)
    BY <1>2, RunningActs, WellAfter, InvContexts, SettledInv DEF AllWell, IInv, TypeOK, Contexts
  <1>4. a \in ActSeq /\ own \in Vars /\ Len(own) = base /\ own = a[Len(a)].vars
        /\ Len(a) = Len(vm.frames)
    BY <1>2, <1>3, OwnIs DEF OwnIn, Depth
  <1> HIDE DEF base, needed, values, n, c, a, own
  <1>5. PutFaithful(vm, up, values, put)
    BY <1>2, <1>3, PutActs DEF n, base
  <1> HIDE DEF put
  <1>6. WellFormed(put, up) /\ ActIn(put, up) = A!WithVars(a, own \o values)
    BY <1>5 DEF PutFaithful, a, own
  <1>7. GrownFaithful(put, c)
    BY <1>2, <1>6, GrownActs DEF c
  <1>8. /\ WellFormed(c, up') /\ ActIn(c, up') = A!WithVars(a, own \o values)
        /\ Len(a) = Len(c.frames) /\ Depth(c) > 0
    BY <1>2, <1>4, <1>6, <1>7 DEF GrownFaithful, Depth
  <1>9. ActIn(vm', up') = Append(a, [vars |-> values, want |-> wanted])
    <2>1. /\ WellFormed(c, up') /\ Depth(c) > 0 /\ WellFormed(vm', up')
          /\ base \in Nat /\ n \in Nat /\ wanted \in Nat
          /\ IsCalled(c, base, n, need, wanted, needed, vm') /\ Live(c) = base + n
          /\ a \in ActSeq /\ Len(a) = Len(c.frames)
          /\ own \in Vars /\ Len(own) = base /\ own = a[Len(a)].vars
          /\ values \in Seq(Contents) /\ Len(values) = n
          /\ ActIn(c, up') = A!WithVars(a, own \o values)
      BY <1>2, <1>3, <1>4, <1>8 DEF n
    <2>2. QED
      BY <2>1, CalledActs
  <1>10. \A u \in Cell : ~OnList(vm, u) => up'[u] = up[u]
    BY <1>2, <1>3, GrowthIs, GrowUpvaluesIs
  <1>11. ASSUME NEW u \in Cell PROVE CellKept(u)
    <2>1. CASE OnList(vm, u)
      <3>1. OnList(put, u) /\ put.stack[up[u].location[2]] = vm.stack[up[u].location[2]]
        BY <1>5, <2>1 DEF PutFaithful
      <3>2. OnList(c, u) /\ c.stack[up'[u].location[2]] = put.stack[up[u].location[2]]
        BY <1>7, <3>1 DEF GrownFaithful
      <3>3. OnList(vm', u) /\ vm'.stack = c.stack
        BY <1>2, <3>2 DEF IsCalled, OnList
      <3>4. QED
        BY <1>3, <2>1, <3>1, <3>2, <3>3 DEF CellKept, StaysOpen
    <2>2. CASE ~OnList(vm, u)
      BY <1>2, <1>10, <2>2, OtherCells
    <2>3. QED
      BY <2>1, <2>2
  <1>12. Cells' = Cells
    BY <1>11, CellsSame
  <1>13. /\ Thread' = Thread /\ expected' = expected /\ (state = "dead")' = (state = "dead")
         /\ Acts' = [Acts EXCEPT ![Thread] = ActIn(vm', up')]
         /\ Acts[Thread] = a /\ A!Active
    BY <1>2, <1>10, ActsStep, RunningActs DEF a
  <1>14. A!Call(args, wanted)
    BY <1>9, <1>12, <1>13 DEF A!Call, values
  <1>15. A!Same
    BY <1>13, <1>14 DEF A!Same
  <1>16. QED
    BY <1>15 DEF A!Next

\* A closure that starts has one variable, itself.
LEMMA StartedActs ==
    ASSUME NEW c \in Context, NEW need \in Nat \ {0}, need <= Capacity(c),
           NEW p, p = StartedOn(c, need), NEW ups
    PROVE  ActIn(p, ups) = <<[vars |-> <<Fn>>, want |-> 1]>>
  <1> DEFINE st == [Cleared(c.stack, 0, need) EXCEPT ![0] = Fn]
             f == [slots |-> <<c.block, 0>>, live |-> 1, need |-> need,
                   dest |-> 0, expected |-> 1, callerTop |-> 0]
             fr == <<f>>  o == <<>>
  <1>1. c = [block |-> c.block, stack |-> c.stack, top |-> c.top, frames |-> c.frames,
             open |-> c.open]
    BY ContextFields
  <1>2. p = [[c EXCEPT !.stack = st, !.top = need, !.frames = fr] EXCEPT !.open = o]
    BY DEF StartedOn, Started
  <1>3. st[0] = Fn
    <2>1. c.stack \in [0 .. Capacity(c) - 1 -> Contents] /\ Capacity(c) \in Nat
      BY ContextShape
    <2>2. 0 \in 0 .. Capacity(c) - 1
      BY <2>1
    <2>3. 0 \in DOMAIN Cleared(c.stack, 0, need)
      BY <2>1, <2>2 DEF Cleared
    <2>4. QED
      BY <2>3
  <1>4. f.live = 1 /\ f.slots[2] = 0 /\ f.expected = 1
    OBVIOUS
  <1>5. DOMAIN fr = {1} /\ fr[1] = f
    <2> HIDE DEF f
    <2>1. QED
      OBVIOUS
  <1>6. DOMAIN o = {}
    OBVIOUS
  <1> HIDE DEF st, f, fr, o
  <1>7. p.stack = st /\ p.frames = fr /\ p.open = o
    BY <1>1, <1>2
  <1>8. VarIn(p, ups, 0) = Fn
    BY <1>3, <1>6, <1>7 DEF VarIn
  <1>9. [k \in 1 .. f.live |-> VarIn(p, ups, f.slots[2] + k - 1)] = <<Fn>>
    <2>1. [k \in 1 .. f.live |-> VarIn(p, ups, f.slots[2] + k - 1)]
            = [k \in 1 .. 1 |-> VarIn(p, ups, 0 + k - 1)]
      BY <1>4
    <2>2. \A k \in 1 .. 1 : VarIn(p, ups, 0 + k - 1) = Fn
      BY <1>8
    <2>3. <<Fn>> = [k \in 1 .. 1 |-> Fn]
      OBVIOUS
    <2>4. QED
      BY <2>1, <2>2, <2>3
  <1>10. ActIn(p, ups) = [d \in {1} |-> [vars |-> <<Fn>>, want |-> 1]]
    BY <1>4, <1>5, <1>7, <1>9 DEF ActIn
  <1> DEFINE x == [vars |-> <<Fn>>, want |-> 1]
  <1> HIDE DEF x
  <1>11. <<x>> = [d \in {1} |-> x]
    OBVIOUS
  <1>12. QED
    BY <1>10, <1>11 DEF x

LEMMA NoActs ==
    ASSUME NEW c, NEW ups, WellFormed(c, ups), Len(c.frames) = 0
    PROVE  ActIn(c, ups) = <<>>
  <1>1. ActIn(c, ups) \in ActSeq /\ Len(ActIn(c, ups)) = 0
    BY ActInIs
  <1>2. QED
    BY <1>1 DEF ActSeq

\* A step of the main thread's context, also while no closure runs on it
LEMMA MainActs ==
    ASSUME IInv, IInv', caller = None, UNCHANGED switchVars,
           \A u \in Cell : ~OnList(vm, u) /\ up[u] # None /\ up[u].location # None =>
               up'[u] = up[u]
    PROVE  /\ Acts' = [Acts EXCEPT !["main"] = ActIn(vm', up')]
           /\ Acts["main"] = ActIn(vm, up)
           /\ expected' = expected /\ (state = "dead")' = (state = "dead")
           /\ caller' = None /\ WellFormed(vm, up) /\ WellFormed(vm', up')
           /\ vm \in Contexts /\ vm' \in Contexts'
  <1>1. caller' = caller /\ co' = co /\ state' = state /\ expected' = expected
    BY DEF switchVars
  <1>2. Acts' = [Acts EXCEPT !["main"] = ActIn(vm', up')] /\ Acts["main"] = ActIn(vm, up)
    BY <1>1, OtherActs, ContextActs DEF Acts
  <1>3. /\ WellFormed(vm, up) /\ WellFormed(vm', up') /\ vm \in Contexts /\ vm' \in Contexts'
    BY WellInv, WellAfter DEF AllWell, IInv, TypeOK, Contexts
  <1>4. QED
    BY <1>1, <1>2, <1>3

LEMMA RunStep ==
    ASSUME IInv, IInv', NEW need \in Needs["run"], Run(need)
    PROVE  A!Next
  <1>1. PICK g : RunMade(need, g)
    BY RunIs
  <1> DEFINE c == Grown(vm, g)
  <1>2. /\ host # "in" /\ host' = "in" /\ UNCHANGED switchVars /\ vm \in Context
        /\ vm.open = <<>> /\ need \in Nat \ {0} /\ need \in Nat
        /\ g \in Growths(need) /\ GrowUpvalues(g)
        /\ c \in Context /\ need <= Capacity(c) /\ vm' = StartedOn(c, need)
    BY <1>1 DEF RunMade
  <1> HIDE DEF c
  <1>3. ActIn(vm', up') = <<[vars |-> <<Fn>>, want |-> 1]>>
    BY <1>2, StartedActs
  <1>4. \A u \in Cell : ~OnList(vm, u) => up'[u] = up[u]
    BY <1>2, GrowthIs, GrowUpvaluesIs
  <1>5. \A u \in Cell : ~OnList(vm, u)
    BY <1>2 DEF OnList
  <1>6. caller = None /\ host \in {"out", "between"}
    BY <1>2 DEF IInv, TypeOK, Phases
  <1>7. /\ Acts' = [Acts EXCEPT !["main"] = ActIn(vm', up')]
        /\ expected' = expected /\ (state = "dead")' = (state = "dead") /\ caller' = None
    BY <1>2, <1>4, <1>6, MainActs
  <1>8. Cells' = Cells
    <2>1. ASSUME NEW u \in Cell PROVE CellKept(u)
      BY <1>2, <1>4, <1>5, OtherCells
    <2>2. QED
      BY <2>1, CellsSame
  <1>9. Thread \in {"host", "between"}
    BY <1>6 DEF Thread
  <1>10. Thread' = "main"
    BY <1>2, <1>7 DEF Thread
  <1>11. A!Run
    BY <1>3, <1>7, <1>8, <1>9, <1>10 DEF A!Run
  <1>12. QED
    BY <1>11 DEF A!Next

LEMMA FinishStep ==
    ASSUME IInv, IInv', Finish
    PROVE  A!Next
  <1> DEFINE s == Frame(vm).slots[2]
  <1>1. /\ Executing /\ caller = None /\ Depth(vm) = 1 /\ up' = MovedIn(vm, s)
        /\ vm' = Popped /\ host' = "between" /\ UNCHANGED switchVars
    BY DEF Finish, CloseUpvalues
  <1>2. s \in Nat /\ vm'.open = Closed(vm, s).open /\ Len(vm'.frames) = 0
    BY <1>1, PoppedIs
  <1>3. s = 0
    <2>1. Frame(vm) = vm.frames[1] /\ 1 \in 1 .. Len(vm.frames) /\ FramesNested(vm)
      BY <1>1, FrameShape, InvContexts
    <2>2. QED
      BY <2>1 DEF FramesNested
  <1> HIDE DEF s
  <1>4. \A u \in Cell : ~OnList(vm, u) => up'[u] = up[u]
    BY <1>1, <1>2, ClosedCells
  <1>5. /\ Acts' = [Acts EXCEPT !["main"] = ActIn(vm', up')] /\ Acts["main"] = ActIn(vm, up)
        /\ expected' = expected /\ (state = "dead")' = (state = "dead")
        /\ caller' = None /\ WellFormed(vm, up) /\ WellFormed(vm', up')
    BY <1>1, <1>4, MainActs
  <1>6. ActIn(vm', up') = <<>>
    BY <1>2, <1>5, NoActs
  <1>7. Len(Acts["main"]) = 1
    <2>1. Depth(vm) > 0
      BY <1>1
    <2>2. Len(ActIn(vm, up)) = Depth(vm)
      BY <1>5, <2>1, OwnIs
    <2>3. QED
      BY <1>1, <1>5, <2>2
  <1>8. Cells' = Cells
    <2>1. \A t \in Nat : ~(t < s)
      BY <1>3
    <2>2. \A u \in Cell : OnList(vm, u) => CellKept(u)
      BY <1>1, <1>2, <2>1, CloseVars
    <2>3. \A u \in Cell : CellKept(u)
      BY <1>1, <1>4, <2>2, OtherCells
    <2>4. QED
      BY <2>3, CellsSame
  <1>9. Thread = "main" /\ Thread' = "between"
    BY <1>1, RunningActs DEF Thread
  <1>10. A!Finish
    BY <1>5, <1>6, <1>7, <1>8, <1>9 DEF A!Finish
  <1>11. QED
    BY <1>10 DEF A!Next

\* All that is open is closed.
LEMMA AllClosed ==
    ASSUME IInv, up' = MovedIn(vm, 0)
    PROVE  /\ \A u \in Cell : ~OnList(vm, u) => up'[u] = up[u]
           /\ \A u \in Cell : OnList(vm, u) => CellKept(u)
  <1>1. 0 \in Nat
    OBVIOUS
  <1>2. WellFormed(vm, up) /\ vm \in Contexts
    BY WellInv DEF AllWell, IInv, TypeOK, Contexts
  <1>3. ASSUME NEW u \in Cell, OnList(vm, u) PROVE CellKept(u)
    <2>1. up[u].location[2] >= 0
      BY <1>2, <1>3, OnListIs
    <2>2. /\ up'[u] # None /\ up'[u].location = None
          /\ up'[u].closed = vm.stack[up[u].location[2]]
      BY <1>1, <1>3, <2>1, ClosedCells
    <2>3. QED
      BY <1>2, <1>3, <2>2 DEF CellKept, IsClosed
  <1>4. QED
    BY <1>1, <1>3, ClosedCells

LEMMA EndRunStep ==
    ASSUME IInv, IInv', EndRun
    PROVE  A!Next
  <1>1. /\ up' = MovedIn(vm, 0) /\ host' = "out" /\ UNCHANGED switchVars
        /\ vm' = [vm EXCEPT !.stack = Cleared(@, 0, vm.top), !.top = 0,
                            !.frames = <<>>, !.open = <<>>]
        /\ caller = None /\ (host = "between" \/ host = "in")
    BY DEF EndRun, IInv, Phases, Executing
  <1>2. Len(vm'.frames) = 0
    <2> DEFINE st == Cleared(vm.stack, 0, vm.top)  f == <<>>  o == <<>>
    <2>1. vm = [block |-> vm.block, stack |-> vm.stack, top |-> vm.top,
                frames |-> vm.frames, open |-> vm.open]
      BY InvContexts, ContextFields
    <2>2. vm' = [vm EXCEPT !.stack = st, !.top = 0, !.frames = f, !.open = o]
      BY <1>1
    <2>3. Len(f) = 0
      OBVIOUS
    <2> HIDE DEF st, f, o
    <2>4. vm'.frames = f
      BY <2>1, <2>2
    <2>5. QED
      BY <2>3, <2>4
  <1>3. \A u \in Cell : ~OnList(vm, u) => up'[u] = up[u]
    BY <1>1, AllClosed
  <1>4. /\ Acts' = [Acts EXCEPT !["main"] = ActIn(vm', up')]
        /\ expected' = expected /\ (state = "dead")' = (state = "dead") /\ WellFormed(vm', up')
    BY <1>1, <1>3, MainActs
  <1>5. ActIn(vm', up') = <<>>
    BY <1>2, <1>4, NoActs
  <1>6. Cells' = Cells
    <2>1. \A u \in Cell : CellKept(u)
      BY <1>1, <1>3, AllClosed, OtherCells
    <2>2. QED
      BY <2>1, CellsSame
  <1>7. Thread \in {"main", "between"} /\ Thread' = "host"
    BY <1>1 DEF Thread
  <1>8. A!End
    BY <1>4, <1>5, <1>6, <1>7 DEF A!End
  <1>9. QED
    BY <1>8 DEF A!Next

\* What a variable of the running context holds is in its register.
LEMMA HeldIn ==
    ASSUME IInv, NEW t \in Nat, LiveSlot(vm, t)
    PROVE  A!ValueOf(VarIn(vm, up, t)) = vm.stack[t]
  <1>1. WellFormed(vm, up) /\ vm \in Contexts
    BY WellInv DEF AllWell, IInv, TypeOK, Contexts
  <1>2. CASE \E u : At(vm, up, t, u)
    <2>1. PICK u : At(vm, up, t, u)
      BY <1>2
    <2>2. VarIn(vm, up, t) = [cell |-> u]
      BY <1>1, <2>1, VarInIs
    <2>3. u \in Cell /\ Cells[u] = vm.stack[t]
      BY <1>1, <2>1, CellsInv, OnListIs DEF At, CellsHold
    <2>4. [cell |-> u] \in [cell : Cell] /\ [cell |-> u].cell = u
      BY <2>3
    <2>5. QED
      BY <2>2, <2>3, <2>4 DEF A!ValueOf
  <1>3. CASE ~\E u : At(vm, up, t, u)
    <2>1. VarIn(vm, up, t) = vm.stack[t]
      BY <1>1, <1>3, VarInIs
    <2>2. vm.stack[t] \in Contents
      BY <1>1, LiveInside, WellFormedIs, ContextShape
    <2>3. vm.stack[t] \notin [cell : Cell]
      BY <2>2, FramesAssumption
    <2>4. QED
      BY <2>1, <2>3 DEF A!ValueOf
  <1>4. QED
    BY <1>2, <1>3

\* The values a return gathers are those of the frame's last variables.
LEMMA ValuesHeld ==
    ASSUME IInv, NEW i \in 1 .. MaxStack, NEW count \in 0 .. 2, Returns(i, count)
    PROVE  /\ A!Values(i + 1, i + count) = Values(i, count)
           /\ <<i + 1, i + count>> \in A!Ranges
           /\ <<i + 1, i + count>>[1] = i + 1 /\ <<i + 1, i + count>>[2] = i + count
  <1> DEFINE at == Frame(vm).slots[2]
  <1>1. /\ WellFormed(vm, up) /\ Depth(vm) > 0 /\ A!Own = OwnIn(vm, up)
    BY RunningActs DEF Returns
  <1>2. /\ Len(A!Own) = Live(vm) /\ Live(vm) \in Nat /\ at \in Nat
        /\ \A k \in 1 .. Live(vm) : A!Own[k] = VarIn(vm, up, at + k - 1)
    BY <1>1, OwnIs
  <1>3. i \in Nat /\ i >= 1 /\ count \in Nat /\ i + count <= Live(vm)
    BY FramesAssumption DEF Returns
  <1>4. ASSUME NEW j \in Nat PROVE R(vm, j) = vm.stack[at + j]
    <2>1. SlotOf(vm, j) = <<vm.block, at + j>>
      BY <1>1, FrameShape, WellFormedIs
    <2> HIDE DEF at
    <2>2. QED
      BY <2>1 DEF R
  <1> HIDE DEF at
  <1>5. ASSUME NEW k \in 1 .. count
        PROVE  A!ValueOf(A!Own[i + 1 + k - 1]) = R(vm, i + k - 1)
    <2> DEFINE j == i + k
    <2>1. /\ j \in 1 .. Live(vm) /\ i + 1 + k - 1 = j /\ i + k - 1 = j - 1 /\ j - 1 \in Nat
          /\ at + j - 1 = at + (j - 1) /\ at + j - 1 \in Nat
      BY <1>2, <1>3
    <2> HIDE DEF j
    <2>2. LiveSlot(vm, at + j - 1)
      BY <1>1, <2>1, BelowLive DEF at
    <2>3. A!ValueOf(A!Own[j]) = vm.stack[at + j - 1]
      BY <1>2, <2>1, <2>2, HeldIn
    <2>4. R(vm, j - 1) = vm.stack[at + (j - 1)]
      BY <1>4, <2>1
    <2>5. QED
      BY <2>1, <2>3, <2>4
  <1>6. (i + count) + 1 - (i + 1) = count
    BY <1>3
  <1>7. A!Values(i + 1, i + count) = [k \in 1 .. count |-> A!ValueOf(A!Own[i + 1 + k - 1])]
    BY <1>6 DEF A!Values
  <1>8. A!Values(i + 1, i + count) = Values(i, count)
    BY <1>5, <1>7 DEF Values
  <1>9. i + 1 \in 1 .. Len(A!Own) + 1 /\ i + count \in 0 .. Len(A!Own) /\ i + 1 <= i + count + 1
    BY <1>2, <1>3
  <1>10. QED
    BY <1>8, <1>9 DEF A!Ranges

\* Without the innermost frame the other activations are as they were.
LEMMA PoppedActs ==
    ASSUME IInv, NEW i, NEW count, ReturnMade(i, count), NEW ups, WellFormed(Popped, ups),
           \A t \in Nat : t < Frame(vm).slots[2] /\ LiveSlot(vm, t) =>
               VarIn(Popped, ups, t) = VarIn(vm, up, t)
    PROVE  /\ ActIn(Popped, ups) = SubSeq(ActIn(vm, up), 1, Len(ActIn(vm, up)) - 1)
           /\ Len(ActIn(vm, up)) = Depth(vm)
  <1> DEFINE p == Popped  s == Frame(vm).slots[2]  D == Depth(vm)
             a == ActIn(vm, up)  b == ActIn(p, ups)  e == SubSeq(a, 1, D - 1)
  <1>1. /\ D > 1 /\ D = Len(vm.frames) /\ D \in 1 .. Len(vm.frames) /\ D \in Nat
        /\ D - 1 \in Nat /\ D - 1 >= 1 /\ Frame(vm) = vm.frames[D]
        /\ Len(p.frames) = D - 1 /\ \A d \in 1 .. D - 1 : p.frames[d] = vm.frames[d]
    <2>1. /\ D > 1 /\ D = Len(vm.frames) /\ D \in 1 .. Len(vm.frames) /\ Frame(vm) = vm.frames[D]
          /\ Len(p.frames) = D - 1 /\ \A d \in 1 .. D - 1 : p.frames[d] = vm.frames[d]
      BY DEF ReturnMade
    <2>2. Len(vm.frames) \in Nat
      BY InvContexts, ContextShape
    <2> HIDE DEF D
    <2>3. QED
      BY <2>1, <2>2
  <1>2. WellFormed(vm, up) /\ vm \in Context /\ FramesNested(vm)
    BY WellInv, InvContexts DEF AllWell, IInv, TypeOK, Contexts
  <1> HIDE DEF p, D
  <1>3. a \in ActSeq /\ Len(a) = D
        /\ \A d \in 1 .. D :
             /\ a[d].vars = [k \in 1 .. vm.frames[d].live |->
                                VarIn(vm, up, vm.frames[d].slots[2] + k - 1)]
             /\ a[d].want = vm.frames[d].expected
             /\ vm.frames[d].slots[2] \in Nat /\ vm.frames[d].live \in Nat
    BY <1>1, <1>2, ActInIs
  <1>4. b \in ActSeq /\ Len(b) = D - 1
        /\ \A d \in 1 .. D - 1 :
             /\ b[d].vars = [k \in 1 .. p.frames[d].live |->
                                VarIn(p, ups, p.frames[d].slots[2] + k - 1)]
             /\ b[d].want = p.frames[d].expected
    <2>1. WellFormed(p, ups)
      BY DEF p
    <2>2. QED
      BY <1>1, <2>1, ActInIs
  <1> HIDE DEF a, b
  <1>5. e \in ActSeq /\ Len(e) = D - 1 /\ \A d \in 1 .. D - 1 : e[d] = a[d]
    <2>1. \A d \in 1 .. D - 1 : a[d] \in Activation
      BY <1>1, <1>3, ActSeqIs
    <2> DEFINE n == D - 1
    <2>2. n \in Int /\ 1 \in Int /\ 1 <= n /\ n - 1 + 1 = n
      BY <1>1
    <2> HIDE DEF n
    <2>3. /\ e \in Seq(Activation) /\ Len(e) = IF 1 <= n THEN n - 1 + 1 ELSE 0
          /\ \A k \in 1 .. n - 1 + 1 : e[k] = a[1 + k - 1]
      <3>1. e = SubSeq(a, 1, n)
        BY DEF n
      <3>2. \A d \in 1 .. n : a[d] \in Activation
        BY <2>1 DEF n
      <3> HIDE DEF e
      <3>3. QED
        BY <2>2, <3>1, <3>2, SubSeqProperties
    <2>4. \A k \in 1 .. n : 1 + k - 1 = k
      BY <2>2
    <2> HIDE DEF e
    <2>5. QED
      BY <2>2, <2>3, <2>4 DEF ActSeq, n
  <1>6. ASSUME NEW d \in 1 .. D - 1
        PROVE  b[d].vars = e[d].vars /\ b[d].want = e[d].want
    <2> DEFINE at == vm.frames[d].slots[2]  live == vm.frames[d].live
    <2>1. d \in 1 .. D /\ d \in 1 .. Len(vm.frames) /\ d < D
      BY <1>1
    <2>2. at + live <= s /\ at \in Nat /\ live \in Nat
      BY <1>1, <1>2, <1>3, <2>1, NestedOrder
    <2>3. s \in Nat
      BY DEF ReturnMade
    <2> HIDE DEF s
    <2>4. ASSUME NEW k \in 1 .. live PROVE VarIn(p, ups, at + k - 1) = VarIn(vm, up, at + k - 1)
      <3>1. at + k - 1 \in Nat /\ at + k - 1 < s /\ at + k - 1 \in at .. at + live - 1
        <4> HIDE DEF at, live
        <4>1. QED
          BY <2>2, <2>3
      <3>2. LiveSlot(vm, at + k - 1)
        <4>1. d \in DOMAIN vm.frames
          BY <1>2, <2>1, ContextShape
        <4>2. QED
          BY <3>1, <4>1 DEF LiveSlot
      <3> HIDE DEF at, live
      <3>3. QED
        BY <3>1, <3>2 DEF s, p
    <2>5. /\ a[d].vars = [k \in 1 .. live |-> VarIn(vm, up, at + k - 1)]
          /\ a[d].want = vm.frames[d].expected
      BY <1>3, <2>1
    <2>6. /\ b[d].vars = [k \in 1 .. live |-> VarIn(p, ups, at + k - 1)]
          /\ b[d].want = vm.frames[d].expected
      BY <1>1, <1>4
    <2> HIDE DEF at, live, e
    <2>7. b[d].vars = a[d].vars
      BY <2>4, <2>5, <2>6
    <2>8. QED
      BY <1>5, <2>5, <2>6, <2>7
  <1> HIDE DEF e
  <1>7. b = e
    BY <1>4, <1>5, <1>6, SameActivations
  <1>8. QED
    BY <1>3, <1>7 DEF p, D, a, b, e

\* The slots of the frames below stay as they are when a frame returns.
LEMMA PoppedFaithful ==
    ASSUME IInv, IInv', NEW i, NEW count, ReturnMade(i, count),
           vm'.open = Popped.open, vm'.block = Popped.block
    PROVE  /\ WellFormed(Popped, up')
           /\ \A t \in Nat : t < Frame(vm).slots[2] /\ LiveSlot(vm, t) =>
                VarIn(Popped, up', t) = VarIn(vm, up, t)
           /\ Settled(vm, up) => Settled(Popped, up')
           /\ \A u \in Cell : ~OnList(vm, u) => up'[u] = up[u]
           /\ \A u : OnList(vm, u) /\ up[u].location[2] < Frame(vm).slots[2] =>
                /\ OnList(Popped, u) /\ up'[u] = up[u]
                /\ Popped.stack[up[u].location[2]] = vm.stack[up[u].location[2]]
           /\ \A u : OnList(vm, u) /\ up[u].location[2] >= Frame(vm).slots[2] =>
                /\ up'[u] # None /\ up'[u].location = None
                /\ up'[u].closed = vm.stack[up[u].location[2]]
  <1> DEFINE p == Popped  s == Frame(vm).slots[2]
  <1>1. /\ s \in Nat /\ up' = MovedIn(vm, s) /\ p.open = Closed(vm, s).open
        /\ p \in Context /\ ContextOK(p, up') /\ p.top = Frame(vm).callerTop
        /\ \A t \in Nat : t < s /\ FrameSlot(vm, t) => FrameSlot(p, t)
        /\ \A t \in Nat : t < Frame(vm).callerTop => p.stack[t] = vm.stack[t]
    BY DEF ReturnMade, CloseUpvalues
  <1>10. ASSUME NEW t \in Nat, t < s, LiveSlot(vm, t) PROVE LiveSlot(p, t)
    <2> DEFINE D == Depth(vm)
    <2>1. /\ D = Len(vm.frames) /\ D \in 1 .. Len(vm.frames) /\ Frame(vm) = vm.frames[D]
          /\ p \in Context /\ Len(p.frames) = D - 1
          /\ \A d \in 1 .. D - 1 : p.frames[d] = vm.frames[d]
      BY DEF ReturnMade
    <2> HIDE DEF D, p, s
    <2>2. PICK d \in 1 .. D :
             t \in vm.frames[d].slots[2] .. vm.frames[d].slots[2] + vm.frames[d].live - 1
      BY <1>10, <2>1, InvContexts, ContextShape DEF LiveSlot
    <2>3. d # D
      <3>1. vm.frames[D].slots[2] = s /\ s \in Nat
        BY <1>1, <2>1 DEF s
      <3>2. QED
        BY <1>10, <2>2, <3>1
    <2>4. d \in 1 .. D - 1 /\ D - 1 \in Nat
      BY <2>1, <2>2, <2>3, InvContexts, ContextShape
    <2>5. DOMAIN p.frames = 1 .. D - 1
      BY <2>1, ContextShape
    <2>6. QED
      BY <2>1, <2>2, <2>4, <2>5 DEF LiveSlot
  <1>2. /\ WellFormed(vm, up) /\ WellFormed(vm', up')
    BY WellInv, WellAfter DEF AllWell, Contexts, IInv, TypeOK
  <1> HIDE DEF p, s
  <1>3. vm'.open = p.open /\ vm'.block = p.block /\ vm'.open = Closed(vm, s).open
    BY <1>1 DEF p
  <1>4. /\ \A u \in Cell : ~OnList(vm, u) => up'[u] = up[u]
        /\ \A u : OnList(vm', u) => OnList(vm, u) /\ up[u].location[2] < s
        /\ \A u : OnList(vm, u) /\ up[u].location[2] < s => OnList(vm', u) /\ up'[u] = up[u]
        /\ \A u : OnList(vm, u) /\ up[u].location[2] >= s =>
             /\ up'[u] # None /\ up'[u].location = None
             /\ up'[u].closed = vm.stack[up[u].location[2]]
    BY <1>1, <1>3, CloseIs
  <1>5. \A u : OnList(p, u) <=> OnList(vm', u)
    BY <1>3 DEF OnList
  <1>6. WellFormed(p, up')
    BY <1>1, <1>2, <1>3, <1>5 DEF WellFormed, Owned
  <1>11. ASSUME NEW t \in Nat, t < s, FrameSlot(vm, t) PROVE p.stack[t] = vm.stack[t]
    <2>1. FrameSlot(p, t)
      BY <1>1, <1>11
    <2>2. t < p.top
      BY <1>6, <2>1, SlotInside, WellFormedIs
    <2>3. QED
      BY <1>1, <2>2
  <1>7. ASSUME NEW t \in Nat, t < s, LiveSlot(vm, t)
        PROVE  VarIn(p, up', t) = VarIn(vm, up, t)
    <2>3. p.stack[t] = vm.stack[t]
      BY <1>2, <1>7, <1>11, LiveInside, WellFormedIs
    <2>4. \A u \in Cell : At(p, up', t, u) <=> At(vm, up, t, u)
      BY <1>4, <1>5, <1>7 DEF At
    <2>5. QED
      BY <1>2, <1>6, <2>3, <2>4, VarInSame
  <1>8. ASSUME NEW u, OnList(vm, u), up[u].location[2] < s
        PROVE  /\ OnList(p, u) /\ up'[u] = up[u]
               /\ p.stack[up[u].location[2]] = vm.stack[up[u].location[2]]
    <2>1. up[u].location[2] \in Nat /\ FrameSlot(vm, up[u].location[2])
      BY <1>2, <1>8, OnListIs
    <2>2. QED
      BY <1>4, <1>5, <1>8, <1>11, <2>1
  <1>12. ASSUME Settled(vm, up), NEW u, OnList(p, u)
         PROVE  LiveSlot(p, up'[u].location[2])
    <2>1. OnList(vm, u) /\ up[u].location[2] < s /\ up'[u] = up[u]
      BY <1>4, <1>5, <1>12
    <2>2. up[u].location[2] \in Nat /\ LiveSlot(vm, up[u].location[2])
      BY <1>2, <1>12, <2>1, OnListIs DEF Settled
    <2>3. QED
      BY <1>10, <2>1, <2>2
  <1>9. QED
    BY <1>4, <1>6, <1>7, <1>8, <1>12 DEF p, s, Settled

LEMMA ReturnStep ==
    ASSUME IInv, IInv', ~Leaked,
           NEW i \in 1 .. MaxStack, NEW count \in 0 .. 2, Return(i, count)
    PROVE  A!Next
  <1> DEFINE p == Popped  s == Frame(vm).slots[2]  D == Depth(vm)
             xs == Values(i, count)  n == Frame(vm).expected
             values == Stored(xs, FALSE, n)
             a == ActIn(vm, up)  callers == SubSeq(a, 1, Len(a) - 1)
  <1>1. ReturnMade(i, count)
    BY ReturnIs
  <1>2. /\ Executing /\ host' = host /\ UNCHANGED switchVars /\ D > 1 /\ Returns(i, count)
        /\ s \in Nat /\ p \in Context /\ Depth(p) > 0 /\ FramesNested(p) /\ NullAbove(p)
        /\ values \in Seq(Contents) /\ n \in Nat
        /\ vm' = Put(p, Live(p), values) /\ Live(p) + Len(values) <= Frame(p).need
        /\ D = Len(vm.frames) /\ D \in 1 .. Len(vm.frames) /\ Frame(vm) = vm.frames[D]
    BY <1>1 DEF ReturnMade, CallFrame
  <1>3. WellFormed(vm, up) /\ vm \in Contexts /\ vm' \in Contexts' /\ Settled(vm, up)
    BY WellInv, SettledInv DEF AllWell, IInv, TypeOK, Contexts
  <1> HIDE DEF p, s, D, n, values, xs
  <1>4. vm'.open = p.open /\ vm'.block = p.block
    BY <1>2, PutIs
  <1>5. /\ WellFormed(p, up')
        /\ \A t \in Nat : t < s /\ LiveSlot(vm, t) => VarIn(p, up', t) = VarIn(vm, up, t)
        /\ \A u \in Cell : ~OnList(vm, u) => up'[u] = up[u]
        /\ \A u : OnList(vm, u) /\ up[u].location[2] < s =>
             /\ OnList(p, u) /\ up'[u] = up[u]
             /\ p.stack[up[u].location[2]] = vm.stack[up[u].location[2]]
        /\ \A u : OnList(vm, u) /\ up[u].location[2] >= s =>
             /\ up'[u] # None /\ up'[u].location = None
             /\ up'[u].closed = vm.stack[up[u].location[2]]
    BY <1>1, <1>4, PoppedFaithful DEF p, s
  <1>20. Settled(p, up')
    BY <1>1, <1>3, <1>4, PoppedFaithful DEF p
  <1>6. PutFaithful(p, up', values, vm')
    BY <1>2, <1>5, <1>20, PutActs
  <1>7. ASSUME NEW u \in Cell PROVE CellKept(u)
    <2>1. CASE ~OnList(vm, u)
      BY <1>2, <1>5, <2>1, OtherCells
    <2>2. CASE OnList(vm, u) /\ up[u].location[2] < s
      <3>1. OnList(vm', u) /\ vm'.stack[up'[u].location[2]] = p.stack[up'[u].location[2]]
        BY <1>5, <1>6, <2>2 DEF PutFaithful
      <3>2. vm'.stack[up'[u].location[2]] = vm.stack[up[u].location[2]]
        BY <1>5, <2>2, <3>1
      <3>3. QED
        BY <1>3, <2>2, <3>1, <3>2 DEF CellKept, StaysOpen
    <2>3. CASE OnList(vm, u) /\ up[u].location[2] >= s
      BY <1>3, <1>5, <2>3 DEF CellKept, IsClosed
    <2>4. up[u].location[2] \in Nat \/ ~OnList(vm, u)
      BY <1>3, OnListIs
    <2>5. QED
      BY <1>2, <2>1, <2>2, <2>3, <2>4
  <1>8. Cells' = Cells
    BY <1>7, CellsSame
  <1>9. /\ Thread' = Thread /\ expected' = expected /\ (state = "dead")' = (state = "dead")
        /\ Acts' = [Acts EXCEPT ![Thread] = ActIn(vm', up')]
        /\ Acts[Thread] = a /\ A!Active
    BY <1>2, <1>5, ActsStep, RunningActs
  <1>10. ActIn(p, up') = callers /\ Len(a) = D
    BY <1>1, <1>5, PoppedActs DEF p, s, D
  <1>11. ActIn(vm', up') = A!WithVars(callers, callers[Len(callers)].vars \o values)
    BY <1>6, <1>10 DEF PutFaithful, OwnIn
  <1>12. a[Len(a)].want = n
    <2>1. \A d \in 1 .. Len(vm.frames) : a[d].want = vm.frames[d].expected
      BY <1>3, ActInAt
    <2>2. QED
      BY <1>2, <1>10, <2>1 DEF n
  <1>13. values = A!Fitted(xs, n)
    BY <1>2, StoredFitted, ValuesIs DEF values, xs
  <1>14. /\ xs = A!Values(i + 1, i + count) /\ <<i + 1, i + count>> \in A!Ranges
         /\ <<i + 1, i + count>>[1] = i + 1 /\ <<i + 1, i + count>>[2] = i + count
    BY <1>2, ValuesHeld DEF xs
  <1> HIDE DEF a
  <1>15. A!Return(i + 1, i + count)
    <2>1. A!Fitted(A!Values(i + 1, i + count), a[Len(a)].want) = values
      BY <1>12, <1>13, <1>14
    <2>2. Len(a) > 1
      BY <1>2, <1>10
    <2> HIDE DEF callers
    <2>3. /\ Acts' = [Acts EXCEPT ![Thread] = A!WithVars(callers, callers[Len(callers)].vars
                          \o A!Fitted(A!Values(i + 1, i + count), a[Len(a)].want))]
          /\ Acts[Thread] = a
      BY <1>9, <1>11, <2>1
    <2>4. QED
      BY <1>8, <1>9, <2>2, <2>3 DEF A!Return, callers
  <1>16. A!Same
    <2> DEFINE r == <<i + 1, i + count>>
    <2>1. r \in A!Ranges /\ A!Return(r[1], r[2])
      BY <1>14, <1>15
    <2>2. QED
      BY <1>9, <2>1 DEF A!Same
  <1>17. QED
    BY <1>16 DEF A!Next

LEMMA ResumeStep ==
    ASSUME IInv, IInv', NEW n \in Wanted, NEW need \in Needs["co"], Resume(n, need)
    PROVE  A!Next
  <1>1. /\ Executing /\ host' = host /\ caller = None /\ caller' = vm /\ expected' = n
        /\ co' = None /\ state' = "running" /\ up' = up /\ state \in {"new", "suspended"}
    BY DEF Resume
  <1>2. co # None /\ vm # None /\ vm \in Contexts /\ co \in Contexts
    BY <1>1 DEF IInv, TypeOK, Contexts
  <1>3. vm \in Contexts' /\ vm' \in Contexts'
    BY <1>1, <1>2 DEF IInv, TypeOK, Contexts
  <1>4. WellFormed(vm, up) /\ WellFormed(co, up) /\ co \in Context
    BY <1>2, WellInv, InvContexts DEF AllWell
  <1>5. /\ Acts = [main |-> ActIn(vm, up), co |-> ActIn(co, up)]
        /\ Acts' = [main |-> ActIn(vm, up), co |-> ActIn(vm', up)]
    <2>1. Acts = [main |-> ActIn(vm, up), co |-> ActIn(co, up)]
      BY <1>1, <1>2, ContextActs DEF Acts
    <2>2. Activated(caller)' = ActIn(vm, up) /\ Activated(vm)' = ActIn(vm', up)
      BY <1>1, ContextActs
    <2>3. caller' # None
      BY <1>1, <1>2
    <2>4. Acts' = [main |-> Activated(caller)', co |-> Activated(vm)']
      BY <2>3 DEF Acts
    <2>5. QED
      BY <2>1, <2>2, <2>4
  <1>6. Thread = "main" /\ Thread' = "co"
    BY <1>1, <1>2 DEF Thread, Executing
  <1>7. /\ (\A u : OnList(co, u) => OnList(vm', u) /\ vm'.stack = co.stack)
        /\ ActIn(vm', up) = IF ActIn(co, up) = <<>> THEN <<[vars |-> <<Fn>>, want |-> 1]>>
                            ELSE ActIn(co, up)
    <2>1. CASE state = "new"
      <3>1. vm' = StartedOn(co, need)
        BY <2>1 DEF Resume, StartedOn
      <3>2. co.frames = <<>> /\ co.open = <<>> /\ Capacity(co) = CoCap
        BY <2>1 DEF IInv, Phases
      <3>3. need \in Nat \ {0} /\ need <= Capacity(co)
        BY <3>2, FramesAssumption
      <3>4. ActIn(vm', up) = <<[vars |-> <<Fn>>, want |-> 1]>>
        BY <1>4, <3>1, <3>3, StartedActs
      <3>5. Len(co.frames) = 0 /\ \A u : ~OnList(co, u)
        BY <3>2 DEF OnList
      <3>6. ActIn(co, up) = <<>>
        BY <1>4, <3>5, NoActs
      <3>7. QED
        BY <3>4, <3>5, <3>6
    <2>2. CASE state = "suspended"
      <3>1. vm' = co /\ Depth(co) > 0
        BY <2>2 DEF Resume, IInv, Phases
      <3>2. Len(ActIn(co, up)) > 0
        BY <1>4, <3>1, OwnIs
      <3>3. ActIn(co, up) # <<>>
        BY <3>2
      <3>4. QED
        BY <3>1, <3>3
    <2>3. QED
      BY <1>1, <2>1, <2>2
  <1>8. ASSUME NEW u \in Cell PROVE CellKept(u)
    <2>1. CASE up[u] = None \/ up[u].location = None
      BY <1>1, <2>1 DEF CellKept, StaysClosed
    <2>2. CASE up[u] # None /\ up[u].location # None
      <3>1. PICK c \in Contexts : OnList(c, u)
        BY <2>2 DEF IInv, OpenListed, OnList
      <3>2. c = vm \/ c = co
        BY <1>1, <3>1 DEF Contexts
      <3>3. CASE c = vm
        BY <1>1, <1>2, <1>3, <3>1, <3>3 DEF CellKept, StaysOpen
      <3>4. CASE c = co
        BY <1>1, <1>2, <1>3, <1>7, <3>1, <3>4 DEF CellKept, StaysOpen
      <3>5. QED
        BY <3>2, <3>3, <3>4
    <2>3. QED
      BY <2>1, <2>2
  <1>9. Cells' = Cells
    BY <1>8, CellsSame
  <1>10. Acts' = IF Acts["co"] = <<>>
                 THEN [Acts EXCEPT !["co"] = <<[vars |-> <<Fn>>, want |-> 1]>>]
                 ELSE Acts
    BY <1>5, <1>7
  <1>11. ~(state = "dead") /\ (state = "dead")' = (state = "dead")
    BY <1>1
  <1>12. A!Resume(n)
    BY <1>1, <1>6, <1>9, <1>10, <1>11 DEF A!Resume
  <1>13. QED
    BY <1>12 DEF A!Next

\* The resumer's activations get the answer of resume, and no upvalue of the
\* resumer changes.
LEMMA BackActs ==
    ASSUME IInv, IInv', ~Leaked, Executing, host' = host, state = "running",
           NEW answer \in Seq(Contents), Len(answer) = expected, Back(answer),
           \A u : OnList(caller, u) => up'[u] = up[u]
    PROVE  /\ Thread = "co" /\ Thread' = "main" /\ expected' = 0
           /\ caller \in Contexts /\ vm' \in Contexts' /\ vm \in Contexts
           /\ WellFormed(vm, up) /\ Depth(vm) > 0
           /\ Acts = [main |-> ActIn(caller, up), co |-> ActIn(vm, up)]
           /\ Acts' = [main |-> A!WithVars(Acts["main"],
                                    Acts["main"][Len(Acts["main"])].vars \o answer),
                       co |-> IF co' = None THEN <<>> ELSE ActIn(co', up')]
           /\ \A u : OnList(caller, u) =>
                OnList(vm', u) /\ vm'.stack[up[u].location[2]] = caller.stack[up[u].location[2]]
  <1>1. /\ caller # None /\ caller' = None /\ expected' = 0
        /\ vm' = Put(caller, Live(caller), answer)
    BY DEF Back, IInv, TypeOK
  <1>2. /\ caller \in Contexts /\ vm \in Contexts /\ vm' \in Contexts'
        /\ caller \in Context /\ ContextOK(caller, up) /\ Depth(caller) > 0
        /\ Live(caller) + Len(answer) <= Frame(caller).need
    BY <1>1, InvContexts DEF IInv, TypeOK, Contexts, Phases, Fits
  <1>3. WellFormed(caller, up) /\ WellFormed(vm', up')
    BY <1>2, WellInv, WellAfter DEF AllWell
  <1>4. ContextOK(caller, up')
    <2>1. \A k \in 1 .. Len(caller.open) : up'[caller.open[k]] = up[caller.open[k]]
      BY DEF OnList
    <2>2. QED
      BY <1>2, <2>1, Untouched
  <1>5. vm'.block = caller.block /\ vm'.open = caller.open
    BY <1>4, BackIs
  <1>6. WellFormed(caller, up')
    BY <1>2, <1>3, <1>4, <1>5 DEF WellFormed, Owned, OnList
  <1>7. ActIn(caller, up') = ActIn(caller, up)
    BY <1>3, <1>6, ActInKept
  <1>18. Settled(caller, up')
    BY <1>2, SettledInv DEF Settled
  <1>8. PutFaithful(caller, up', answer, vm')
    BY <1>1, <1>2, <1>6, <1>18, PutActs
  <1>9. ActIn(vm', up') = A!WithVars(ActIn(caller, up), OwnIn(caller, up) \o answer)
    BY <1>7, <1>8 DEF PutFaithful, OwnIn
  <1>10. Acts = [main |-> ActIn(caller, up), co |-> ActIn(vm, up)]
    BY <1>1, ContextActs DEF Acts
  <1>11. Acts' = [main |-> ActIn(vm', up'), co |-> IF co' = None THEN <<>> ELSE ActIn(co', up')]
    BY <1>1, ContextActs DEF Acts
  <1>12. Thread = "co" /\ Thread' = "main"
    BY <1>1 DEF Thread, Executing
  <1>13. WellFormed(vm, up) /\ Depth(vm) > 0
    BY RunningActs
  <1>14. ASSUME NEW u, OnList(caller, u)
         PROVE  /\ OnList(vm', u)
                /\ vm'.stack[up[u].location[2]] = caller.stack[up[u].location[2]]
    BY <1>8, <1>14 DEF PutFaithful
  <1>15. Acts["main"] = ActIn(caller, up)
    BY <1>10
  <1>16. Acts' = [main |-> A!WithVars(Acts["main"],
                                Acts["main"][Len(Acts["main"])].vars \o answer),
                  co |-> IF co' = None THEN <<>> ELSE ActIn(co', up')]
    BY <1>9, <1>11, <1>15 DEF OwnIn
  <1>17. QED
    BY <1>1, <1>2, <1>10, <1>12, <1>13, <1>14, <1>16

\* What resume answers is what it hands over, or true, in the wanted number.
LEMMA ProducedFitted ==
    ASSUME IInv, NEW values
    PROVE  Produced(values) = A!Fitted(A!Answer(values), expected)
  <1>1. expected \in Nat
    BY FramesAssumption DEF IInv, TypeOK
  <1>2. QED
    BY <1>1, StoredFitted DEF Produced, A!Answer

\* The cells of the running coroutine and of its resumer are all that are open.
LEMMA OpenInBoth ==
    ASSUME IInv, state = "running", NEW u \in Cell, ~OnList(vm, u), ~OnList(caller, u)
    PROVE  up[u] = None \/ up[u].location = None
  <1>1. co = None
    BY DEF IInv, TypeOK
  <1>2. QED
    BY <1>1 DEF IInv, OpenListed, OnList, Contexts

LEMMA YieldStep ==
    ASSUME IInv, IInv', ~Leaked, NEW args \in Lists, NEW n \in Wanted, Yield(args, n)
    PROVE  A!Next
  <1> DEFINE values == Stored(<<Null>>, TRUE, n)  answer == Produced(args)
  <1>1. /\ Executing /\ state = "running" /\ Fits(vm, n) /\ host' = host /\ up' = up
        /\ co' = Put(vm, Live(vm), values) /\ state' = "suspended" /\ Back(answer)
    BY DEF Yield
  <1>2. answer \in Seq(Contents) /\ Len(answer) = expected
    BY ProducedIs, Constants
  <1>3. n \in Nat /\ values = A!Fitted(<<>>, n) /\ answer = A!Fitted(A!Answer(args), expected)
    BY FramesAssumption, StoredFitted, ProducedFitted
  <1>4. values \in Seq(Contents) /\ Len(values) = n
    <2>1. <<Null>> \in Seq(Contents)
      BY Constants
    <2>2. QED
      BY <1>3, <2>1, StoredIs
  <1> HIDE DEF values, answer
  <1>5. /\ Thread = "co" /\ Thread' = "main" /\ expected' = 0
        /\ caller \in Contexts /\ vm' \in Contexts' /\ vm \in Contexts
        /\ WellFormed(vm, up) /\ Depth(vm) > 0
        /\ Acts = [main |-> ActIn(caller, up), co |-> ActIn(vm, up)]
        /\ Acts' = [main |-> A!WithVars(Acts["main"],
                                 Acts["main"][Len(Acts["main"])].vars \o answer),
                    co |-> IF co' = None THEN <<>> ELSE ActIn(co', up')]
        /\ \A u : OnList(caller, u) =>
             OnList(vm', u) /\ vm'.stack[up[u].location[2]] = caller.stack[up[u].location[2]]
    BY <1>1, <1>2, BackActs
  <1>6. PutFaithful(vm, up, values, co')
    BY <1>1, <1>4, <1>5, PutActs, SettledInv DEF Fits
  <1>7. co' # None
    BY <1>6, WellFormedIs DEF PutFaithful
  <1>8. co' \in Contexts'
    BY <1>7 DEF Contexts
  <1>9. ASSUME NEW u \in Cell PROVE CellKept(u)
    <2>1. CASE OnList(vm, u)
      <3>1. OnList(co', u) /\ co'.stack[up[u].location[2]] = vm.stack[up[u].location[2]]
        BY <1>6, <2>1 DEF PutFaithful
      <3>2. QED
        BY <1>1, <1>5, <1>8, <2>1, <3>1 DEF CellKept, StaysOpen
    <2>2. CASE OnList(caller, u)
      BY <1>1, <1>5, <2>2 DEF CellKept, StaysOpen
    <2>3. CASE ~OnList(vm, u) /\ ~OnList(caller, u)
      BY <1>1, <2>3, OpenInBoth DEF CellKept, StaysClosed
    <2>4. QED
      BY <2>1, <2>2, <2>3
  <1>10. Cells' = Cells
    BY <1>9, CellsSame
  <1>11. ActIn(co', up') = A!WithVars(Acts["co"], A!Own \o A!Fitted(<<>>, n))
    BY <1>1, <1>3, <1>5, <1>6, RunningActs DEF PutFaithful
  <1>12. A!HandOver(A!WithVars(Acts["co"], A!Own \o A!Fitted(<<>>, n)), A!Answer(args))
    BY <1>3, <1>5, <1>7, <1>10, <1>11 DEF A!HandOver
  <1>13. A!Yield(args, n)
    BY <1>1, <1>12 DEF A!Yield
  <1>14. A!Leave
    BY <1>5, <1>13 DEF A!Leave
  <1>15. QED
    BY <1>14 DEF A!Next

\* The coroutine ends: its activations are gone, its open cells closed.
LEMMA DieActs ==
    ASSUME IInv, IInv', ~Leaked,
           NEW answer \in Seq(Contents), Len(answer) = expected, Die(answer),
           NEW results, answer = A!Fitted(results, expected)
    PROVE  /\ A!HandOver(<<>>, results) /\ (state = "dead")'
           /\ Thread = "co" /\ Thread' = "main" /\ Acts["co"] = ActIn(vm, up)
  <1>1. /\ Executing /\ state = "running" /\ host' = host /\ up' = MovedIn(vm, 0)
        /\ co' = co /\ state' = "dead" /\ Back(answer)
    BY DEF Die
  <1>2. /\ caller # None /\ co = None /\ ContextOK(caller, up)
        /\ caller.block[1] # vm.block[1] /\ OpenSorted(vm, up) /\ caller \in Contexts
    BY <1>1, InvContexts DEF IInv, TypeOK, Contexts
  <1>3. /\ \A u \in Cell : ~OnList(vm, u) => up'[u] = up[u]
        /\ \A u \in Cell : OnList(vm, u) => CellKept(u)
    BY <1>1, AllClosed
  <1>4. WellFormed(caller, up)
    BY <1>2, WellInv DEF AllWell
  <1>5. ASSUME NEW u, OnList(caller, u) PROVE up'[u] = up[u]
    <2>1. ~OnList(vm, u)
      BY <1>2, <1>5, ListsApart DEF ContextOK
    <2>2. u \in Cell
      BY <1>4, <1>5, OnListIs
    <2>3. QED
      BY <1>3, <2>1, <2>2
  <1>6. /\ Thread = "co" /\ Thread' = "main" /\ expected' = 0 /\ vm' \in Contexts'
        /\ Acts = [main |-> ActIn(caller, up), co |-> ActIn(vm, up)]
        /\ Acts' = [main |-> A!WithVars(Acts["main"],
                                 Acts["main"][Len(Acts["main"])].vars \o answer),
                    co |-> IF co' = None THEN <<>> ELSE ActIn(co', up')]
        /\ \A u : OnList(caller, u) =>
             OnList(vm', u) /\ vm'.stack[up[u].location[2]] = caller.stack[up[u].location[2]]
    BY <1>1, <1>5, BackActs
  <1>7. ASSUME NEW u \in Cell, ~OnList(vm, u) PROVE CellKept(u)
    <2>1. up'[u] = up[u]
      BY <1>3, <1>7
    <2>2. CASE OnList(caller, u)
      BY <1>2, <1>6, <2>1, <2>2 DEF CellKept, StaysOpen
    <2>3. CASE ~OnList(caller, u)
      BY <1>1, <1>7, <2>1, <2>3, OpenInBoth DEF CellKept, StaysClosed
    <2>4. QED
      BY <2>2, <2>3
  <1>8. Cells' = Cells
    BY <1>3, <1>7, CellsSame
  <1>9. A!HandOver(<<>>, results)
    BY <1>1, <1>2, <1>6, <1>8 DEF A!HandOver
  <1>10. QED
    BY <1>1, <1>6, <1>9

LEMMA CompleteStep ==
    ASSUME IInv, IInv', ~Leaked,
           NEW i \in 1 .. MaxStack, NEW count \in 0 .. 2, Complete(i, count)
    PROVE  A!Next
  <1> DEFINE xs == Values(i, count)  answer == Produced(xs)
  <1>1. /\ Returns(i, count) /\ Depth(vm) = 1 /\ Die(answer)
    BY DEF Complete
  <1>2. xs \in Seq(Contents)
    BY <1>1, ValuesIs
  <1> HIDE DEF xs
  <1>3. answer \in Seq(Contents) /\ Len(answer) = expected
        /\ answer = A!Fitted(A!Answer(xs), expected)
    BY <1>2, ProducedIs, ProducedFitted
  <1> HIDE DEF answer
  <1>4. /\ A!HandOver(<<>>, A!Answer(xs)) /\ (state = "dead")'
        /\ Thread = "co" /\ Thread' = "main" /\ Acts["co"] = ActIn(vm, up)
    BY <1>1, <1>3, DieActs
  <1>5. Len(Acts["co"]) = 1
    <2>1. WellFormed(vm, up) /\ Depth(vm) > 0
      BY <1>1, RunningActs DEF Returns
    <2>2. Len(ActIn(vm, up)) = Depth(vm)
      BY <2>1, OwnIs
    <2>3. QED
      BY <1>1, <1>4, <2>2
  <1> DEFINE r == <<i + 1, i + count>>
  <1>6. xs = A!Values(r[1], r[2]) /\ r \in A!Ranges
    BY <1>1, ValuesHeld DEF xs
  <1> HIDE DEF r
  <1>7. A!Complete(r[1], r[2])
    BY <1>4, <1>5, <1>6 DEF A!Complete
  <1>8. A!Leave
    BY <1>4, <1>6, <1>7 DEF A!Leave
  <1>9. QED
    BY <1>8 DEF A!Next

LEMMA BreakStep ==
    ASSUME IInv, IInv', ~Leaked, Break
    PROVE  A!Next
  <1> DEFINE answer == Stored(<<Err>>, TRUE, expected)
  <1>0. Die(answer)
    BY DEF Break
  <1>1. expected \in Nat /\ <<Err>> \in Seq(Contents)
    <2>1. expected \in Nat
      BY FramesAssumption DEF IInv, TypeOK
    <2>2. QED
      BY <2>1, Constants
  <1>2. answer \in Seq(Contents) /\ Len(answer) = expected
        /\ answer = A!Fitted(A!Error(expected), expected)
    BY <1>1, StoredIs, StoredFitted
  <1> HIDE DEF answer
  <1>3. /\ A!HandOver(<<>>, A!Error(expected)) /\ (state = "dead")'
        /\ Thread = "co" /\ Thread' = "main"
    BY <1>0, <1>2, DieActs
  <1>4. A!Leave
    BY <1>3 DEF A!Leave, A!Break
  <1>5. QED
    BY <1>4 DEF A!Next

LEMMA InitActs ==
    ASSUME Init
    PROVE  A!Init
  <1>1. IInv
    BY InitInv
  <1>2. /\ caller = None /\ expected = 0 /\ state = "new" /\ up = [u \in Cell |-> None]
        /\ host = "out" /\ vm.frames = <<>> /\ co.frames = <<>> /\ co # None
    <2>1. /\ caller = None /\ expected = 0 /\ state = "new" /\ up = [u \in Cell |-> None]
          /\ host = "out"
      BY DEF Init
    <2>2. vm.frames = <<>> /\ co.frames = <<>> /\ co # None
      BY <1>1, <2>1 DEF IInv, Phases, TypeOK
    <2>3. QED
      BY <2>1, <2>2
  <1>3. vm \in Contexts /\ co \in Contexts
    BY <1>1, <1>2 DEF Contexts, IInv, TypeOK
  <1>4. Len(vm.frames) = 0 /\ Len(co.frames) = 0
    BY <1>2
  <1>5. ActIn(vm, up) = <<>> /\ ActIn(co, up) = <<>>
    BY <1>1, <1>3, <1>4, WellInv, NoActs DEF AllWell
  <1>6. Acts = [t \in {"main", "co"} |-> <<>>]
    BY <1>2, <1>5, ContextActs DEF Acts
  <1>7. Cells = [u \in Cell |-> None]
    BY <1>2 DEF Cells, Deref
  <1>8. Thread = "host"
    BY <1>2 DEF Thread
  <1>9. QED
    BY <1>2, <1>6, <1>7, <1>8 DEF A!Init

LEMMA StutterActs ==
    ASSUME UNCHANGED vars
    PROVE  UNCHANGED A!vars
  <1>1. /\ vm' = vm /\ up' = up /\ host' = host
        /\ caller' = caller /\ expected' = expected /\ co' = co /\ state' = state
    BY DEF vars, upvalueVars, switchVars
  <1>2. Acts' = Acts
    BY <1>1, ContextActs DEF Acts
  <1>3. Cells' = Cells
    <2>1. ASSUME NEW u \in Cell PROVE Deref(u)' = Deref(u)
      BY <1>1 DEF Deref, Owner
    <2>2. QED
      BY <2>1 DEF Cells
  <1>4. Thread' = Thread
    BY <1>1 DEF Thread
  <1>5. QED
    BY <1>1, <1>2, <1>3, <1>4 DEF A!vars

\* Every step of the stacks is a step of the activations, if nothing is leaked.
LEMMA NextActs ==
    ASSUME IInv, IInv', Next, ~Leaked
    PROVE  A!Next
  <1>1. CASE Straight
    BY <1>1, DeclareStep, AssignStep, EndScopeStep, LeaveScopeStep, GetUpvalStep, SetUpvalStep, CaptureStep
       DEF Straight
  <1>2. CASE Calls
    BY <1>2, CallStep, NativeStep DEF Calls
  <1>3. CASE Ends
    BY <1>3, ReturnStep, CompleteStep, FinishStep DEF Ends
  <1>4. CASE Switches
    BY <1>4, ResumeStep, YieldStep, BreakStep DEF Switches
  <1>5. CASE Host
    BY <1>5, EndRunStep, RunStep DEF Host
  <1>6. QED
    BY <1>1, <1>2, <1>3, <1>4, <1>5 DEF Next

\* Whatever calls, returns, natives, captures and coroutine switches happen, and
\* wherever ensure_stack moves a stack, a script sees the variables and results
\* that Activations promises: OP_RETURN's results reach the caller's registers
\* in the wanted number, closures share what capture_upvalue captured until and
\* after close_upvalues, and coroutine.resume finds a stack as yield left it.  No
\* more is promised of a step from a state in which end_scope has left a captured
\* variable's register free, its upvalue open.
THEOREM CallsImplemented == Spec => CallsRefined
  <1>1. Init => A!Init
    BY InitActs
  <1>2. IInv /\ IInv' /\ [Next]_vars => [Leaked \/ A!Next]_(A!vars)
    BY NextActs, StutterActs
  <1>3. Spec => []IInv
    BY Invariance
  <1>4. QED
    BY <1>1, <1>2, <1>3, PTL DEF Spec, CallsRefined
=============================================================================
