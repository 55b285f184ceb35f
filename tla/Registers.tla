------------------------------ MODULE Registers -----------------------------
(***************************************************************************)
(* The interpreter's run of the code of one function body or script        *)
(* (src/src/vm.c), on symbolic values: the registers of its frame, the     *)
(* variables of others, and a trace of what others can see, which must be  *)
(* the trace that the statements mean.                                     *)
(***************************************************************************)
EXTENDS Statements, Validator

VARIABLES
    code,       \* the compiled code
    reg_count,  \* registers of its frame
    expected,   \* what it should do: the trace Meaning gives
    pc,         \* the next instruction; 0 once it has returned
    regs,       \* the registers
    cells,      \* globals and captured variables
    left,       \* answers not used yet
    trace       \* what it has done

machine == <<code, reg_count, expected, pc, regs, cells, left, trace>>

\* Nothing is loaded.
Idle ==
    /\ code = <<>> /\ reg_count = 0 /\ expected = <<>> /\ pc = 0 /\ regs = <<>>
    /\ cells = <<>> /\ left = <<>> /\ trace = <<>>

\* The code is loaded, then entered: the frame is made for the registers the
\* compiler counted.
LoadCode(c, registers) ==
    /\ code' = c /\ reg_count' = registers
    /\ UNCHANGED <<expected, pc, regs, cells, left, trace>>
EnterFrame(registers, variables, answers, meaning) ==
    /\ pc' = 1 /\ regs' = registers /\ cells' = variables /\ trace' = <<>>
    /\ left' = answers /\ expected' = meaning
    /\ UNCHANGED <<code, reg_count>>

\* The value of a term; it is the value the instruction has obtained.
RECURSIVE Eval(_, _)
Eval(t, it) ==
    CASE t.op = "reg" -> regs[t.arg]
      [] t.op \in {"up", "global"} -> cells[t]
      [] t.op = "it" -> it
      [] OTHER -> Canon(N(t.op, t.arg, [i \in DOMAIN t.kids |-> Eval(t.kids[i], it)]))

Running(op) == pc # 0 /\ code[pc].op = op
I == code[pc]
Fixed == UNCHANGED <<code, reg_count, expected>>
Stay  == UNCHANGED <<cells, left>>

Done(entry) == trace' = Append(trace, entry)

\* Instructions that compute a register from others
Compute ==
    /\ regs' = [regs EXCEPT ![I.to] = Eval(I.term, Null)]
    /\ pc' = pc + 1 /\ UNCHANGED trace /\ Stay /\ Fixed

Right     == I.term.kids[2]
Binary    == Running("put") /\ I.term.op = "bin"
Fusing    == \E i \in 1 .. 2 : I.term.kids[i].op = "bin"

Move      == Running("put") /\ I.term.op \notin {"bin", "neg", "not"} /\ Compute
Unary     == Running("put") /\ I.term.op \in {"neg", "not"} /\ Compute
Compare   == Binary /\ I.term.arg \notin Arithmetic /\ Compute
Combine   == Binary /\ I.term.arg \in Arithmetic /\ Right.op # "num" /\ ~Fusing /\ Compute
Immediate == Binary /\ I.term.arg \in Arithmetic /\ Right.op = "num" /\ ~Fusing /\ Compute
Fused     == Binary /\ I.term.arg \in Arithmetic /\ Fusing /\ Compute

StoreCell ==
    /\ Running("store")
    /\ cells' = [cells EXCEPT ![I.into] = Eval(I.term, Null)]
    /\ pc' = pc + 1 /\ UNCHANGED <<regs, left, trace>> /\ Fixed

\* Operations on objects: OP_LEN and the array push, new objects and their
\* items, lookups and stores
Operate ==
    /\ Done(Eval(I.term, Null))
    /\ regs' = [r \in DOMAIN regs |->
                   IF r \in I.to .. I.to + I.n - 1
                   THEN Eval(I.into, Result(Len(trace) + 1, r - I.to + 1)) ELSE regs[r]]
    /\ pc' = pc + 1 /\ Stay /\ Fixed

CallBuiltin == Running("effect") /\ I.term.op = "call" /\ Operate
Construct == Running("effect") /\ I.term.op \in {"new", "add"} /\ Operate
GetItem   == Running("effect") /\ I.term.op = "get" /\ Operate
SetItem   == Running("effect") /\ I.term.op = "set" /\ Operate

\* A call: the registers above its results were those of the callee.
DoCall ==
    /\ Running("call") /\ Done(Eval(I.term, Null))
    /\ LET k == Len(trace) + 1
           sets == Eval(I.term.kids[1], Null) = Setter
       IN  regs' = [r \in DOMAIN regs |->
                      CASE r \in I.to .. I.to + I.n - 1 -> Result(k, r - I.to + 1)
                        [] r >= I.to + I.n -> Junk
                        [] sets /\ r \in I.shared /\ r < I.to -> Result(k, 9)
                        [] OTHER -> regs[r]]
    /\ pc' = pc + 1 /\ Stay /\ Fixed

UseAnswer == left' = IF left = <<>> THEN left ELSE Tail(left)
Leave(values) == pc' = 0 /\ Done(N("return", "", values))

\* A lookup that updates a register, or fails and returns
Lookup ==
    /\ Running("prop") /\ UseAnswer
    /\ LET k == Len(trace) + 1
           got == Append(trace, Eval(I.term, Null))
       IN  IF Answer(left)
           THEN /\ pc' = 0
                /\ regs' = [regs EXCEPT ![I.to] = Null, ![I.to + 1] = Result(k, 2)]
                /\ trace' = Append(got, N("return", "", <<Null, Result(k, 2)>>))
           ELSE /\ pc' = pc + 1 /\ trace' = got
                /\ regs' = [regs EXCEPT ![I.to] = Eval(I.into, Result(k, 1))]
    /\ UNCHANGED cells /\ Fixed

\* A test, with the jump after it
Decide ==
    LET v == Eval(I.term, Null)
        stays == Holds(left, v) = I.sense
    IN  /\ IF Decided(v) THEN UNCHANGED <<left, trace>> ELSE UseAnswer /\ Done(N("test", "", <<v>>))
        /\ pc' = IF stays THEN pc + 1 ELSE I.jump
        /\ regs' = IF stays \/ I.to = -1 THEN regs ELSE [regs EXCEPT ![I.to] = v]
        /\ UNCHANGED cells /\ Fixed

\* OP_TEST and OP_TESTSET, the comparisons with a number, and the fused ones
Test        == Running("test") /\ I.term.op # "bin" /\ Decide
CompareTest == Running("test") /\ I.term.op = "bin" /\ I.term.kids[1].op # "bin" /\ Decide
FusedTest   == Running("test") /\ I.term.op = "bin" /\ I.term.kids[1].op = "bin" /\ Decide

TestError ==
    /\ Running("testerr")
    /\ LET real == Eval(I.term, Null).op = "result"
       IN  /\ IF real THEN UseAnswer ELSE UNCHANGED left
           /\ pc' = IF real /\ Answer(left) THEN pc + 1 ELSE I.jump
    /\ UNCHANGED <<regs, cells, trace>> /\ Fixed

\* OP_FORLOOP counts, whether or not there is one more.
ForLoop ==
    /\ Running("forloop") /\ UseAnswer /\ Done(Eval(I.term, Null))
    /\ regs' = [regs EXCEPT ![I.to] = Result(Len(trace) + 1, 1)]
    /\ pc' = IF Answer(left) THEN pc + 1 ELSE I.jump
    /\ UNCHANGED cells /\ Fixed

\* OP_ITER_NEXT: a key and a value, of a dict, also if there is one variable
IterNext ==
    LET at == I.term.kids[2]
        k  == Len(trace) + 1
    IN  /\ Running("iternext") /\ UseAnswer /\ Done(Eval(I.term, Null))
        /\ IF Answer(left)
           THEN /\ pc' = pc + 1
                /\ regs' = [regs EXCEPT ![at.arg] = After(@), ![I.to] = Result(k, 1),
                                        ![I.to + 1] = Result(k, 2)]
           ELSE pc' = I.jump /\ UNCHANGED regs
        /\ UNCHANGED cells /\ Fixed

\* OP_ADDI_LOOP
AddLoop ==
    /\ Running("addloop")
    /\ regs' = [regs EXCEPT ![I.to] = Eval(I.term, Null)]
    /\ pc' = I.jump /\ UNCHANGED trace /\ Stay /\ Fixed

JumpTo == Running("jmp") /\ pc' = I.jump /\ UNCHANGED <<regs, trace>> /\ Stay /\ Fixed

DoReturn ==
    /\ Running("return")
    /\ Leave([i \in 1 .. I.n |-> regs[I.to + i - 1]])
    /\ UNCHANGED regs /\ Stay /\ Fixed

Step ==
    \/ Move \/ Unary \/ Compare \/ Combine \/ Immediate \/ Fused \/ StoreCell
    \/ CallBuiltin \/ Construct \/ GetItem \/ SetItem \/ DoCall \/ Lookup
    \/ Test \/ CompareTest \/ FusedTest \/ TestError \/ JumpTo \/ DoReturn
    \/ ForLoop \/ IterNext \/ AddLoop

-----------------------------------------------------------------------------
RECURSIVE Named(_)
Named(t) ==
    IF t.op = "reg" THEN {t.arg} ELSE UNION {Named(t.kids[i]) : i \in DOMAIN t.kids}

\* The registers an instruction names, or that hold its operands or results
Touched(i) ==
    Named(code[i].term) \cup Named(code[i].into) \cup (code[i].to .. code[i].to + code[i].n - 1)

\* Every instruction counts as one word here.
Width(i) == 1
Widths == [i \in DOMAIN code |-> Width(i)]
Follows(i) ==
    CASE code[i].op = "return" -> {}
      [] code[i].op \in {"jmp", "addloop"} -> {code[i].jump}
      [] code[i].op \in {"test", "testerr", "forloop", "iternext"} -> {i + 1, code[i].jump}
      [] OTHER -> {i + 1}

\* What the compiler emits is accepted when it is saved and loaded again: the
\* frame of max_reg registers has every register that an instruction names,
\* with all arguments and all results of a call, jumps go to instructions, and
\* control never runs past the end, in the code that is never run too.
Accepted ==
    code # <<>> /\ regs = <<>> =>
        /\ ValidControlFlow(Widths, [i \in DOMAIN code |-> Follows(i)])
        /\ \A i \in DOMAIN code : Touched(i) \subseteq 0 .. reg_count - 1

\* The code computes what the statements say: every call and store gets its
\* operands, in order, and the values returned are the ones named, whatever
\* registers the compiler chose and instructions it fused.
Faithful == IsPrefix(trace, expected) /\ (pc = 0 => trace = expected)
=============================================================================
