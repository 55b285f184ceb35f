------------------------------ MODULE Lowering ------------------------------
(***************************************************************************)
(* How the compiler turns structured statements into jumps                 *)
(* (src/src/compiler.c), and the run of that code by the interpreter       *)
(* (src/src/vm.c): scopes with deferred calls and captured variables,      *)
(* loops, break, continue, return, the ? operator and try/catch.           *)
(*                                                                         *)
(* A behaviour compiles one function body and runs it.  The answers of its *)
(* conditions and of its fallible calls are chosen in advance, so that     *)
(* Meaning, the direct reading of the statements, is the trace the code    *)
(* must produce.  A trace lists the calls and additions made.              *)
(*                                                                         *)
(* Statements are records with a field op:                                 *)
(*   call(tag), inc, let, struct(fields), defer(tag), fail, break,         *)
(*   continue, return, block(body), if(kind, then),                        *)
(*   ifelse(kind, then, else), loop(body), for(body), forin(body),         *)
(*   try(body, handler)                                                    *)
(* where kind is "test" or "cmp", let declares a variable and a function   *)
(* that captures it, and the fields of a struct are given by the opcodes   *)
(* that the numbers of their names happen to be.                           *)
(* fail is a call followed by ?.  A deferred call is not: on defer f()?    *)
(* emit_scope_exit_cleanup and compile_propagate_error call each other     *)
(* without end.                                                            *)
(***************************************************************************)
EXTENDS Validator, FiniteSets, SequencesExt

CONSTANTS
    Programs,       \* function bodies
    Answers,        \* sequences of answers for conditions and fallible calls
    Trips,          \* iterations of every for loop
    OperandRange,   \* values of a one-byte operand: 256
    MaxTrace        \* bound on the length of traces

ASSUME LoweringAssumption ==
    /\ Trips \in Nat /\ OperandRange \in Nat \ {0}
    /\ MaxTrace \in Nat
    /\ \A a \in Answers : a \in Seq(BOOLEAN)

\* current->scope_depth of no scope at all
Outside == -1
-----------------------------------------------------------------------------
(* The compiler.  Its state is the code so far, the jumps to patch and the *)
(* scope bookkeeping of struct Compiler; locals lists the depths of the    *)
(* captured locals, and the position in it stands for the register.        *)

Instr(op, tag, to) == [op |-> op, tag |-> tag, to |-> to]

NewCompiler ==
    [code |-> <<>>, breaks |-> {}, errors |-> {}, locals |-> <<>>,
     defers |-> <<>>, depth |-> 0, loopStart |-> 0, loopDepth |-> Outside,
     handlerDepth |-> Outside, hadError |-> FALSE]

Here(S)           == Len(S.code) + 1
Emit(S, op, tag)  == [S EXCEPT !.code = Append(@, Instr(op, tag, 0))]
EmitTo(S, op, to) == [S EXCEPT !.code = Append(@, Instr(op, "", to))]

\* patch_jump and its relatives: the jumps at these addresses come here.
Patch(S, at) ==
    [S EXCEPT !.code = [i \in DOMAIN @ |->
        IF i \in at THEN [@[i] EXCEPT !.to = Here(S)] ELSE @[i]]]

BeginScope(S) == [S EXCEPT !.depth = @ + 1]

\* The deferred calls of a list, last first.
Deferred(S, list) ==
    [S EXCEPT !.code = @ \o [i \in DOMAIN list |->
        Instr("call", Reverse(list)[i].tag, 0)]]

\* Mutant of CloseCaptured: captured variables are left to OP_RETURN.
CloseNothing(S, depth) == S

\* OP_CLOSE_UPVAL for the captured locals declared deeper than a scope,
\* innermost first
CloseCaptured(S, depth) ==
    LET first == Len(SelectSeq(S.locals, LAMBDA d : d <= depth)) + 1
        count == Len(S.locals) - first + 1
    IN  [S EXCEPT !.code = @ \o [i \in 1 .. count |->
            Instr("close", "", Len(S.locals) + 1 - i)]]

\* emit_scope_exit_cleanup: control leaves the scopes deeper than target.
ScopeExitCleanup(S, target) ==
    Deferred(CloseCaptured(S, target),
             SelectSeq(S.defers, LAMBDA d : d.depth > target))

\* Mutant of EndScope: the deferred calls of the scope stay listed.
EndScopeKeepingDefers(S) ==
    LET called == Deferred(CloseCaptured(S, S.depth),
                      SelectSeq(S.defers, LAMBDA d : d.depth = S.depth))
    IN  [called EXCEPT !.locals = SelectSeq(@, LAMBDA d : d <= S.depth - 1),
                       !.depth = @ - 1]

\* end_scope.  It closes the captured locals deeper than the scope itself.
EndScope(S) ==
    LET called == Deferred(CloseCaptured(S, S.depth),
                      SelectSeq(S.defers, LAMBDA d : d.depth = S.depth))
    IN  [called EXCEPT !.defers = SelectSeq(@, LAMBDA d : d.depth # S.depth),
                       !.locals = SelectSeq(@, LAMBDA d : d <= S.depth - 1),
                       !.depth = @ - 1]

\* compile_propagate_error, after a call that answered a value and an error
Propagate(S) ==
    LET test == Emit(S, "testerr", "")
        left == IF S.handlerDepth # Outside
                THEN LET clean == ScopeExitCleanup(test, S.handlerDepth)
                     IN  [EmitTo(clean, "jmp", 0) EXCEPT !.errors = @ \cup {Here(clean)}]
                ELSE Emit(ScopeExitCleanup(test, Outside), "return", "")
    IN  Patch(left, {Here(S)})

\* compile_condition_jump: a test that jumps by itself, or a comparison that
\* skips the jump after it
ConditionJump(S, kind) ==
    IF kind = "test" THEN EmitTo(S, "testjmp", 0)
    ELSE EmitTo(Emit(S, "cmp", ""), "jmp", 0)

\* The last instructions of compile_for_range.  Jumps to the end of the body
\* go straight to the loop instruction; an addition that ends the body is
\* fused with the jump back.
CloseRange(S) ==
    LET end   == Here(S)
        fused == /\ end > S.loopStart /\ Last(S.code).op = "addi"
                 /\ end - S.loopStart + 1 < OperandRange
        code  == [i \in DOMAIN S.code |->
            IF i >= S.loopStart /\ S.code[i].op = "jmp" /\ S.code[i].to = end
            THEN [S.code[i] EXCEPT !.to = S.loopStart] ELSE S.code[i]]
    IN  IF fused
        THEN [S EXCEPT !.code = [code EXCEPT ![end - 1] =
                                    Instr("addiloop", "", S.loopStart)]]
        ELSE EmitTo([S EXCEPT !.code = code], "loop", S.loopStart)

\* The jump distance of OP_ITER_NEXT is a one-byte operand.
PatchIterNext(S, at) ==
    [S EXCEPT !.code[at].to = (at + 1) + ((Here(S) - at - 1) % OperandRange)]

\* compile_loop, compile_for_range and compile_for_in save and restore this.
EnterLoop(S) ==
    [S EXCEPT !.loopStart = Here(S), !.loopDepth = S.depth, !.breaks = {}]
\* Mutant of LeaveLoop: break jumps are patched by the enclosing loop.
LeaveLoopUnpatched(S, outer) ==
    [S EXCEPT !.loopStart = outer.loopStart, !.loopDepth = outer.loopDepth,
              !.breaks = outer.breaks \cup S.breaks]
LeaveLoop(S, outer) ==
    [Patch(S, S.breaks) EXCEPT !.loopStart = outer.loopStart,
        !.loopDepth = outer.loopDepth, !.breaks = outer.breaks]

\* compile_try_block and compile_try_catch save and restore this.
EnterTry(S) == [S EXCEPT !.handlerDepth = S.depth, !.errors = {}]
LeaveTry(S, outer) ==
    [Patch(S, S.errors) EXCEPT !.handlerDepth = outer.handlerDepth,
                               !.errors = outer.errors]

RECURSIVE Compile(_, _), CompileBlock(_, _)

Scoped(S, body) == EndScope(CompileBlock(BeginScope(S), body))

CompileIf(S, st) ==
    LET cond == ConditionJump(S, st.kind)
        then == Scoped(cond, st.then)
    IN  IF st.op = "if" THEN Patch(then, {Len(cond.code)})
        ELSE LET skip == EmitTo(then, "jmp", 0)
             IN  Patch(Scoped(Patch(skip, {Len(cond.code)}), st.else), {Len(skip.code)})

CompileLoop(S, st) ==
    LET body == Scoped(EnterLoop(S), st.body)
    IN  LeaveLoop(EmitTo(body, "loop", body.loopStart), S)

\* Mutant of CompileFor: continue goes back to the loop's preparation.
CompileForFromPrep(S, st) ==
    LET prep == Emit(BeginScope(EnterLoop(S)), "forprep", "")
        head == EmitTo(prep, "forloop", 0)
        body == EndScope(CompileBlock(head, st.body))
    IN  LeaveLoop(Patch(CloseRange([body EXCEPT !.loopStart = Here(prep)]), {Len(head.code)}), S)

CompileFor(S, st) ==
    LET prep == Emit(BeginScope(EnterLoop(S)), "forprep", "")
        head == [EmitTo(prep, "forloop", 0) EXCEPT !.loopStart = Here(prep)]
        body == EndScope(CompileBlock(head, st.body))
    IN  LeaveLoop(Patch(CloseRange(body), {Len(head.code)}), S)

CompileForIn(S, st) ==
    LET prep == Emit(BeginScope(EnterLoop(S)), "iterprep", "")
        head == [EmitTo(prep, "iternext", 0) EXCEPT !.loopStart = Here(prep)]
        body == EndScope(CompileBlock(head, st.body))
    IN  LeaveLoop(PatchIterNext(EmitTo(body, "loop", body.loopStart), Len(head.code)), S)

CompileTry(S, st) ==
    LET body == Scoped(EnterTry(S), st.body)
        done == EmitTo(body, "jmp", 0)
    IN  Patch(Scoped(LeaveTry(done, S), st.handler), {Len(done.code)})

\* A function that captures the last local: one word of data for it
CompileClosure(S) == Emit(EmitTo(S, "closure", Len(S.locals)), "capture", "")

\* The number of fields, and a word for each
CompileStruct(S, st) ==
    LET head == EmitTo(Emit(S, "newstruct", ""), "count", Len(st.fields))
    IN  FoldLeft(LAMBDA T, byte : Emit(T, byte, ""), head, st.fields)

CompileJump(S, st) ==
    CASE st.op = "return"    -> Emit(ScopeExitCleanup(S, Outside), "return", "")
      [] S.loopDepth = Outside -> [S EXCEPT !.hadError = TRUE]
      [] st.op = "break"     ->
            LET clean == ScopeExitCleanup(S, S.loopDepth)
            IN  [EmitTo(clean, "jmp", 0) EXCEPT !.breaks = @ \cup {Here(clean)}]
      [] OTHER               ->
            EmitTo(ScopeExitCleanup(S, S.loopDepth), "loop", S.loopStart)

Compile(S, st) ==
    CASE st.op = "call"  -> Emit(S, "call", st.tag)
      [] st.op = "inc"   -> Emit(S, "addi", "")
      [] st.op = "let"   -> CompileClosure([S EXCEPT !.locals = Append(@, S.depth)])
      [] st.op = "struct" -> CompileStruct(S, st)
      [] st.op = "defer" -> [S EXCEPT !.defers = Append(@,
                                [tag |-> st.tag, depth |-> S.depth])]
      [] st.op = "fail"  -> Propagate(Emit(S, "call", "?"))
      [] st.op = "block" -> Scoped(S, st.body)
      [] st.op \in {"if", "ifelse"} -> CompileIf(S, st)
      [] st.op = "loop"  -> CompileLoop(S, st)
      [] st.op = "for"   -> CompileFor(S, st)
      [] st.op = "forin" -> CompileForIn(S, st)
      [] st.op = "try"   -> CompileTry(S, st)
      [] OTHER           -> CompileJump(S, st)

\* compile_block: nothing is compiled after a statement that never falls through
CompileBlock(S, body) ==
    IF body = <<>> \/ S.hadError THEN S
    ELSE LET one == Compile(S, Head(body))
         IN  IF Head(body).op \in {"return", "break", "continue"} THEN one
             ELSE CompileBlock(one, Tail(body))

\* compile_function: the body, its remaining deferred calls, return null
Compiled(body) ==
    LET S == CompileBlock(BeginScope(NewCompiler), body)
    IN  Emit(Deferred(S, S.defers), "return", "")
-----------------------------------------------------------------------------
(* What the statements say.  A run is the trace so far, the answers left   *)
(* and how the last statement ended; "stop" means out of answers.          *)

Ran(run, tag) == [run EXCEPT !.trace = Append(@, tag)]

Ask(run) == IF run.left = <<>> THEN [run EXCEPT !.end = "stop"]
            ELSE [run EXCEPT !.left = Tail(@)]
Answer(run) == run.left # <<>> /\ Head(run.left)

RECURSIVE Do(_, _), DoAll(_, _, _), Repeat(_, _, _)

\* The deferred calls run when the scope exits, however it exits.
DoAll(run, body, deferred) ==
    IF run.end = "stop" THEN run
    ELSE IF body = <<>> \/ run.end # "next"
    THEN [run EXCEPT !.trace = @ \o deferred]
    ELSE IF Head(body).op = "defer"
    THEN DoAll(run, Tail(body), <<Head(body).tag>> \o deferred)
    ELSE DoAll(Do(run, Head(body)), Tail(body), deferred)

Scope(run, body) == DoAll(run, body, <<>>)

Repeat(run, body, trips) ==
    IF trips = 0 \/ Len(run.trace) >= MaxTrace THEN run
    ELSE LET once == Scope(run, body)
         IN  CASE once.end = "break" -> [once EXCEPT !.end = "next"]
               [] once.end \in {"next", "continue"} ->
                    Repeat([once EXCEPT !.end = "next"], body, trips - 1)
               [] OTHER -> once

Do(run, st) ==
    CASE st.op = "call" -> Ran(run, st.tag)
      [] st.op = "inc"  -> Ran(run, "+")
      [] st.op \in {"let", "struct"} -> run
      [] st.op = "fail" ->
            LET asked == Ask(Ran(run, "?"))
            IN  IF Answer(run) THEN [asked EXCEPT !.end = "error"] ELSE asked
      [] st.op = "block" -> Scope(run, st.body)
      [] st.op \in {"if", "ifelse"} ->
            IF run.left = <<>> THEN Ask(run)
            ELSE IF Answer(run) THEN Scope(Ask(run), st.then)
            ELSE IF st.op = "ifelse" THEN Scope(Ask(run), st.else) ELSE Ask(run)
      [] st.op = "loop" -> Repeat(run, st.body, MaxTrace)
      [] st.op \in {"for", "forin"} -> Repeat(run, st.body, Trips)
      [] st.op = "try" ->
            LET tried == Scope(run, st.body)
            IN  IF tried.end = "error"
                THEN Scope([tried EXCEPT !.end = "next"], st.handler) ELSE tried
      [] OTHER -> [run EXCEPT !.end = st.op]

Meaning(body, answers) ==
    Scope([trace |-> <<>>, left |-> answers, end |-> "next"], body).trace
-----------------------------------------------------------------------------
(* The interpreter.                                                        *)

VARIABLES
    code,           \* function->chunk.code, empty when compilation failed
    expected,       \* the trace the statements mean
    ip,             \* the next instruction, 0 after the return
    left,           \* the answers not yet given
    trips,          \* the iterator register of the loop whose head is at an address
    open,           \* the registers with an open upvalue
    trace           \* the calls and additions made

vars == <<code, expected, ip, left, trips, open, trace>>

Running == ip # 0 /\ Len(trace) < MaxTrace
At(op)  == Running /\ code[ip].op = op
Next1   == ip' = ip + 1
Jump    == ip' = code[ip].to
Log(tag) == trace' = Append(trace, tag)

Init ==
    \E body \in Programs, answers \in Answers :
        LET S == Compiled(body) IN
        /\ code = IF S.hadError THEN <<>> ELSE S.code
        /\ expected = Meaning(body, answers)
        /\ ip = IF S.hadError THEN 0 ELSE 1
        /\ left = answers
        /\ trips = [i \in DOMAIN code |-> 0]
        /\ open = {} /\ trace = <<>>

Call == At("call") /\ Log(code[ip].tag) /\ Next1 /\ UNCHANGED <<left, trips, open>>
Addi == At("addi") /\ Log("+") /\ Next1 /\ UNCHANGED <<left, trips, open>>
AddiLoop == At("addiloop") /\ Log("+") /\ Jump /\ UNCHANGED <<left, trips, open>>

\* OP_JMP, OP_LOOP
Goto ==
    /\ At("jmp") \/ At("loop")
    /\ Jump /\ UNCHANGED <<left, trips, open, trace>>

\* OP_TESTJMP, the comparisons that skip a jump, OP_TESTERRJMP
Test ==
    /\ At("testjmp") \/ At("cmp") \/ At("testerr")
    /\ left # <<>> /\ left' = Tail(left)
    /\ CASE code[ip].op = "cmp" -> ip' = IF Head(left) THEN ip + 2 ELSE ip + 1
         [] OTHER               -> IF Head(left) THEN Next1 ELSE Jump
    /\ UNCHANGED <<trips, open, trace>>

\* OP_FORPREP and OP_ITER_PREP; the loop instruction follows
Prepare ==
    /\ At("forprep") \/ At("iterprep")
    /\ trips' = [trips EXCEPT ![ip + 1] = 0]
    /\ Next1 /\ UNCHANGED <<left, open, trace>>

\* OP_FORLOOP and OP_ITER_NEXT
Iterate ==
    /\ At("forloop") \/ At("iternext")
    /\ IF trips[ip] = Trips THEN Jump /\ UNCHANGED trips
       ELSE Next1 /\ trips' = [trips EXCEPT ![ip] = @ + 1]
    /\ UNCHANGED <<left, open, trace>>

\* The words of the instruction at i, those of its data included: the upvalues
\* of a closure, the fields of a struct and their number, the jump of a
\* comparison
Width(i) ==
    CASE code[i].op \in {"closure", "cmp"} -> 2
      [] code[i].op = "newstruct" -> 2 + (IF i = Len(code) THEN 0 ELSE code[i + 1].to)
      [] OTHER -> 1

\* OP_CLOSURE of a function that captures a local: capture_upvalue at its
\* register
Closure ==
    /\ At("closure")
    /\ open' = open \cup {code[ip].to}
    /\ ip' = ip + Width(ip) /\ UNCHANGED <<left, trips, trace>>

\* OP_NEWSTRUCT
NewStruct == At("newstruct") /\ ip' = ip + Width(ip) /\ UNCHANGED <<left, trips, open, trace>>

\* OP_CLOSE_UPVAL closes this register and those above it.
CloseUpval ==
    /\ At("close")
    /\ open' = {r \in open : r < code[ip].to}
    /\ Next1 /\ UNCHANGED <<left, trips, trace>>

Return ==
    /\ At("return")
    /\ ip' = 0 /\ open' = {}
    /\ UNCHANGED <<left, trips, trace>>

Step == \/ Call \/ Addi \/ AddiLoop \/ Goto \/ Test
        \/ Prepare \/ Iterate \/ Closure \/ NewStruct \/ CloseUpval \/ Return

Next == Step /\ UNCHANGED <<code, expected>>

Spec == Init /\ [][Next]_vars
FairSpec == Spec /\ WF_vars(Next)
-----------------------------------------------------------------------------
OutOfAnswers == left = <<>> /\ (At("testjmp") \/ At("cmp") \/ At("testerr"))
Halted == ~Running \/ OutOfAnswers

\* Every variable has its type.
TypeOK ==
    /\ ip \in 0 .. Len(code) /\ left \in Seq(BOOLEAN)
    /\ trips \in [DOMAIN code -> 0 .. Trips]
    /\ open \subseteq 1 .. Len(code)

Widths == [i \in DOMAIN code |-> Width(i)]
Follows(i) ==
    CASE code[i].op = "return" -> {}
      [] code[i].op \in {"jmp", "loop", "addiloop"} -> {code[i].to}
      [] code[i].op \in {"testjmp", "testerr", "forloop", "iternext"} -> {i + 1, code[i].to}
      [] code[i].op = "cmp" -> {i + 2, code[i + 1].to}
      [] OTHER -> {i + Width(i)}

\* What the compiler emits is accepted when it is saved and loaded again: its
\* instructions have their data, its jumps are patched and go to instructions,
\* backward ones backward, and control never runs past the end.
Accepted ==
    code # <<>> =>
        /\ ValidControlFlow(Widths, [i \in DOMAIN code |-> Follows(i)])
        /\ \A i \in Starts(Widths) :
              /\ code[i].op \notin {"capture", "count"}
              /\ code[i].op = "cmp" => code[i + 1].op = "jmp"
              /\ code[i].op \in {"loop", "addiloop"} => code[i].to \in 1 .. i

\* The code does what the statements say, in the order they say it: every
\* deferred call once, when its scope exits, however it exits; for loops run
\* to their bound; break, continue, ? and catch go where they should.
Faithful ==
    /\ IsPrefix(trace, expected)
    /\ Halted /\ code # <<>> =>
         trace = SubSeq(expected, 1, IF Len(expected) < MaxTrace THEN Len(expected) ELSE MaxTrace)

\* A captured variable is new each time its declaration runs: whatever had its
\* register before, in an earlier iteration or another scope, has been closed
\* (the comments at compiler.c:329 and 2896 promise it at every scope exit).
FreshVariables == At("closure") => \A r \in open : r < code[ip].to

\* Whatever the statements, the run comes to an end or asks for an answer.
Finishes == <>Halted
=============================================================================
