----------------------------- MODULE Expressions ----------------------------
(***************************************************************************)
(* How the compiler evaluates expressions in registers                     *)
(* (src/src/compiler.c): temporaries and locals share one register file,   *)
(* calls pass their arguments and results in it, and many shapes of        *)
(* expression have instructions of their own.                              *)
(***************************************************************************)
EXTENDS Statements

CONSTANT MaxRegisters    \* MAX_REGISTERS: 256

ASSUME ExpressionsAssumption == MaxRegisters \in Nat \ {0}

\* Operands of instructions: a register, and what the instruction obtained
Reg(r) == N("reg", r, <<>>)
It     == N("it", "", <<>>)

Simple(e)   == e.op \in {"num", "str", "const", "id", "@"}
-----------------------------------------------------------------------------
(* The optimizer (optimize_ast) computes what it can of an expression, in  *)
(* the parts of a statement that it looks into.  It divides by no zero.    *)

RECURSIVE Folded(_)
FoldedAll(es) == [i \in DOMAIN es |-> Folded(es[i])]

FoldBinary(e) ==
    LET l == e.kids[1]
        r == e.kids[2]
    IN  IF \/ IsNum(l) /\ IsNum(r) /\ ~(e.arg \in {"/", "%"} /\ r = Num("0"))
           \/ l.op = "str" /\ r.op = "str" /\ e.arg = "+"
        THEN Canon(e) ELSE e

\* true and e is e, and true or e is true.
FoldLogical(e) ==
    IF ~IsBool(e.kids[1]) THEN e
    ELSE IF (e.kids[1] = Bool(TRUE)) = (e.arg = "and") THEN e.kids[2] ELSE e.kids[1]

\* fold_node
Folded(e) ==
    LET kids == [e EXCEPT !.kids = FoldedAll(@)]
    IN  CASE e.op \in {"neg", "not"} -> Canon(kids)
          [] e.op = "bin"   -> FoldBinary(kids)
          [] e.op = "logic" -> FoldLogical(kids)
          [] e.op \in {"call", "try", "tryblock", "array"} -> kids
          [] e.op = "expr"  -> [e EXCEPT !.e = Folded(@)]
          [] e.op \in {"let", "global"} -> [e EXCEPT !.init = Folded(@)]
          [] e.op = "assign" /\ e.target.op # "field" -> [e EXCEPT !.value = Folded(@)]
          [] e.op = "compound" /\ e.target.op # "field" -> [e EXCEPT !.value = Folded(@)]
          [] e.op = "return" -> [e EXCEPT !.values = FoldedAll(@)]
          [] e.op = "if"    -> [e EXCEPT !.cond = Folded(@), !.then = FoldedAll(@), !.else = FoldedAll(@)]
          [] e.op = "catch" -> [e EXCEPT !.body = FoldedAll(@), !.handler = FoldedAll(@)]
          [] e.op = "loop"  -> [e EXCEPT !.body = FoldedAll(@)]
          [] e.op = "for range" -> [e EXCEPT !.over.kids = FoldedAll(@), !.body = FoldedAll(@)]
          [] e.op = "for in" -> [e EXCEPT !.over = Folded(@), !.body = FoldedAll(@)]
          [] OTHER -> e
-----------------------------------------------------------------------------
(* The compiler.  Its state is the code so far and the registers and       *)
(* scopes of struct Compiler.  res is the register of the node compiled    *)
(* last, regs those of the operands compiled last.  A script begins with   *)
(* the functions it may inline declared in its first registers.            *)

Local(name, reg, depth) == [name |-> name, reg |-> reg, depth |-> depth]

NewCompiler(script) ==
    LET names == IF script THEN Inlined ELSE <<"">> \o Params
    IN  [code |-> <<>>, script |-> script, hadError |-> FALSE,
         locals |-> [i \in DOMAIN names |->
                        Local(names[i], i - 1, IF script \/ i = 1 THEN 0 ELSE 1)],
         next |-> Len(names), max |-> Len(names), depth |-> IF script THEN 0 ELSE 1,
         handler |-> -1, handlerDepth |-> -1, errors |-> {}, defers |-> <<>>,
         loopStart |-> 0, loopDepth |-> -1, breaks |-> {},
         res |-> -1, regs |-> <<>>]

Blank == [op |-> "", to |-> -1, n |-> 0, term |-> Null, into |-> It,
          sense |-> TRUE, jump |-> 0, shared |-> {}]

Here(S)    == Len(S.code) + 1
Emit(S, i) == [S EXCEPT !.code = Append(@, i)]
Jump(S)    == Emit(S, [Blank EXCEPT !.op = "jmp"])
Patch(S, at) ==
    [S EXCEPT !.code = [i \in DOMAIN @ |->
        IF i \in at THEN [@[i] EXCEPT !.jump = Here(S)] ELSE @[i]]]

\* An instruction that computes term into a register: moves, loads,
\* arithmetic and comparisons in all their shapes
Put(S, to, term) == Emit(S, [Blank EXCEPT !.op = "put", !.to = to, !.n = 1, !.term = term])

\* OP_SETGLOBAL, OP_SETUPVAL, OP_ADDUP
Store(S, cell, term) == Emit(S, [Blank EXCEPT !.op = "store", !.into = cell, !.term = term])

\* An instruction that appears in the trace and leaves n values from register to
Effect(S, to, n, term) ==
    Emit(S, [Blank EXCEPT !.op = "effect", !.to = to, !.n = n, !.term = term])

Tested(S, to, term, sense) ==
    Emit(S, [Blank EXCEPT !.op = "test", !.to = to, !.n = IF to = -1 THEN 0 ELSE 1,
                          !.term = term, !.sense = sense])

Returned(S, first, n) == Emit(S, [Blank EXCEPT !.op = "return", !.to = first, !.n = n])

\* alloc_reg, n times.  A function that needs more registers is refused.
Alloc(S, n) ==
    LET top == S.next + n
    IN  [S EXCEPT !.res = S.next, !.next = top, !.max = IF top > @ THEN top ELSE @,
                  !.hadError = @ \/ top > MaxRegisters]

IsTemp(S, r) == \A i \in DOMAIN S.locals : S.locals[i].reg # r

FreeTemp(S, r) ==
    IF r = S.next - 1 /\ IsTemp(S, r) THEN [S EXCEPT !.next = @ - 1] ELSE S
Free(S, regs) == FoldLeft(FreeTemp, S, Reverse(regs))

\* Mutant of ReserveReg: the frame is not made to hold the register.
ReserveNone(S, r) == S
ReserveReg(S, r) ==
    [S EXCEPT !.max = IF r + 1 > @ THEN r + 1 ELSE @, !.hadError = @ \/ r >= MaxRegisters]

AddLocals(S, names, first) ==
    [S EXCEPT !.locals = @ \o [i \in DOMAIN names |-> Local(names[i], first + i - 1, S.depth)]]

\* resolve_local: the innermost local of the name, or -1
LocalReg(S, name) ==
    LET i == SelectLastInSeq(S.locals, LAMBDA l : l.name = name)
    IN  IF i = 0 THEN -1 ELSE S.locals[i].reg

Captures(S, name) == ~S.script /\ name \in Upvalues
InChain(S, name)  == LocalReg(S, name) # -1 \/ Captures(S, name)
Known(S, name)    == InChain(S, name) \/ name \in Globals

\* The cell of a variable that is no local
CellOf(S, name) == N(IF Captures(S, name) THEN "up" ELSE "global", name, <<>>)

Terms(regs) == [i \in DOMAIN regs |-> Reg(regs[i])]
From(first, n) == [i \in 1 .. n |-> Reg(first + i - 1)]

Call(S, base, n, callee, args) ==
    Emit(S, [Blank EXCEPT !.op = "call", !.to = base, !.n = n,
        !.term = N("call", "", <<callee>> \o args),
        !.shared = {LocalReg(S, name) : name \in Shared} \ {-1}])

\* compile_simple_into
Into(S, e, to) ==
    IF e.op = "@" THEN Put(S, to, N("global", e.arg, <<>>))
    ELSE IF e.op # "id" THEN Put(S, to, e)
    ELSE IF LocalReg(S, e.arg) = to THEN S
    ELSE IF LocalReg(S, e.arg) # -1 THEN Put(S, to, Reg(LocalReg(S, e.arg)))
    ELSE [Put(S, to, CellOf(S, e.arg)) EXCEPT !.hadError = @ \/ ~Known(S, e.arg)]

\* compile_number, compile_string, compile_bool, compile_null, compile_identifier
Load(S, e) ==
    IF e.op = "id" /\ LocalReg(S, e.arg) # -1 THEN [S EXCEPT !.res = LocalReg(S, e.arg)]
    ELSE LET D == Alloc(S, 1) IN Into(D, e, D.res)

\* The moves of a call's callee and arguments to the registers from first
Moves(S, regs, first) ==
    FoldLeftDomain(LAMBDA T, i : IF regs[i] = first + i - 1 THEN T
                                 ELSE Put(T, first + i - 1, Reg(regs[i])), S, regs)

\* expr_references_name and call_arg_is_safe
RECURSIVE References(_, _), Safe(_)
References(e, name) ==
    \/ e.op = "id" /\ e.arg = name
    \/ /\ e.op \in {"neg", "not", "bin", "logic", "index", "try", "field"}
       /\ \E i \in DOMAIN e.kids : References(e.kids[i], name)
Safe(e) ==
    \/ Simple(e)
    \/ /\ e.op \in {"neg", "not", "bin", "logic", "index", "field"}
       /\ \A i \in DOMAIN e.kids : Safe(e.kids[i])

BuiltinCall(name, regs) == N("call", "", <<N("global", name, <<>>)>> \o Terms(regs))

\* A call of a built-in function that no variable of the program hides
Builtin(S, e, name, count) ==
    /\ e.op = "call" /\ e.kids[1] = Id(name) /\ Len(e.kids) = count + 1
    /\ ~InChain(S, name)

\* A lookup of a constant key followed by ?
FallibleField(e) == e.op = "try" /\ e.kids[1].op = "index" /\ e.kids[1].kids[2].op = "str"

\* find_inline_candidate
InlineCandidate(S, e) ==
    /\ S.script /\ e.kids[1].op = "id" /\ e.kids[1].arg \in DOMAIN Inline
    /\ LocalReg(S, e.kids[1].arg) < Len(Inlined)
    /\ Len(e.kids) - 1 = Len(Inline[e.kids[1].arg].params)
-----------------------------------------------------------------------------
(* Expressions: CompileNode leaves the value in register res.  It compiles *)
(* statements too.                                                         *)

RECURSIVE CompileNode(_, _)

\* compile_block stops after a statement that does not end normally.
CompileBlock(S, body) ==
    LET end == SelectInSeq(body, LAMBDA s : s.op \in {"return", "break", "continue"})
    IN  FoldLeft(CompileNode, S, IF end = 0 THEN body ELSE SubSeq(body, 1, end))

\* compile_node on each node in turn
RECURSIVE Operands(_, _)
Operands(S, nodes) ==
    IF nodes = <<>> THEN [S EXCEPT !.regs = <<>>]
    ELSE LET T == Operands(S, Front(nodes))
             U == CompileNode(T, Last(nodes))
         IN  [U EXCEPT !.regs = Append(T.regs, U.res)]

\* Operands, then a new register for the result
Allotted(S, nodes, n) == Alloc(Operands(S, nodes), n)

CompileUnary(S, e) ==
    LET D == Allotted(S, e.kids, 1)
    IN  Free(Put(D, D.res, N(e.op, "", Terms(D.regs))), D.regs)

\* The right operand and the operation: an immediate or a constant of the
\* instruction, or a register
RightOperand(S, e, left, to, immediate) ==
    IF immediate THEN FreeTemp(Put(S, to, Bin(e.arg, Reg(left), e.kids[2])), left)
    ELSE LET R == CompileNode(S, e.kids[2])
         IN  Free(Put(R, to, Bin(e.arg, Reg(left), Reg(R.res))), <<left, R.res>>)

SmallLeft(e) == IsSmall(e.kids[1]) /\ e.arg \in {"+", "*"}

CompileBinary(S, e) ==
    LET l == e.kids[1]
        r == e.kids[2]
    IN  IF IsNum(l) /\ IsNum(r) /\ e.arg \in Arithmetic
        THEN LET D == Alloc(S, 1) IN Put(D, D.res, e)
        ELSE IF SmallLeft(e)
        THEN LET D == Allotted(S, <<r>>, 1)
             IN  Free(Put(D, D.res, Bin(e.arg, Reg(D.regs[1]), l)), D.regs)
        ELSE LET D == Allotted(S, <<l>>, 1)
             IN  [RightOperand(D, e, D.regs[1], D.res,
                     IsSmall(r) \/ (IsNum(r) /\ e.arg \in Arithmetic)) EXCEPT !.res = D.res]

\* (a - b) + c, (a + b) - c, (a * b) + c and (a * b) - c are one instruction
Fusable(S, e) ==
    /\ S.handler = -1 /\ e.kids[1].op = "bin"
    /\ <<e.arg, e.kids[1].arg>> \in
           {<<"+", "-">>, <<"-", "+">>, <<"+", "*">>, <<"-", "*">>}

CompileBinaryInto(S, e, to) ==
    LET l == e.kids[1]
        r == e.kids[2]
    IN  IF SmallLeft(e)
        THEN LET R == Operands(S, <<r>>)
             IN  Free(Put(R, to, Bin(e.arg, Reg(R.res), l)), R.regs)
        ELSE IF Fusable(S, e)
        THEN LET T == Operands(S, Append(l.kids, r))
                 t == Terms(T.regs)
             IN  Free(Put(T, to, Bin(e.arg, Bin(l.arg, t[1], t[2]), t[3])), T.regs)
        ELSE LET L == CompileNode(S, l)
             IN  RightOperand(L, e, L.res, to, IsNum(r) /\ e.arg \in Arithmetic)

\* compile_node_into_reg, for the nodes it accepts
CanInto(e) == Simple(e) \/ e.op \in {"neg", "not", "bin"}
NodeInto(S, e, to) ==
    CASE Simple(e)    -> Into(S, e, to)
      [] e.op = "bin" -> CompileBinaryInto(S, e, to)
      [] OTHER        -> LET T == Operands(S, e.kids)
                         IN  Free(Put(T, to, N(e.op, "", Terms(T.regs))), T.regs)

\* compile_logical.  OP_TESTSET and its jump: the left value may be the result.
CompileLogical(S, e) ==
    LET D    == Allotted(S, <<e.kids[1]>>, 1)
        test == Tested(D, D.res, Reg(D.regs[1]), e.arg = "and")
        R    == CompileNode(test, e.kids[2])
    IN  [Patch(Put(R, D.res, Reg(R.res)), {Len(test.code)}) EXCEPT !.res = D.res]

\* compile_condition_jump: the test, with its jump still to patch
ConditionJump(S, e) ==
    LET Test(nodes, Term(_)) ==
            LET T == Operands(S, nodes)
            IN  Free(Tested(T, -1, Term(Terms(T.regs)), TRUE), T.regs)
        l == e.kids[1]
        r == e.kids[2]
        comparison == e.op = "bin" /\ e.arg \notin Arithmetic /\ IsSmall(r)
    IN  IF /\ comparison /\ e.arg \in {"==", "!="}
           /\ l.op = "bin" /\ l.arg = "%" /\ IsSmall(l.kids[2])
        THEN Test(<<l.kids[1]>>, LAMBDA t : Bin(e.arg, Bin("%", t[1], l.kids[2]), r))
        ELSE IF /\ comparison /\ e.arg \in {">", ">="} /\ S.handler = -1
                /\ l.op = "bin" /\ l.arg \in {"+", "-"}
        THEN Test(l.kids, LAMBDA t : Bin(e.arg, Bin(l.arg, t[1], t[2]), r))
        ELSE IF comparison THEN Test(<<l>>, LAMBDA t : Bin(e.arg, t[1], r))
        ELSE Test(<<e>>, LAMBDA t : t[1])

\* compile_inline_call: the arguments' registers are the parameters.
InlineCall(S, e) ==
    LET f == Inline[e.kids[1].arg]
        T == Operands(S, Tail(e.kids))
        P == [T EXCEPT !.locals = @ \o [i \in DOMAIN f.params |->
                                           Local(f.params[i], T.regs[i], S.depth)]]
    IN  [CompileNode(P, f.expr) EXCEPT !.locals = T.locals]

\* The arguments of compile_call: simple ones go to their place at once.
RECURSIVE ArgumentsInto(_, _, _)
ArgumentsInto(S, args, first) ==
    IF args = <<>> THEN [S EXCEPT !.regs = <<>>]
    ELSE LET T  == ArgumentsInto(S, Front(args), first)
             to == first + Len(args) - 1
             U  == IF Simple(Last(args)) THEN [Into(T, Last(args), to) EXCEPT !.res = to]
                   ELSE CompileNode(T, Last(args))
         IN  [U EXCEPT !.regs = Append(T.regs, U.res)]

\* Mutant of DirectLocal: the callee stays in its register whatever the
\* arguments do.
DirectAlways(S, e) == IF e.kids[1].op = "id" THEN LocalReg(S, e.kids[1].arg) ELSE -1
DirectLocal(S, e) ==
    IF e.kids[1].op = "id" /\ \A i \in 2 .. Len(e.kids) : Safe(e.kids[i])
    THEN LocalReg(S, e.kids[1].arg) ELSE -1

\* The rest of compile_call: OP_CALLSELF, OP_CALLR, OP_CALLG, OP_MCALLFIELD
\* and OP_CALL.  The callee's and the arguments' registers come first.
GeneralCall(S, e) ==
    LET callee == e.kids[1]
        method == callee.op = "field"
        plain  == callee.op = "id"
        self   == plain /\ ~S.script /\ callee.arg = "me" /\ LocalReg(S, "me") = -1
        direct == IF self THEN -1 ELSE DirectLocal(S, e)
        global == /\ plain /\ ~self /\ direct = -1
                  /\ ~InChain(S, callee.arg) /\ callee.arg \in Globals
        total  == Len(e.kids) - 1 + (IF method THEN 1 ELSE 0)
        B      == Alloc(S, total + 1)
        base   == B.res
        C      == CASE self \/ direct # -1 \/ global -> B
                    [] method         -> CompileNode(B, callee.kids[1])
                    [] Simple(callee) -> [Into(B, callee, base) EXCEPT !.res = base]
                    [] OTHER          -> CompileNode(B, callee)
        A      == ArgumentsInto(C, Tail(e.kids), IF method THEN base + 2 ELSE base + 1)
        M      == Moves([A EXCEPT !.next = B.next],
                        (IF method THEN <<base, C.res>> ELSE <<C.res>>) \o A.regs, base)
        fn     == CASE self \/ global -> CellOf(S, callee.arg)
                    [] direct # -1    -> Reg(direct)
                    [] method         -> Method(Reg(base + 1), callee.arg)
                    [] OTHER          -> Reg(base)
    IN  [Call(M, base, 1, fn, From(base + 1, total)) EXCEPT !.res = base]

\* compile_call
CompileCall(S, e) ==
    IF Builtin(S, e, "len", 1)
    THEN LET D == Allotted(S, Tail(e.kids), 1)
         IN  Free(Effect(D, D.res, 1, BuiltinCall("len", D.regs)), D.regs)
    ELSE IF Builtin(S, e, "push", 2)
    THEN LET T == Operands(S, Tail(e.kids))
             D == Alloc(Free(Effect(T, -1, 0, BuiltinCall("push", T.regs)), T.regs), 1)
         IN  Put(D, D.res, Null)
    ELSE IF InlineCandidate(S, e) THEN InlineCall(S, e)
    ELSE GeneralCall(S, e)

\* compile_call_with_expected, for n results
CallExpected(S, e, n) ==
    IF Builtin(S, e, "push", 2)
    THEN LET T == Operands(S, Tail(e.kids))
             D == Alloc(Free(Effect(T, -1, 0, BuiltinCall("push", T.regs)), T.regs), n)
         IN  FoldLeft(LAMBDA U, i : Put(U, D.res + i - 1, Null), D, [i \in 1 .. n |-> i])
    ELSE
    LET callee == e.kids[1]
        method == callee.op = "field"
        late   == method /\ n = 0
        O      == CompileNode(S, IF method THEN callee.kids[1] ELSE callee)
        D      == Alloc(O, 1)
        F      == IF method /\ ~late THEN Put(D, D.res, Method(Reg(O.res), callee.arg)) ELSE O
        A      == Operands(F, Tail(e.kids))
        total  == Len(e.kids) - 1 + (IF method THEN 1 ELSE 0)
        B      == Alloc(A, 1 + IF total > n - 1 THEN total ELSE n - 1)
        base   == B.res
        M      == Moves(B, <<IF late THEN base ELSE F.res>>
                           \o (IF method THEN <<O.res>> ELSE <<>>) \o A.regs, base)
        fn     == IF late THEN Method(Reg(base + 1), callee.arg) ELSE Reg(base)
    IN  [Call(M, base, n, fn, From(base + 1, total)) EXCEPT !.res = base]
-----------------------------------------------------------------------------
(* Leaving scopes, and lookups and calls followed by ?                     *)

\* The deferred calls chosen, last first.  Captured variables, which are
\* closed first, are left to the module Lowering.
Deferred(S, Chosen(_)) ==
    [FoldLeft(LAMBDA T, d : CompileNode(T, d.call), S, Reverse(SelectSeq(S.defers, Chosen)))
        EXCEPT !.next = S.next]

\* emit_scope_exit_cleanup
ScopeExit(S, target) == Deferred(S, LAMBDA d : d.depth > target)

BeginScope(S) == [S EXCEPT !.depth = @ + 1]

\* end_scope gives back the registers of its locals, the last local first.
EndScope(S) ==
    LET called == Deferred(S, LAMBDA d : d.depth = S.depth)
        gone   == SelectSeq(S.locals, LAMBDA l : l.depth >= S.depth)
        Drop(T, l) == IF l.reg = T.next - 1 THEN [T EXCEPT !.next = @ - 1] ELSE T
    IN  [FoldLeft(Drop, called, Reverse(gone)) EXCEPT
            !.defers = SelectSeq(@, LAMBDA d : d.depth # S.depth),
            !.locals = SelectSeq(@, LAMBDA l : l.depth < S.depth), !.depth = @ - 1]

Scoped(S, body) == EndScope(CompileBlock(BeginScope(S), body))

\* compile_propagate_error
Propagate(S, err) ==
    LET test  == Emit(S, [Blank EXCEPT !.op = "testerr", !.term = Reg(err)])
        clean == ScopeExit(test, S.handlerDepth)
        moved == Put(clean, S.handler, Reg(err))
        pair  == Alloc(test, 2)
        null  == Put(Put(pair, pair.res, Null), pair.res + 1, Reg(err))
        left  == IF S.handler # -1
                 THEN [Jump(moved) EXCEPT !.errors = @ \cup {Here(moved)}]
                 ELSE Returned(ScopeExit(null, -1), pair.res, 2)
    IN  [Patch(left, {Here(S)}) EXCEPT !.next = S.next]

Get(S, to, n, obj, key) == Effect(S, to, n, N("get", "", <<Reg(obj), key>>))
Set(S, obj, key, val)   == Effect(S, -1, 0, N("set", "", <<Reg(obj), key, val>>))

\* compile_index_op, for a result or for a result and an error
Index(S, e, n) ==
    LET o == e.kids[1]
        k == e.kids[2]
        D == Allotted(S, IF k.op = "str" THEN <<o>> ELSE <<o, k>>, n)
    IN  Free(Get(D, D.res, n, D.regs[1], IF k.op = "str" THEN k ELSE Reg(D.regs[2])), D.regs)

\* OP_GETFIELD_PROP and its relatives: a lookup that returns from the
\* function when it fails
Prop(S, obj, key, to, into) ==
    Emit(S, [Blank EXCEPT !.op = "prop", !.to = to, !.n = 2, !.into = into,
                          !.term = N("get", "", <<Reg(obj), key>>)])

\* compile_try and compile_propagating_field_lookup
CompileTry(S, e) ==
    LET inner == e.kids[1]
        direct == FallibleField(e) /\ S.handler = -1 /\ S.defers = <<>>
        D == Allotted(S, <<inner.kids[1]>>, 2)
        V == IF inner.op = "index" THEN Index(S, inner, 2) ELSE CallExpected(S, inner, 2)
    IN  IF direct
        THEN Free(Prop(D, D.regs[1], inner.kids[2], D.res, It), <<D.regs[1], D.res + 1>>)
        ELSE [FreeTemp(Propagate(V, V.res + 1), V.res + 1) EXCEPT !.res = V.res]

\* compile_field_get
FieldGet(S, e) ==
    LET D == Allotted(S, e.kids, 1)
    IN  Get(D, D.res, 1, D.regs[1], Str(e.arg))

\* compile_array_literal and compile_dict_literal: the items or pairs are
\* stored as soon as each is computed.
Literal(S, e) ==
    LET D == Alloc(S, 1)
        Item(T, item) ==
            LET V == Operands(T, IF item.op = "pair" THEN item.kids ELSE <<item>>)
            IN  Free(Effect(V, -1, 0, N("add", "", <<Reg(D.res)>> \o Terms(V.regs))), V.regs)
    IN  [FoldLeft(Item, Effect(D, D.res, 1, N("new", e.op, <<>>)), e.kids) EXCEPT !.res = D.res]

\* compile_struct_literal: the struct is called and its fields set.
StructLiteral(S, e) ==
    LET B == Alloc(S, 1)
        I == Alloc(Into(B, Id(e.arg), B.res), 1)
        C == Call(Put(I, I.res, Reg(B.res)), I.res, 1, Reg(I.res), <<>>)
        Field(T, pair) ==
            LET V == CompileNode(T, pair.kids[2])
            IN  FreeTemp(Set(V, I.res, pair.kids[1], Reg(V.res)), V.res)
    IN  [FoldLeft(Field, C, e.kids) EXCEPT !.res = I.res]

\* compile_block_to_value.  An assignment is no expression: the default case
\* of compile_node allocates a register and emits nothing.
BlockToValue(S, body, to) ==
    LET T    == FoldLeft(CompileNode, S, Front(body))
        last == Last(body)
        V    == IF last.op = "expr" THEN CompileNode(T, last.e) ELSE Alloc(T, 1)
    IN  IF body = <<>> THEN Put(S, to, Null)
        ELSE IF last.op \notin {"expr", "assign", "compound"}
        THEN Put(CompileNode(T, last), to, Null)
        ELSE IF V.res = to THEN V ELSE Put(V, to, Reg(V.res))

EnterTry(S, err) == [S EXCEPT !.handler = err, !.handlerDepth = S.depth, !.errors = {}]
LeaveTry(S, outer) ==
    [Patch(S, S.errors) EXCEPT !.handler = outer.handler,
        !.handlerDepth = outer.handlerDepth, !.errors = outer.errors]

\* compile_try_block: the value in one register, the error in the next
TryBlock(S, e) ==
    LET D    == Alloc(S, 2)
        to   == D.res
        I    == EnterTry(Put(Put(D, to, Null), to + 1, Null), to + 1)
        B    == Put(EndScope(BlockToValue(BeginScope(I), e.kids, to)), to + 1, Null)
        F    == Put(LeaveTry(Jump(B), S), to, Null)
    IN  [Patch(F, {Here(B)}) EXCEPT !.res = to]
-----------------------------------------------------------------------------
(* Assignments.  x = x + a - b updates the register of x term by term.     *)

LenCall(S, e) == Builtin(S, e, "len", 1)

\* local_update_rhs_is_safe
RhsSafe(S, e, name) ==
    /\ ~References(e, name)
    /\ \/ Safe(e)
       \/ /\ LenCall(S, e) /\ Safe(e.kids[2])
          /\ ~References(e.kids[2], name)
       \/ FallibleField(e) /\ S.handler = -1 /\ Safe(e.kids[1].kids[1])

\* compile_local_update_chain, the dry run
RECURSIVE IsChain(_, _, _), HasFused(_, _), Chain(_, _, _, _)
IsChain(S, e, name) ==
    \/ e = Id(name)
    \/ /\ e.op = "bin" /\ e.arg \in {"+", "-"}
       /\ IsChain(S, e.kids[1], name) /\ RhsSafe(S, e.kids[2], name)

\* A product or quotient by a number: local_update_term_can_fuse
FusedTerm(e) ==
    /\ e.op = "bin" /\ IsNum(e.kids[2])
    /\ e.arg = "*" \/ (e.arg \in {"/", "%"} /\ IsSmall(e.kids[2]))
HasFused(e, name) ==
    /\ e.op = "bin" /\ e.arg \in {"+", "-"}
    /\ HasFused(e.kids[1], name) \/ FusedTerm(e.kids[2])

\* compile_local_update_fused_term, or OP_ADDLOCAL and OP_SUBLOCAL
Term(S, op, e, to) ==
    LET Updated(x) == Bin(op, Reg(to), x)
        V == CompileNode(S, CASE LenCall(S, e)   -> e.kids[2]
                              [] FallibleField(e) -> e.kids[1].kids[1]
                              [] FusedTerm(e)     -> e.kids[1]
                              [] OTHER            -> e)
        len == [Blank EXCEPT !.op = "effect", !.to = to, !.n = 1, !.into = Updated(It),
                             !.term = BuiltinCall("len", <<V.res>>)]
        G == CompileNode(S, e)
    IN  CASE IsNum(e) -> Put(S, to, Updated(e))
          [] LenCall(S, e) /\ S.handler = -1 -> FreeTemp(Emit(V, len), V.res)
          [] FallibleField(e) ->
                FreeTemp(Prop(ReserveReg(V, to + 1), V.res, e.kids[1].kids[2], to, Updated(It)),
                         V.res)
          [] FusedTerm(e) ->
                FreeTemp(Put(V, to, Updated(Bin(e.arg, Reg(V.res), e.kids[2]))), V.res)
          [] OTHER -> FreeTemp(Put(G, to, Updated(Reg(G.res))), G.res)

Chain(S, e, name, to) ==
    IF e = Id(name) THEN S
    ELSE Term(Chain(S, e.kids[1], name, to), e.arg, e.kids[2], to)

\* compile_assign, the last part: the value is computed first, but that of a
\* field, in compile_field_set, after the object.
AssignValue(S, target, e) ==
    LET V == CompileNode(S, e)
        T == Operands(V, target.kids)
        F == Operands(S, <<target.kids[1], e>>)
        name == target.arg
    IN  IF target.op = "field" THEN Set(F, F.regs[1], Str(name), Reg(F.regs[2]))
        ELSE IF target.op = "index" THEN Set(T, T.regs[1], Reg(T.regs[2]), Reg(V.res))
        ELSE IF target.op = "@" THEN Store(V, N("global", name, <<>>), Reg(V.res))
        ELSE IF LocalReg(S, name) # -1 THEN Put(V, LocalReg(S, name), Reg(V.res))
        ELSE [Store(V, CellOf(S, name), Reg(V.res)) EXCEPT !.hadError = @ \/ ~Known(S, name)]

\* compile_assign: locals in place, globals with a fused term, captured
\* variables with OP_ADDUP
Assign(S, target, e) ==
    LET name  == target.arg
        local == IF target.op = "id" THEN LocalReg(S, name) ELSE -1
        acc   == Alloc(S, 1)
        cell  == N("global", name, <<>>)
        total == Chain(Put(acc, acc.res, cell), e, name, acc.res)
        up    == CellOf(S, name)
    IN  IF local # -1 /\ IsChain(S, e, name) THEN Chain(S, e, name, local)
        ELSE IF local # -1 /\ CanInto(e) THEN NodeInto(S, e, local)
        ELSE IF /\ target.op = "@" \/ (target.op = "id" /\ name \in Globals)
                /\ IsChain(S, e, name) /\ HasFused(e, name)
        THEN FreeTemp(Store(total, cell, Reg(acc.res)), acc.res)
        ELSE IF /\ target.op = "id" /\ local = -1 /\ Captures(S, name)
                /\ e.op = "bin" /\ e.arg = "+" /\ e.kids[1] = Id(name) /\ Safe(e.kids[2])
        THEN LET V == CompileNode(S, e.kids[2])
             IN  FreeTemp(Store(V, up, Bin("+", up, Reg(V.res))), V.res)
        ELSE AssignValue(S, target, e)

\* compile_compound_index_assign and its like in compile_field_set: the
\* object and the key are computed once.
Compound(S, op, target, e) ==
    LET T   == Operands(S, target.kids)
        obj == T.regs[1]
        key == IF target.op = "field" THEN Str(target.arg) ELSE Reg(T.regs[2])
        P   == Alloc(T, 1)
        R   == CompileNode(Get(P, P.res, 1, obj, key), e)
        D   == Alloc(R, 1)
    IN  Set(Put(D, D.res, Bin(op, Reg(P.res), Reg(R.res))), obj, key, Reg(D.res))
-----------------------------------------------------------------------------
(* Declarations and the other statements                                   *)

\* Registers up to r are allocated.
Grow(S, r) == IF S.next > r THEN S ELSE Alloc(S, r + 1 - S.next)
Nulls(S, regs) == FoldLeft(LAMBDA T, r : Put(T, r, Null), S, regs)
Span(a, b) == [i \in 1 .. b - a + 1 |-> a + i - 1]

\* compile_var_decl for one local
LetOne(S, e, name) ==
    LET D == Alloc(S, 1)
        V == CompileNode(D, e)
        M == IF V.res = D.res THEN V ELSE Put(V, D.res, Reg(V.res))
        T == CASE e.op = "none" -> Put(D, D.res, Null)
               [] S.handler = -1 /\ CanInto(e) -> NodeInto(D, e, D.res)
               [] OTHER -> [M EXCEPT !.next = D.res + 1]
    IN  AddLocals(T, <<name>>, D.res)

\* compile_var_decl for several locals: the results of one call, the value
\* and the error of a try block, or one value and nulls
LetSeveral(S, e, names) ==
    LET n == Len(names)
        V == CompileNode(S, e)
        D == Alloc(V, n)
        T == CASE e.op = "none"     -> Nulls(Alloc(S, n), Span(S.next, S.next + n - 1))
               [] e.op = "call"     -> CallExpected(S, e, n)
               [] e.op = "tryblock" -> [Nulls(Grow(V, V.res + n - 1), Span(V.res + 2, V.res + n - 1))
                                           EXCEPT !.res = V.res]
               [] OTHER -> [Nulls(Put(D, D.res, Reg(V.res)), Span(D.res + 1, D.res + n - 1))
                               EXCEPT !.res = D.res]
    IN  AddLocals(T, names, IF e.op = "none" THEN S.next ELSE T.res)

\* compile_var_decl for globals
LetGlobal(S, e, names) ==
    LET n     == Len(names)
        V     == CASE e.op = "none" -> Put(Alloc(S, 1), S.next, Null)
                   [] e.op = "call" /\ n > 1 -> CallExpected(S, e, n)
                   [] OTHER -> CompileNode(S, e)
        first == IF e.op = "none" THEN S.next ELSE V.res
        pair  == e.op \in {"call", "tryblock"}
        null  == Alloc(V, 1)
        T     == CASE n = 1 \/ e.op = "none" -> V
                   [] pair -> Nulls(Grow(V, first + n - 1),
                                    IF e.op = "call" THEN <<>> ELSE Span(first + 2, first + n - 1))
                   [] OTHER -> Put(null, null.res, Null)
        Source(i) == IF i = 1 \/ e.op = "none" THEN first
                    ELSE IF pair THEN first + i - 1 ELSE null.res
    IN  FoldLeftDomain(LAMBDA U, i : Store(U, N("global", names[i], <<>>), Reg(Source(i))), T, names)

\* compile_return: the values go to consecutive registers from the first's.
Return(S, values) ==
    LET F == CompileNode(S, Head(values))
        Later(T, i) ==
            LET V  == CompileNode(T, values[i])
                to == F.res + i - 1
                G  == Grow(V, to)
            IN  IF V.res = to THEN G ELSE Put(G, to, Reg(V.res))
        D == Alloc(S, 1)
    IN  IF values = <<>> THEN Returned(ScopeExit(Put(D, D.res, Null), -1), D.res, 1)
        ELSE Returned(ScopeExit(FoldLeft(Later, F, Span(2, Len(values))), -1), F.res, Len(values))

\* compile_if
If(S, e, then, else) ==
    LET J == ConditionJump(S, e)
        T == Scoped(J, then)
        E == Scoped(Patch(Jump(T), {Len(J.code)}), else)
    IN  IF else = <<>> THEN Patch(T, {Len(J.code)}) ELSE Patch(E, {Here(T)})

\* compile_try_catch: the error is a local of the handler.
Catch(S, name, body, handler) ==
    LET D == Alloc(S, 1)
        B == Scoped(EnterTry(D, D.res), body)
        H == AddLocals(BeginScope(LeaveTry(Jump(B), S)), <<name>>, D.res)
    IN  Patch(EndScope(CompileBlock(H, handler)), {Here(B)})

\* What compile_loop, compile_for_range and compile_for_in save and restore
EnterLoop(S) == [S EXCEPT !.loopStart = Here(S), !.loopDepth = S.depth, !.breaks = {}]
LeaveLoop(S, outer) ==
    [Patch(S, S.breaks) EXCEPT !.loopStart = outer.loopStart,
        !.loopDepth = outer.loopDepth, !.breaks = outer.breaks]

\* OP_LOOP
JumpBack(S) == Emit(S, [Blank EXCEPT !.op = "jmp", !.jump = S.loopStart])

\* The head of a for loop: the jump out is still to patch.
Head0(S, op, to, n, at) ==
    [Emit(S, [Blank EXCEPT !.op = op, !.to = to, !.n = n, !.term = NextTurn(<<Reg(at), Reg(at + 1)>>)])
        EXCEPT !.loopStart = Here(S)]

\* The end of compile_for_range.  Jumps to the end of the body go straight to
\* the loop instruction: all but those of OP_TEST and OP_TESTERR are
\* instructions of their own.  An addition that ends the body, of fewer than
\* 255 instructions here, is fused with the jump back.
CloseRange(S) ==
    LET last  == Last(S.code)
        fused == /\ Here(S) > S.loopStart
                 /\ last.op = "put" /\ last.term.op = "bin" /\ last.term.arg = "+"
                 /\ last.term.kids[1] = Reg(last.to) /\ IsSmall(last.term.kids[2])
        OwnJump(i) == i.op = "jmp" \/ (i.op = "test" /\ (i.term.op = "bin" \/ i.to # -1))
        code  == [i \in DOMAIN S.code |->
                    IF i >= S.loopStart /\ OwnJump(S.code[i]) /\ S.code[i].jump = Here(S)
                    THEN [S.code[i] EXCEPT !.jump = S.loopStart] ELSE S.code[i]]
    IN  IF fused THEN [S EXCEPT !.code = [code EXCEPT ![Len(code)].op = "addloop",
                                                      ![Len(code)].jump = S.loopStart]]
        ELSE JumpBack([S EXCEPT !.code = code])

CompileLoop(S, body) == LeaveLoop(JumpBack(Scoped(EnterLoop(S), body)), S)

\* compile_for_range.  The end is compiled when the variable is declared.
ForRange(S, name, over, body) ==
    LET P    == Alloc(BeginScope(EnterLoop(S)), 2)
        iter == P.res
        Bound(T, e, to) ==
            LET V == CompileNode(T, e)
            IN  IF Simple(e) THEN Into(T, e, to)
                ELSE [Put(V, to, Reg(V.res)) EXCEPT !.next = iter + 2]
        B    == Bound(AddLocals(Bound(P, over.kids[1], iter), <<name>>, iter), over.kids[2], iter + 1)
        head == Head0(Put(B, iter, BeforeFirst(Reg(iter))), "forloop", iter, 1, iter)
        end  == CloseRange(EndScope(CompileBlock(head, body)))
    IN  LeaveLoop(Patch(end, {Len(head.code)}), S)

\* compile_for_in: the container, the position and the variables
ForIn(S, names, over, body) ==
    LET I    == CompileNode(BeginScope(EnterLoop(S)), over)
        P    == Alloc(I, 2)
        prep == Put(Put(P, P.res, Reg(I.res)), P.res + 1, Num("0"))
        V    == Alloc(prep, Len(names))
        head == Head0(AddLocals(V, names, V.res), "iternext", V.res, 2, P.res)
        end  == JumpBack(EndScope(CompileBlock(head, body)))
    IN  LeaveLoop(Patch(end, {Len(head.code)}), S)

\* NODE_BREAK and NODE_CONTINUE of compile_stmt
LoopExit(S, op) ==
    LET clean == ScopeExit(S, S.loopDepth)
    IN  CASE S.loopStart = 0 -> [S EXCEPT !.hadError = TRUE]
          [] op = "break"    -> [Jump(clean) EXCEPT !.breaks = @ \cup {Here(clean)}]
          [] OTHER           -> JumpBack(clean)

\* compile_function and compile: the deferred calls that are left, and null
CompileFunction(S, body) ==
    LET B == CompileBlock(S, body)
        D == Alloc(FoldLeft(LAMBDA T, d : CompileNode(T, d.call), B, Reverse(B.defers)), 1)
    IN  Returned(Put(D, D.res, Null), D.res, 1)

\* compile_stmt gives back the registers of an expression statement.
CompileStmt(S, s) ==
    LET Reclaimed(T) == [T EXCEPT !.next = S.next]
    IN  CASE s.op = "expr"     -> Reclaimed(IF s.e.op = "call" THEN CallExpected(S, s.e, 0)
                                            ELSE CompileNode(S, s.e))
          [] s.op = "assign"   -> Reclaimed(Assign(S, s.target, s.value))
          [] s.op = "compound" -> Reclaimed(Compound(S, s.by, s.target, s.value))
          [] s.op = "global"   -> Reclaimed(LetGlobal(S, s.init, s.names))
          [] s.op = "let"    -> IF Len(s.names) = 1 THEN LetOne(S, s.init, s.names[1])
                                ELSE LetSeveral(S, s.init, s.names)
          [] s.op = "return" -> Return(S, s.values)
          [] s.op = "defer"  -> [S EXCEPT !.defers = Append(@, [call |-> s.call, depth |-> S.depth])]
          [] s.op = "if"     -> If(S, s.cond, s.then, s.else)
          [] s.op = "catch"  -> Catch(S, s.name, s.body, s.handler)
          [] s.op = "loop"   -> CompileLoop(S, s.body)
          [] s.op = "for range" -> ForRange(S, s.names[1], s.over, s.body)
          [] s.op = "for in" -> ForIn(S, s.names, s.over, s.body)
          [] s.op \in {"break", "continue"} -> LoopExit(S, s.op)
          [] s.op = "function" -> CompileFunction(S, s.body)

\* compile_node and compile_stmt
CompileNode(S, e) ==
    CASE Simple(e)              -> Load(S, e)
      [] e.op \in {"neg", "not"} -> CompileUnary(S, e)
      [] e.op = "bin"           -> CompileBinary(S, e)
      [] e.op = "logic"         -> CompileLogical(S, e)
      [] e.op = "call"          -> CompileCall(S, e)
      [] e.op = "index"         -> Index(S, e, 1)
      [] e.op = "field"         -> FieldGet(S, e)
      [] e.op = "try"           -> CompileTry(S, e)
      [] e.op = "tryblock"      -> TryBlock(S, e)
      [] e.op \in {"array", "dict"} -> Literal(S, e)
      [] e.op = "struct"        -> StructLiteral(S, e)
      [] OTHER                  -> CompileStmt(S, e)

Compiled(p) == CompileNode(NewCompiler(p.script), Function(p))

\* The registers of the frame a program begins with
Frame(m, registers) ==
    LET first == IF m.script THEN 0 ELSE 1
    IN  [r \in 0 .. registers - 1 |-> IF r - first + 1 \in DOMAIN m.mem THEN m.mem[r - first + 1] ELSE Junk]
=============================================================================
