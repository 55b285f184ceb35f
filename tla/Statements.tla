----------------------------- MODULE Statements -----------------------------
(***************************************************************************)
(* Expressions and statements, and what they mean, read directly: without  *)
(* registers or instructions.  The meaning of a function body is a trace:  *)
(* the calls, the reads and writes of objects, the tests and the values    *)
(* returned, in order, on symbolic values.  Arithmetic has no effect but   *)
(* its value, so it is not in the trace.                                   *)
(*                                                                         *)
(* A syntax node has an op, an arg (a name) and kids:                      *)
(*   num, str, const; id(name), @(name): a global named explicitly;        *)
(*   neg(e), not(e), bin(op; l, r), logic(op; l, r);                       *)
(*   call(f, args), where f may be a field: a method call;                 *)
(*   index(o, k), field(name; o), try(e): e followed by ?,                 *)
(*   array(items), dict(pairs), struct(name; pairs), pair(k, v),           *)
(*   tryblock(statements)                                                  *)
(* A statement has an op and fields:                                       *)
(*   expr(e), let(names, init) and global(names, init), where init may be  *)
(*   none, assign(target, value), compound(by, target, value): target by=  *)
(*   value, return(values), defer(call), if(cond, then, else),             *)
(*   catch(name, body, handler), loop(body), break, continue,              *)
(*   for range(names, over, body) and for in(names, over, body)            *)
(***************************************************************************)
EXTENDS Integers, SequencesExt

CONSTANTS
    Params,         \* the parameters of a function
    Upvalues,       \* variables of the enclosing functions that it captures
    Globals,        \* names of globals known when it is compiled
    Inline,         \* [name -> [params, expr]]: functions a script may inline
    Shared,         \* variables that a call of the function "set" assigns
    Small,          \* numbers that fit an 8-bit immediate operand
    Below           \* pairs of numbers, the first of them less

N(op, arg, kids) == [op |-> op, arg |-> arg, kids |-> kids]
Num(name)  == N("num", name, <<>>)
Str(name)  == N("str", name, <<>>)
Id(name)   == N("id", name, <<>>)
Null       == N("const", "null", <<>>)
Bin(op, a, b)   == N("bin", op, <<a, b>>)
Method(o, name) == N("method", name, <<o>>)

\* The j-th value the k-th entry of the trace produced
Result(k, j) == N("result", ToString(10 * k + j), <<>>)
\* The value a variable of an enclosing function or a global begins with
Initial(cell) == N("init", cell.op \o " " \o cell.arg, <<>>)
\* What nothing has computed
Junk == N("junk", "", <<>>)
\* The function that assigns the shared variables
Setter == Initial(N("global", "set", <<>>))

Arithmetic == {"+", "-", "*", "/", "%"}
IsNum(e)    == e.op = "num"
IsSmall(e)  == IsNum(e) /\ e.arg \in Small

Bool(b) == N("const", IF b THEN "true" ELSE "false", <<>>)
IsBool(e) == e \in {Bool(TRUE), Bool(FALSE)}

\* What an operator computes from two numbers: a number, named by what made
\* it, or whether the comparison holds; + joins two strings.
FromNumbers(op, a, b) ==
    CASE op \in Arithmetic -> Num("(" \o a \o op \o b \o ")")
      [] op = "=="  -> Bool(a = b)
      [] op = "!="  -> Bool(a # b)
      [] op = "<"   -> Bool(<<a, b>> \in Below)
      [] op = "<="  -> Bool(a = b \/ <<a, b>> \in Below)
      [] op = ">"   -> Bool(<<b, a>> \in Below)
      [] op = ">="  -> Bool(a = b \/ <<b, a>> \in Below)
Negated(a) == Num("(-" \o a \o ")")

\* What an operator computes.  a > b is b < a, small constants commute with
\* + and *, and dividing by two is multiplying by a half.
Canon(t) ==
    IF t.op = "neg" /\ IsNum(t.kids[1]) THEN Negated(t.kids[1].arg)
    ELSE IF t.op = "not" /\ IsBool(t.kids[1]) THEN Bool(t.kids[1] = Bool(FALSE))
    ELSE IF t.op # "bin" THEN t
    ELSE LET a == t.kids[1]
             b == t.kids[2]
         IN  CASE IsNum(a) /\ IsNum(b) -> FromNumbers(t.arg, a.arg, b.arg)
               [] t.arg = "+" /\ a.op = "str" /\ b.op = "str" -> Str(a.arg \o b.arg)
               [] t.arg = ">"  -> Bin("<", b, a)
               [] t.arg = ">=" -> Bin("<=", b, a)
               [] t.arg \in {"+", "*"} /\ IsSmall(a) -> Bin(t.arg, b, a)
               [] t.arg = "/" /\ b = Num("2") -> Bin("*", a, Num("0.5"))
               [] OTHER -> t
-----------------------------------------------------------------------------
(* What the statements mean, read directly.  m has the trace so far, the   *)
(* answers left, the variables visible and their values, the variables of  *)
(* others, and how control leaves: with an error, a return, a break, a     *)
(* continue or not at all.                                                 *)

\* A script begins with the functions it may inline.
Inlined == SetToSeq(DOMAIN Inline)

Place(m, name) == SelectLastInSeq(m.scope, LAMBDA v : v.name = name)
IsCaptured(m, name) == ~m.script /\ name \in Upvalues
Cell(m, e) == N(IF e.op = "id" /\ IsCaptured(m, e.arg) THEN "up" ELSE "global", e.arg, <<>>)
Value(m, e) ==
    IF e.op = "id" /\ Place(m, e.arg) # 0 THEN m.mem[m.scope[Place(m, e.arg)].at]
    ELSE m.cells[Cell(m, e)]
Assigned(m, e, v) ==
    IF e.op = "id" /\ Place(m, e.arg) # 0 THEN [m EXCEPT !.mem[m.scope[Place(m, e.arg)].at] = v]
    ELSE [m EXCEPT !.cells[Cell(m, e)] = v]
Declared(m, names, values) ==
    [m EXCEPT !.scope = @ \o [i \in DOMAIN names |-> [name |-> names[i], at |-> Len(m.mem) + i]],
              !.mem = @ \o values]

Start(p, answers) ==
    LET names == IF p.script THEN Inlined ELSE Params
    IN  Declared(
            [trace |-> <<>>, left |-> answers, script |-> p.script, scope |-> <<>>, mem |-> <<>>,
             cells |-> [c \in {N("up", u, <<>>) : u \in Upvalues}
                              \cup {N("global", g, <<>>) : g \in Globals} |-> Initial(c)],
             end |-> "", val |-> Null, vals |-> <<>>, returns |-> <<>>, defers |-> <<>>],
            names,
            [i \in DOMAIN names |-> N(IF p.script THEN "fn" ELSE "init", names[i], <<>>)])

Logged(m, entry) == [m EXCEPT !.trace = Append(@, entry), !.val = Result(Len(m.trace) + 1, 1)]
Answer(left) == left # <<>> /\ Head(left)
Answered(m)  == [m EXCEPT !.left = IF @ = <<>> THEN @ ELSE Tail(@)]

\* Whether a value holds is known of a constant, and an answer of the others.
Decided(v)      == v.op = "const"
Holds(left, v)  == IF Decided(v) THEN v.arg = "true" ELSE Answer(left)

RECURSIVE Mean(_, _)
MeanEach(m, es) ==
    FoldLeft(LAMBDA n, e :
                IF n.end # "" THEN n
                ELSE LET v == Mean(n, e) IN [v EXCEPT !.vals = Append(n.vals, v.val)],
             [m EXCEPT !.vals = <<>>], es)

\* Each of these goes on from m unless control has left.
Then(m, F(_)) == IF m.end # "" THEN m ELSE F(m)
LogEach(m, es, Entry(_)) == Then(MeanEach(m, es), LAMBDA n : Logged(n, Entry(n.vals)))

\* A call of the function "set" assigns the shared variables.
MeanCall(m, e) ==
    LET f      == e.kids[1]
        method == f.op = "field"
        Made(n) ==
            LET v    == n.vals
                fn   == IF method THEN Method(v[1], f.arg) ELSE v[1]
                args == IF method THEN v ELSE Tail(v)
                after == Logged(n, N("call", "", <<fn>> \o args))
                inner == [n EXCEPT !.scope = <<>>]
                body  == Mean(Declared(inner, Inline[fn.arg].params, args), Inline[fn.arg].expr)
            IN  CASE fn.op = "fn" -> [body EXCEPT !.scope = n.scope]
                  [] fn = Setter  -> FoldSet(LAMBDA x, t : Assigned(t, Id(x), Result(Len(t.trace), 9)),
                                             after, Shared)
                  [] fn = Initial(N("global", "push", <<>>)) -> [after EXCEPT !.val = Null]
                  [] OTHER -> after
    IN  Then(MeanEach(m, <<IF method THEN f.kids[1] ELSE f>> \o Tail(e.kids)), Made)

MeanTry(m, e) ==
    LET Tried(n) ==
            IF n.val.op # "result" THEN n
            ELSE IF Answer(n.left)
            THEN [Answered(n) EXCEPT !.end = "error", !.val = Result(Len(n.trace), 2)]
            ELSE Answered(n)
    IN  Then(Mean(m, e.kids[1]), Tried)

\* The literals: a new object, then its items or fields in turn
MeanLiteral(m, e) ==
    LET new == IF e.op = "struct" THEN MeanCall(m, N("call", "", <<Id(e.arg)>>))
               ELSE Logged(m, N("new", e.op, <<>>))
        Item(n, item) ==
            CASE e.op = "struct" -> LogEach(n, <<item.kids[2]>>, LAMBDA v :
                                        N("set", "", <<new.val, item.kids[1], v[1]>>))
              [] item.op = "pair" -> LogEach(n, item.kids, LAMBDA v : N("add", "", <<new.val>> \o v))
              [] OTHER -> LogEach(n, <<item>>, LAMBDA v : N("add", "", <<new.val>> \o v))
    IN  Then(FoldLeft(LAMBDA n, item : Then(n, LAMBDA t : Item(t, item)), new, e.kids),
             LAMBDA n : [n EXCEPT !.val = new.val])

MeanTest(m) == IF Decided(m.val) THEN m ELSE Answered(Logged(m, N("test", "", <<m.val>>)))

MeanLogic(m, e) ==
    LET Second(n) ==
            LET t == MeanTest(n)
            IN  IF Holds(n.left, n.val) = (e.arg = "and") THEN Mean(t, e.kids[2])
                ELSE [t EXCEPT !.val = n.val]
    IN  Then(Mean(m, e.kids[1]), Second)

\* However control leaves a block, its deferred calls are made, last first,
\* each with the variables that were visible where it was declared.
MeanBlock(m, body) ==
    LET B == FoldLeft(LAMBDA n, s : Then(n, LAMBDA t : Mean(t, s)),
                      [m EXCEPT !.defers = <<>>], body)
        val  == IF B.end = "" /\ (body = <<>> \/ Last(body).op # "expr") THEN Null ELSE B.val
        Late(n, d) == Mean([n EXCEPT !.scope = d.scope, !.end = ""], d.call)
    IN  [FoldLeft(Late, B, Reverse(B.defers)) EXCEPT
            !.scope = m.scope, !.defers = m.defers, !.end = B.end, !.val = val]

\* A try block has the value of its last expression, or the error.
MeanTryBlock(m, e) ==
    LET B == MeanBlock(m, e.kids)
    IN  IF B.end = "error" THEN [B EXCEPT !.end = "", !.vals = <<Null, B.val>>, !.val = Null]
        ELSE [B EXCEPT !.vals = <<B.val, Null>>]

\* The value is computed before the element, after the object of a field.
MeanAssign(m, target, e) ==
    IF target.op = "index"
    THEN LogEach(m, <<e>> \o target.kids, LAMBDA v : N("set", "", <<v[2], v[3], v[1]>>))
    ELSE IF target.op = "field"
    THEN LogEach(m, <<target.kids[1], e>>, LAMBDA v : N("set", "", <<v[1], Str(target.arg), v[2]>>))
    ELSE Then(Mean(m, e), LAMBDA n : Assigned(n, target, n.val))

MeanCompound(m, s) ==
    LET Update(n) ==
            LET at  == IF s.target.op = "field" THEN <<n.vals[1], Str(s.target.arg)>> ELSE n.vals
                old == Logged(n, N("get", "", at))
            IN  Then(Mean(old, s.value), LAMBDA r :
                    Logged(r, N("set", "", Append(at, Canon(Bin(s.by, old.val, r.val))))))
    IN  Then(MeanEach(m, s.target.kids), Update)

MeanLet(m, s) ==
    LET n == Len(s.names)
        e == s.init
        Pad(v) == [i \in 1 .. n |-> IF i <= Len(v) THEN v[i] ELSE Null]
        Values(t) ==
            CASE e.op = "none" -> Pad(<<>>)
              [] e.op = "tryblock" /\ n > 1 -> Pad(t.vals)
              [] e.op = "call" /\ n > 1 /\ t.val.op = "result" ->
                    [i \in 1 .. n |-> Result(Len(t.trace), i)]
              [] OTHER -> Pad(<<t.val>>)
        Bound(t) ==
            IF s.op = "let" THEN Declared(t, s.names, Values(t))
            ELSE FoldLeftDomain(LAMBDA u, i : Assigned(u, N("@", s.names[i], <<>>), Values(t)[i]),
                                t, s.names)
    IN  Then(IF e.op = "none" THEN m ELSE Mean(m, e), Bound)

MeanIf(m, s) ==
    LET Chosen(n) ==
            LET t == MeanTest(n)
            IN  MeanBlock(t, IF Holds(n.left, n.val) THEN s.then ELSE s.else)
    IN  Then(Mean(m, s.cond), Chosen)

MeanCatch(m, s) ==
    LET B == MeanBlock(m, s.body)
        H == MeanBlock(Declared([B EXCEPT !.end = ""], <<s.name>>, <<B.val>>), s.handler)
    IN  IF B.end = "error" THEN [H EXCEPT !.scope = m.scope] ELSE B

(* A loop has variables without a name: the end of a range, the container  *)
(* and the position in it.  Each turn of a for loop asks for one more, and *)
(* an answer says whether there is: a variable counts from before the      *)
(* first value, and the body may assign it.                                *)

BeforeFirst(v) == N("before", "", <<v>>)
NextTurn(at)   == N("next", "", at)
End      == Id("(end)")
Over     == Id("(over)")
Position == Id("(position)")
After(position) == Canon(Bin("+", position, Num("1")))

LoopVariables(m, s) ==
    LET v == m.vals
    IN  CASE s.op = "for range" -> Declared(m, <<s.names[1], End.arg>>, <<BeforeFirst(v[1]), v[2]>>)
          [] s.op = "for in" -> Declared(m, <<Over.arg, Position.arg>> \o s.names,
                                         <<v[1], Num("0")>> \o [i \in DOMAIN s.names |-> Junk])
          [] OTHER -> m

Turn(m, s) ==
    LET at   == [i \in 1 .. 2 |-> Value(m, IF s.op = "for range" THEN <<Id(s.names[1]), End>>[i]
                                           ELSE <<Over, Position>>[i])]
        more == Answered(Logged(m, NextTurn(at)))
        next == IF s.op = "for in" THEN Assigned(more, Position, After(at[2])) ELSE more
    IN  IF s.op = "loop" THEN m
        ELSE IF ~Answer(m.left) THEN [more EXCEPT !.end = "over"]
        ELSE FoldLeftDomain(LAMBDA n, i : Assigned(n, Id(s.names[i]), Result(Len(more.trace), i)),
                            next, s.names)

RECURSIVE Turns(_, _)
Turns(m, s) ==
    LET T == Turn(m, s)
        B == IF T.end # "" THEN T ELSE MeanBlock(T, s.body)
    IN  CASE B.end \in {"", "continue"} -> Turns([B EXCEPT !.end = ""], s)
          [] B.end \in {"over", "break"} -> [B EXCEPT !.end = ""]
          [] OTHER -> B

MeanLoop(m, s) ==
    Then(MeanEach(m, CASE s.op = "for range" -> s.over.kids [] s.op = "for in" -> <<s.over>>
                       [] OTHER -> <<>>),
         LAMBDA n : [Turns(LoopVariables(n, s), s) EXCEPT !.scope = m.scope])

MeanFunction(m, body) ==
    LET B == MeanBlock(m, body)
    IN  Logged(B, N("return", "", CASE B.end = "return" -> B.returns
                                    [] B.end = "error"  -> <<Null, B.val>>
                                    [] OTHER            -> <<Null>>))

MeanStmt(m, s) ==
    CASE s.op = "expr"     -> Mean(m, s.e)
      [] s.op = "assign"   -> MeanAssign(m, s.target, s.value)
      [] s.op = "compound" -> MeanCompound(m, s)
      [] s.op \in {"let", "global"} -> MeanLet(m, s)
      [] s.op = "return"   -> Then(MeanEach(m, IF s.values = <<>> THEN <<Null>> ELSE s.values),
                                   LAMBDA n : [n EXCEPT !.end = "return", !.returns = n.vals])
      [] s.op = "defer"    -> [m EXCEPT !.defers = Append(@, [call |-> s.call, scope |-> m.scope])]
      [] s.op = "if"       -> MeanIf(m, s)
      [] s.op = "catch"    -> MeanCatch(m, s)
      [] s.op \in {"loop", "for range", "for in"} -> MeanLoop(m, s)
      [] s.op \in {"break", "continue"} -> [m EXCEPT !.end = s.op]
      [] s.op = "function" -> MeanFunction(m, s.body)

Mean(m, e) ==
    CASE e.op \in {"num", "str", "const"} -> [m EXCEPT !.val = e]
      [] e.op \in {"id", "@"} -> [m EXCEPT !.val = Value(m, e)]
      [] e.op \in {"neg", "not", "bin"} ->
            Then(MeanEach(m, e.kids),
                 LAMBDA n : [n EXCEPT !.val = Canon(N(e.op, IF e.op = "bin" THEN e.arg ELSE "", n.vals))])
      [] e.op = "logic"    -> MeanLogic(m, e)
      [] e.op = "call"     -> MeanCall(m, e)
      [] e.op = "index"    -> LogEach(m, e.kids, LAMBDA v : N("get", "", v))
      [] e.op = "field"    -> LogEach(m, e.kids, LAMBDA v : N("get", "", <<v[1], Str(e.arg)>>))
      [] e.op = "try"      -> MeanTry(m, e)
      [] e.op = "tryblock" -> MeanTryBlock(m, e)
      [] e.op \in {"array", "dict", "struct"} -> MeanLiteral(m, e)
      [] OTHER             -> MeanStmt(m, e)

Function(p) == [op |-> "function", body |-> p.body]
Meaning(p, answers) == Mean(Start(p, answers), Function(p)).trace
=============================================================================
