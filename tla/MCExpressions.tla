--------------------------- MODULE MCExpressions ----------------------------
(***************************************************************************)
(* Short function bodies around one expression, in every place an          *)
(* expression can stand.                                                   *)
(***************************************************************************)
EXTENDS MCTypes

\* Operands: a local, numbers, a captured variable, a global, calls, lookups
Leaves == {x, Num("2"), Num("300"), Id("u"), F(<<x>>), Key(o), Try(Key(o)), Get0(o, x)}

\* Expressions of several shapes
Shapes ==
    {x, Num("300"), N("@", "g", <<>>), F(<<x, Id("u")>>), Get0(o, x), Try(Key(o)), Try(F(<<y>>)),
     Bin("*", y, Num("2")), Bin("+", Bin("-", x, y), F(<<x>>)), Bin("==", Bin("%", y, Num("2")), Num("1")),
     Bin(">=", Bin("+", x, y), Num("1")), Bin("<", x, Num("2")), Bin("+", Bin("+", Id("u"), x), F(<<x>>)),
     Logic("or", x, F(<<x>>)), Logic("and", Key(o), y), N("not", "", <<x>>),
     Call0(Id("len"), <<o>>), Array(<<x, F(<<y>>)>>), Field(o, "p"),
     Bin("+", Bin("-", Num("300"), N("neg", "", <<Num("2")>>)), x), Bin("%", Num("1"), Num("0")),
     Logic("and", Bin("<", Num("1"), Num("2")), F(<<x>>)), Logic("or", N("not", "", <<Bool(FALSE)>>), x),
     Logic("or", Bin(">=", Num("1"), Num("300")), Bin("+", K, K))}

\* A line that begins with a parenthesis or a bracket goes on with the
\* expression of the line before it.
Continues(e) == Level(e) < Operand \/ e.op = "array"

\* Every place an expression can stand
Places(e) ==
    {<<Let(<<"v">>, e), Expr(F(<<Id("v"), x>>))>>,
     <<Let(<<"v", "w">>, e), Expr(F(<<Id("w"), Id("v")>>))>>,
     <<Let(<<"v", "w", "z">>, F(<<e>>)), Expr(F(<<Id("z"), Id("w"), Id("v")>>))>>,
     <<Let(<<"v">>, NoInit), Let(<<"w">>, e), Assign0(Id("v"), Id("w")), Expr(F(<<Id("v")>>))>>,
     <<Let(<<"v", "w">>, TryBlock0(<<Expr(F(<<e>>))>>)), Expr(F(<<Id("v"), Id("w")>>))>>,
     <<Global(<<"g">>, e)>>, <<Global(<<"g", "h">>, F(<<e>>))>>, <<Global(<<"g", "h">>, e)>>,
     <<Assign0(x, e)>>, <<Assign0(x, Bin("+", x, e))>>,
     <<Assign0(y, Bin("-", Bin("+", y, e), Bin("*", x, Num("2"))))>>,
     <<Assign0(Id("u"), Bin("+", Id("u"), e))>>, <<Assign0(Id("u"), e)>>,
     <<Assign0(Id("g"), Bin("+", Id("g"), Bin("*", e, Num("300"))))>>,
     <<Assign0(N("@", "g", <<>>), Bin("-", Id("g"), e))>>,
     <<Assign0(Get0(o, y), e)>>,
     <<Assign0(Field(o, "p"), e)>>, <<Compound0("+", Get0(o, y), e)>>,
     <<Compound0("-", Field(o, "p"), e)>>,
     <<Expr(F(<<F(<<e, y>>), F(<<x>>)>>))>>, <<Expr(Call0(Field(o, "m"), <<e>>))>>,
     <<Let(<<"v">>, Call0(Field(o, "m"), <<x, e>>)), Expr(F(<<Id("v")>>))>>,
     <<Let(<<"v">>, Call0(Id("me"), <<e>>)), Expr(F(<<Id("v")>>))>>,
     <<Let(<<"c">>, Id("f")), Let(<<"v">>, Call0(Id("c"), <<e, F(<<y>>)>>)), Expr(F(<<Id("v")>>))>>,
     <<Let(<<"v">>, Call0(Id("push"), <<o, e>>)), Expr(Call0(Id("push"), <<e, x>>)), Expr(F(<<Id("v")>>))>>,
     <<Expr(F(<<Array(<<e, x>>)>>)), Expr(F(<<N("dict", "", <<Pair(Str("k"), e)>>)>>))>>,
     <<Let(<<"v">>, N("struct", "S", <<Pair(Str("p"), e)>>)), Expr(F(<<Id("v")>>))>>,
     <<If0(e, <<Expr(F(<<y>>))>>, <<Assign0(x, y)>>)>>,
     <<Return0(<<F(<<e>>), x, y>>)>>, <<Return0(<<e>>)>>}
    \cup (IF Continues(e) THEN {} ELSE {<<Assign0(Get0(e, y), x)>>})

\* A place inside a scope, a condition, a handler, or with a deferred call
\* pending; after it the variables are shown.
Show == Expr(F(<<x, y, Id("u"), N("@", "g", <<>>), Call0(Id("len"), <<o>>)>>))
RECURSIVE SubTerms(_)
SubTerms(t) == {t} \cup UNION {SubTerms(t.kids[i]) : i \in DOMAIN t.kids}
\* A fused lookup, x = x + o["k"]?, makes no deferred call when it fails.
FusedLookup(b) ==
    /\ Head(b).op = "assign" /\ Head(b).target \in {x, y}
    /\ Head(b).value.op = "bin" /\ Try(Key(o)) \in SubTerms(Head(b).value)
Around(b) ==
    {b, <<If0(x, <<If0(y, b, <<>>), Show>>, <<Return0(<<>>)>>)>>,
     <<Catch0("e", b \o <<Show>>, <<Expr(F(<<Id("e"), x>>))>>)>>,
     <<Let(<<"v", "w">>, TryBlock0(b \o <<Show>>)), Expr(F(<<Id("v"), Id("w")>>))>>}
    \cup (IF FusedLookup(b) THEN {} ELSE {<<If0(x, <<Defer(F(<<y, F(<<x>>)>>))>> \o b, <<>>)>>})

\* Where folding leaves a call of and or or, several values are taken of it.
Spreads(b) ==
    /\ Head(b).op \in {"let", "global"} /\ Len(Head(b).names) > 1
    /\ Head(b).init.op = "logic" /\ Folded(Head(b).init).op = "call"

Uses(e) == {b \o <<Show>> : b \in UNION {Around(p) : p \in {q \in Places(e) : ~Spreads(q)}}}
Sums(op, a) ==
    UNION {{<<Let(<<"v">>, e), Expr(F(<<Id("v")>>)), Assign0(x, e), Show>>, <<Return0(<<e>>)>>} :
              e \in {Bin(op, a, b) : b \in Leaves}}
\* The callee is a local that an argument assigns.
ResetCallee == {<<Let(<<"c">>, F(<<x>>)), Expr(F(<<Call0(Id("c"), <<Call0(Id("set"), <<>>), y>>)>>)), Show>>}

\* A local in the highest register of the function is updated by a lookup.
Highest == {<<Let(<<"v">>, Num("1")),
              If0(x, <<Let(<<"w">>, Id("v")), Assign0(Id("w"), Bin("+", Id("w"), Try(Key(o))))>>, <<>>)>>}
Undefined == {<<Expr(F(<<Id("nowhere")>>))>>, <<Assign0(Id("nowhere"), x)>>}

(* Loops around a place.  The answers end a for loop, and a loop by its    *)
(* break.  Left out: a range whose end names the loop's variable, an       *)
(* addition that ends the body under a plain test, and one variable over a *)
(* body that uses no further register.                                     *)
Counted(b)  == For0(<<"i">>, Bin("..", x, Bin("+", y, Num("1"))), b)
Until(b)    == Loop0(<<If0(F(<<x>>), b, <<Jump0("break")>>)>>)
Count       == Assign0(x, Bin("+", x, Num("1")))
CountIf(c)  == If0(c, <<Count>>, <<>>)
Next0(c)     == If0(c, <<Jump0("continue")>>, <<>>)
Stop0(c)     == If0(c, <<Jump0("break")>>, <<>>)
Late        == Defer(F(<<y, F(<<x>>)>>))
Looped(e, b) ==
    {<<Counted(b \o <<Expr(F(<<Id("i")>>)), Count>>)>>, <<Counted(<<Assign0(Id("i"), e)>> \o b)>>,
     <<For0(<<"k">>, o, <<Expr(F(<<Id("k"), e>>)), Stop0(e)>>)>> \o b,
     <<Until(<<Catch0("e", b \o <<Jump0("continue")>>, <<Late, Expr(F(<<Id("e")>>)), Jump0("break")>>)>>)>>,
     <<Counted(<<Counted(<<Stop0(x)>> \o b), CountIf(Bin("<", x, Num("2")))>>)>>}
    \cup IF FusedLookup(b) THEN {} ELSE
    {<<For0(<<"k", "v">>, e, <<Late, Next0(Id("k"))>> \o b \o <<Expr(F(<<Id("v")>>))>>)>>,
     <<Until(<<Let(<<"v", "w">>, TryBlock0(b \o <<Show>>)), For0(<<"k", "v">>, o, <<Late, Next0(Id("w"))>> \o b)>>)>>,
     <<For0(<<"i">>, Bin("..", Num("1"), e), <<Let(<<"v">>, x), Late, Until(b), Next0(Id("v")), Count>>)>>}
LoopShapes == {Try(F(<<y>>)), Bin("<", x, Num("2"))}
Loops(e) == {b \o <<Show>> : b \in UNION {Looped(e, p) : p \in {q \in Places(e) : ~Spreads(q)}}}

\* A script that inlines a function
Dbl(e) == Call0(Id("dbl"), <<e>>)
Scripts ==
    {<<Let(<<"v">>, Dbl(Id("g"))), Let(<<"w">>, Bin("+", Dbl(F(<<Id("v")>>)), Dbl(Id("v")))),
       Defer(F(<<Id("w")>>)), Expr(F(<<Dbl(Dbl(Id("w"))), Id("v")>>))>>}

InFunction(bodies) == {Tree("function", <<Fn("me", MCParams, b)>>) : b \in bodies}
\* A family of programs for every shape, operator, and the rest
MCFamilies == {<<"use", e>> : e \in Shapes} \cup {<<"loop", e>> : e \in LoopShapes} \cup {<<"sum", op>> : op \in {"+", "-", "/", "<"}}
              \cup {<<"other">>, <<"syntax">>, <<"damaged">>} \cup TypeFamilies
Trees(f) ==
    CASE f[1] = "use" -> InFunction(Uses(f[2]))
      [] f[1] = "loop" -> {Tree("loops", <<Fn("me", MCParams, b)>>) : b \in Loops(f[2])}
      [] f[1] = "sum" -> InFunction(UNION {Sums(f[2], a) : a \in Leaves})
      [] f[1] = "other" -> InFunction(ResetCallee \cup Highest) \cup {Tree("script", b) : b \in Scripts}
                          \cup {Tree("undefined", <<Fn("me", MCParams, b)>>) : b \in Undefined}
      [] f[1] = "syntax" -> SyntaxTrees
      [] f[1] = "types" -> TypeTrees(f)
MCSourcesOf(f) == IF f[1] = "damaged" THEN DamagedSources ELSE AsSources(Trees(f))
MCBelow         == {<<"0", "1">>, <<"0", "2">>, <<"1", "2">>, <<"1", "300">>, <<"2", "300">>}
MCAnswersTo(s)  == [1 .. IF s.kind = "loops" THEN 4 ELSE 2 -> BOOLEAN]
MCInline == [n \in {"dbl"} |-> [params |-> <<"a">>, expr |-> Bin("+", Id("a"), Id("a"))]]
=============================================================================
