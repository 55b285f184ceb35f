------------------------------ MODULE MCSyntax ------------------------------
(***************************************************************************)
(* Syntax trees, the sources that write them down, and damaged ones.       *)
(***************************************************************************)
EXTENDS Interpret, Sources

x == Id("x")
y == Id("y")
o == Id("o")
Call0(f, args) == N("call", "", <<f>> \o args)
F(args)        == Call0(Id("f"), args)
Get0(obj, key) == N("index", "", <<obj, key>>)
Try(e)         == N("try", "", <<e>>)
Field(obj, name) == N("field", name, <<obj>>)
Expr(e)          == [op |-> "expr", e |-> e]
Untyped(op, names, e) ==
    [op |-> op, names |-> names, types |-> [i \in DOMAIN names |-> NoType], init |-> e]
Let(names, e)    == Untyped("let", names, e)
Global(names, e) == Untyped("global", names, e)
NoInit           == N("none", "", <<>>)
Assign0(t, e)    == [op |-> "assign", target |-> t, value |-> e]
Compound0(by, t, e) == [op |-> "compound", by |-> by, target |-> t, value |-> e]
Return0(es)      == [op |-> "return", values |-> es]
If0(c, a, b)     == [op |-> "if", cond |-> c, then |-> a, else |-> b]
Defer(e)         == [op |-> "defer", call |-> e]
TryBlock0(b)     == N("tryblock", "", b)
Catch0(n, a, b)  == [op |-> "catch", name |-> n, body |-> a, handler |-> b]
Logic(op, a, b) == N("logic", op, <<a, b>>)

Key(e) == Get0(e, Str("k"))
Array(items)   == N("array", "", items)
Pair(k, v)     == N("pair", "", <<k, v>>)

\* Lookups are written o<k> where no comparison would be taken for one.
Compares(toks) == \E i \in 2 .. Len(toks) : toks[i].kind = "<" /\ toks[i - 1].kind # "&"
Tokens(ast) == LET toks == Lines(ast) IN Scanned(toks, ~Compares(toks))

\* What is written down, and how it is read back
Tree(kind, ast) == [kind |-> kind, written |-> ast, ast |-> ast]
AsSources(trees) == {[kind |-> t.kind, ast |-> t.ast, tokens |-> Tokens(t.written)] : t \in trees}
MCParams == <<"x", "y", "o">>
Fn(name, params, body) ==
    [op |-> "fn", name |-> name, owner |-> "", result |-> NoType, body |-> body,
     params |-> [i \in DOMAIN params |-> [name |-> params[i], type |-> NoType]]]
Show0 == Expr(F(<<x, y>>))
-----------------------------------------------------------------------------
\* Each operator next to each other, on either side
Ops == {"or", "and", "==", "<", "..", "+", "-", "*"}
Apply(op, a, b) == IF op \in {"or", "and"} THEN Logic(op, a, b) ELSE Bin(op, a, b)
Unaries(e) == {N("neg", "", <<e>>), N("not", "", <<e>>)}
Postfixes(e) == {F(<<e>>), Call0(e, <<x>>), Get0(e, y), Field(e, "p"), Try(e)}
Inner == {Apply(op, x, y) : op \in Ops} \cup Unaries(x) \cup Postfixes(x)
Nested == {Apply(op, e, o) : op \in Ops, e \in Inner} \cup {Apply(op, o, e) : op \in Ops, e \in Inner}
          \cup UNION {Unaries(e) \cup Postfixes(e) : e \in Inner}

\* Comparisons, lookups and what stands after them
K == Str("k")
Less == Bin("<", x, y)
More(a) == Bin(">", y, a)
Comparisons ==
    {<<If0(Less, <<Expr(F(<<Get0(o, K)>>))>>, <<>>)>>,
     <<Let(<<"v">>, Logic("and", Less, More(Num("2")))), Expr(F(<<x>>))>>,
     <<Let(<<"v">>, Logic("and", Less, More(Id("g")))), Let(<<"w">>, Get0(o, x))>>,
     <<Expr(F(<<Less, N("dict", "", <<Pair(K, x)>>)>>))>>,
     <<Let(<<"v">>, Less), If0(x, <<>>, <<>>), Expr(F(<<N("dict", "", <<Pair(K, x)>>)>>))>>,
     <<If0(Logic("or", More(x), Bin("<=", x, y)), <<Let(<<"v">>, Array(<<Less>>))>>, <<>>)>>,
     <<Let(<<"v">>, N("dict", "", <<Pair(K, Get0(o, Get0(o, K))), Pair(Str("l"), More(x))>>))>>}

\* Declarations, loops and types
TName(n) == N("name", n, <<>>)
Var(n, t) == [name |-> n, type |-> t]
Dict0 == N("dict type", "", <<TName("string"), N("array type", "", <<TName("number")>>)>>)
Shape0 == N("shape", "", <<Var("a", TName("number")), Var("b", Dict0)>>)
FnType == N("fn type", "", <<Dict0, Shape0, TName("null")>>)
Method0 == [Fn("m", <<>>, <<Return0(<<x>>)>>) EXCEPT !.owner = "S", !.result = FnType,
                !.params = <<Var("a", Shape0), Var("b", NoType)>>]
Loop0(b) == [op |-> "loop", body |-> b]
For0(names, e, b) ==
    [op |-> IF e.op = "bin" /\ e.arg = ".." THEN "for range" ELSE "for in",
     names |-> names, over |-> e, body |-> b]
Jump0(op) == [op |-> op]
Struct0 == [op |-> "struct declaration", name |-> "S", fields |-> <<Var("p", NoType), Var("q", Dict0)>>]
Const0(e) == [op |-> "const declaration", name |-> Var("c", TName("number")), init |-> e]
Export0(d) == [op |-> "export", declaration |-> d]
Extern0(what, params) ==
    [op |-> "extern", what |-> what, name |-> "ext", params |-> params, type |-> Dict0]
Declarations ==
    {<<[op |-> "directive", name |-> "strict"], [op |-> "type", name |-> "T", type |-> FnType]>>,
     <<[op |-> "import", path |-> "m", alias |-> "n"], [op |-> "import", path |-> "m", alias |-> ""]>>,
     <<Struct0, Method0>>, <<[op |-> "enum", name |-> "E", variants |-> <<"A", "B">>]>>,
     <<Export0(Fn("f", <<"a">>, <<>>)), Export0(Const0(Num("1")))>>,
     <<Extern0("const", <<>>), Extern0("fn", <<Var("a", Shape0), Var("b", FnType)>>)>>,
     <<[Let(<<"v", "w">>, NoInit) EXCEPT !.types = <<Dict0, Shape0>>], Assign0(Id("type"), x)>>,
     <<For0(<<"i">>, Bin("..", x, Bin("+", y, Num("1"))), <<Jump0("break")>>)>>,
     <<For0(<<"k", "v">>, o, <<If0(x, <<Jump0("continue")>>, <<>>)>>), Loop0(<<Return0(<<>>)>>)>>,
     <<If0(x, <<>>, <<If0(y, <<Show0>>, <<If0(o, <<>>, <<Show0>>)>>)>>), Show0>>,
     <<Let(<<"v">>, [Fn("", <<"a">>, <<Return0(<<Call0(Fn("", <<>>, <<>>), <<>>)>>)>>) EXCEPT !.result = Shape0])>>}

\* Interpolated strings, as they are written and as they are parsed
TextOf(e) == N("text", "", <<Str("a"), e, Get0(o, K)>>)
Joined(e) ==
    LET Shown(t) == Call0(Id("__builtin_tostring"), <<t>>)
    IN  Bin("+", Bin("+", Str("a"), Shown(e)), Shown(Get0(o, K)))
Texts ==
    {[kind |-> "declarations", written |-> <<Let(<<"v">>, TextOf(e)), Show0>>,
      ast |-> <<Let(<<"v">>, Joined(e)), Show0>>] : e \in {Less, N("dict", "", <<Pair(K, x)>>), Try(F(<<x>>))}}

\* A source with the i-th token left out, repeated or unreadable
Bad == [kind |-> "bad", text |-> "", parts |-> <<>>, line |-> 1]
Damages(s) ==
    LET t == s.tokens
    IN  {[s EXCEPT !.kind = "unknown", !.ast = <<>>, !.tokens = d] :
            d \in UNION {{RemoveAt(t, i), InsertAt(t, i, t[i]), ReplaceAt(t, i, Bad)} : i \in 1 .. Len(t) - 1}}

\* No programs: an end or a parenthesis too many or too few, a range with two
\* variables, a target that is none, and an error inside a string
Broken ==
    {<<Loop0(<<Show0>>), Jump0("end")>>, <<Fn("f", <<>>, <<Jump0("else")>>)>>,
     <<For0(<<"k", "v">>, Bin("..", x, y), <<Show0>>)>>,
     <<Assign0(F(<<x>>), y), Show0>>, <<Compound0("+", Bin("+", x, y), y)>>,
     <<Expr(N("text", "", <<Str("a"), Bin("+", x, N("const", ")", <<>>))>>)), Show0>>,
     <<Expr(N("text", "", <<N("const", "bad", <<>>), x>>))>>, <<Show0, Expr(N("const", "bad", <<>>))>>}

\* Not a struct: a token in it that is no field is never consumed.
Damageable == {d \in Declarations : \A i \in DOMAIN d : d[i].op # "struct declaration"}

Written0(asts) == {Tree("declarations", a) : a \in asts}
SyntaxTrees ==
    Written0({<<Let(<<"v">>, e)>> : e \in Nested} \cup Comparisons \cup Declarations)
    \cup Texts \cup {Tree("damaged", a) : a \in Broken}
DamagedSources ==
    UNION {Damages(s) : s \in AsSources(Texts \cup Written0(Comparisons \cup Damageable))}
=============================================================================
