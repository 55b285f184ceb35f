------------------------------ MODULE MCTypes ------------------------------
(***************************************************************************)
(* Files that say !strict: what is declared with a type, and values of     *)
(* every kind in every place, those that fit it and those that do not.     *)
(* What is assigned is always of the type of the variable: the checker     *)
(* does not look at it.                                                    *)
(***************************************************************************)
EXTENDS MCSyntax

NumberT == TName("number")
StringT == TName("string")
BoolT   == TName("bool")
NullT   == TName("null")
StructT == TName("S")
ArrayT  == N("array type", "", <<NumberT>>)
DictT   == N("dict type", "", <<StringT, NumberT>>)
ShapeT  == N("shape", "", <<Var("p", NumberT)>>)
FnT     == N("fn type", "", <<NumberT, NumberT>>)
AllTypes == {NumberT, StringT, BoolT, NullT, StructT, ArrayT, DictT, ShapeT, FnT, TName("P"), TName("unknown")}

One   == Num("1")
Text0 == Str("p")
True0 == N("const", "true", <<>>)
Null0 == N("const", "null", <<>>)
DictOf(e)  == N("dict", "", <<Pair(Text0, e)>>)
MadeOf(e)  == N("struct", "S", <<Pair(Text0, e)>>)
Inc        == Id("inc")
Basic  == {One, Text0, True0, Null0, Array(<<One>>), DictOf(One), MadeOf(One), Inc}
Values0 == Basic \cup {Call0(Inc, <<One>>), Call0(Inc, <<Text0>>), Call0(Inc, <<>>), MadeOf(Text0),
                       Call0(Id("S"), <<One>>), Call0(Id("tostring"), <<One>>)}

TypedLet(name, t, e)    == [Let(<<name>>, e) EXCEPT !.types = <<t>>]
TypedGlobal(name, t, e) == [Global(<<name>>, e) EXCEPT !.types = <<t>>]
TypedFn(name, params, result, body) ==
    [Fn(name, <<>>, body) EXCEPT !.params = params, !.result = result]
Strict == [op |-> "directive", name |-> "strict"]
Prelude ==
    <<Strict, [op |-> "type", name |-> "P", type |-> ShapeT],
      [Struct0 EXCEPT !.fields = <<Var("p", NumberT)>>],
      [TypedFn("m", <<Var("self", StructT), Var("a", NumberT)>>, NumberT,
                 <<Return0(<<Bin("+", Field(Id("self"), "p"), Id("a"))>>)>>) EXCEPT !.owner = "S"],
      TypedFn("inc", <<Var("a", NumberT)>>, NumberT, <<Return0(<<Bin("+", Id("a"), One)>>)>>)>>
Program(kind, statements) == Tree(kind, Prelude \o statements)

V0 == Id("v")
R0 == Id("r")
W0 == Id("w")
Ok == Bin("<", One, Num("2"))
IsDict(e) == e.op = "dict"

Operators ==
    {Program("exact", <<Let(<<"v">>, a), Let(<<"w">>, b), TypedLet("r", t, Bin(op, V0, W0))>>) :
        a \in Basic, b \in Basic, op \in {"+", "-", "<", "=="}, t \in {NumberT, StringT, BoolT}}
    \cup {Program("exact", <<Let(<<"v">>, a), TypedLet("r", t, e)>>) :
        a \in Basic, t \in {NumberT, BoolT}, e \in Unaries(V0)}
    \cup {Program("exact", <<Let(<<"v">>, a), TypedLet("r", t, Logic(op, e, V0))>>) :
        a \in Basic, t \in {NumberT, BoolT, StructT, FnT}, op \in {"and", "or"},
        e \in {V0, True0, N("const", "false", <<>>)}}

\* A literal is of the type of a shape only where it is what a variable or an
\* argument begins with.  A struct is not taken for a shape and then a dict.
Variables0 ==
    {Program("exact", <<TypedLet("r", t, a), TypedLet("s", u, R0)>>) :
        a \in Values0, t \in AllTypes \ {ShapeT, TName("unknown")}, u \in {NumberT, BoolT, FnT}}
    \cup {Program("strict", <<TypedLet("r", t, a), TypedLet("s", u, R0)>>) :
        a \in Values0, t \in {TName("unknown"), ShapeT}, u \in AllTypes \ {DictT}}
Arguments ==
    {Program("strict", <<TypedFn("take", <<Var("q", t)>>, t, <<Return0(<<Id("q")>>)>>),
                         TypedLet("r", u, Call0(Id("take"), <<a>>))>>) :
        a \in Values0, t \in AllTypes, u \in {NumberT, StructT, ShapeT}}
    \cup {Program("exact", <<TypedFn("give", <<>>, t, <<Return0(<<a>>)>>), Let(<<"r">>, Call0(Id("give"), <<>>))>>) :
        a \in {v \in Values0 : ~IsDict(v)}, t \in AllTypes}
    \cup {Program("exact", <<TypedFn("apply", <<Var("h", FnT), Var("b", NumberT)>>, NumberT,
                                    <<Return0(<<Call0(Id("h"), <<Id("b")>>)>>)>>),
                             TypedLet("r", t, Call0(Id("apply"), <<f, a>>))>>) :
        a \in {One, Text0}, t \in {NumberT, StringT},
        f \in Basic \cup {TypedFn("", ps, NumberT, <<Return0(<<One>>)>>) :
                            ps \in {<<>>, <<Var("a", NumberT)>>, <<Var("a", NumberT), Var("b", NumberT)>>}}}

PartAt(v, at) ==
    CASE at = "0"  -> Get0(v, Num("0"))
      [] at = "p"  -> Get0(v, Text0)
      [] at = ".p" -> Field(v, "p")

\* What is in an array, a dict, a shape or a struct: read, or changed first.  A
\* struct is not indexed.
Parts ==
    {Program("exact", <<Let(<<"v">>, a), TypedLet("r", t, e)>>) :
        a \in {v \in Basic : v.op # "struct"}, t \in {NumberT, StringT},
        e \in {Get0(V0, Num("0")), Get0(V0, Text0), Field(V0, "p"), Call0(V0, <<One>>)}}
    \cup {Program("exact", <<Let(<<"v">>, MadeOf(One)), TypedLet("r", t, e)>>) :
        t \in {NumberT, StringT},
        e \in {Field(V0, "p"), Field(V0, "q"), Call0(V0, <<One>>), Call0(Field(V0, "m"), <<One>>),
               Call0(Field(V0, "m"), <<Text0>>), Call0(Field(V0, "m"), <<>>), Call0(Field(V0, "n"), <<>>)}}
    \cup {Program("exact", <<TypedLet("v", ta[1], ta[2]), Assign0(PartAt(V0, at), One), TypedLet("r", t, PartAt(V0, at))>>) :
        t \in {NumberT, StringT}, at \in {"0", "p", ".p"},
        ta \in {<<ArrayT, Array(<<One>>)>>, <<DictT, DictOf(One)>>, <<ShapeT, DictOf(One)>>}}

\* The name of a variable again: in a branch, a loop, a function, as a global
Again == TypedLet("v", StringT, Text0)
Scopes ==
    {Program("exact", <<TypedLet("v", NumberT, One)>> \o hidden \o <<TypedLet("r", t, V0)>>) :
        t \in {NumberT, StringT},
        hidden \in {<<>>, <<If0(Ok, <<Again>>, <<>>)>>, <<If0(Ok, <<>>, <<Again, TypedLet("r", StringT, V0)>>)>>,
                    <<For0(<<"i">>, Bin("..", Num("0"), Num("2")), <<Again>>)>>, <<Again>>,
                    <<TypedFn("k", <<>>, StringT, <<Again, Return0(<<V0>>)>>), TypedLet("s", StringT, Call0(Id("k"), <<>>))>>,
                    <<TypedFn("k", <<Var("v", StringT)>>, StringT, <<Return0(<<V0>>)>>)>>,
                    <<TypedGlobal("v", StringT, Text0)>>,
                    <<TypedGlobal("v", StringT, Text0), Assign0(N("@", "v", <<>>), Text0), Assign0(V0, One)>>,
                    <<TypedGlobal("v", StringT, Text0), TypedLet("s", StringT, N("@", "v", <<>>))>>}}
    \cup {Program("exact", <<TypedLet("i", StringT, Text0), For0(<<"i">>, Bin("..", Num("0"), Num("2")), <<TypedLet("s", t, Id("i"))>>),
                             TypedLet("r", u, Id("i"))>>) : t \in {NumberT, StringT}, u \in {NumberT, StringT}}
    \cup {Program("exact", <<TypedFn("outer", <<>>, t, <<Let(<<"h">>, TypedFn("", <<>>, NumberT, <<Return0(<<a>>)>>)),
                                                       TypedLet("s", NumberT, Call0(Id("h"), <<>>)),
                                                       If0(Ok, <<Return0(<<b>>)>>, <<>>), Return0(<<b>>)>>),
                             TypedLet("r", u, Call0(Id("outer"), <<>>))>>) :
        a \in {One, Text0}, b \in {One, Text0, MadeOf(One), Inc}, t \in {NumberT, StringT, FnT}, u \in {NumberT, StringT}}
\* Constants, exports, aliases, and containers of containers
Arrays(t) == N("array type", "", <<t>>)
Others ==
    {Program("exact", <<d, TypedLet("r", t, Id("c"))>>) :
        t \in {NumberT, StringT, FnT},
        d \in {Const0(a) : a \in Basic} \cup {Export0(Const0(a)) : a \in Basic}
              \cup {Export0(TypedFn("c", <<Var("a", NumberT)>>, NumberT, <<Return0(<<Id("a")>>)>>))}}
    \cup {Program("exact", <<[op |-> "type", name |-> "Q", type |-> q], TypedLet("r", TName("Q"), a), TypedLet("s", t, R0)>>) :
        q \in {NumberT, ArrayT, FnT, StructT}, a \in Basic, t \in {TName("Q"), NumberT, ArrayT, FnT, StructT}}
    \cup {Program("exact", <<TypedLet("v", Arrays(Arrays(t)), Array(<<Array(<<a>>)>>)),
                             Let(<<"w">>, Get0(V0, Num("0"))), TypedLet("r", u, Get0(W0, Num("0"))), TypedLet("s", Arrays(u), W0)>>) :
        a \in Basic, t \in {NumberT, StructT}, u \in {NumberT, StructT}}
    \cup {Program("exact", <<TypedLet("v", N("dict type", "", <<StringT, Arrays(t)>>), DictOf(Array(<<a>>))),
                             TypedLet("r", u, Get0(Field(V0, "p"), Num("0")))>>) :
        a \in Basic, t \in {NumberT, BoolT}, u \in {NumberT, BoolT}}
TypeTrees(f) ==
    CASE f[2] = "operators" -> Operators [] f[2] = "variables" -> Variables0
      [] f[2] = "arguments" -> Arguments [] f[2] = "parts" -> Parts
      [] f[2] = "scopes" -> Scopes [] f[2] = "others" -> Others
TypeFamilies == {<<"types", n>> : n \in {"operators", "variables", "arguments", "parts", "scopes", "others"}}
=============================================================================
