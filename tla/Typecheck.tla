------------------------------ MODULE Typecheck ------------------------------
(***************************************************************************)
(* The checker of a file that says !strict (src/src/typecheck.c): it       *)
(* collects the declarations of the file, then goes through its statements *)
(* once, in order, and gives every expression a type.                      *)
(*                                                                         *)
(* The syntax is the parser's.  A type has an op: any, unknown, null,      *)
(* bool, number, string, array(element), dict(key, value),                 *)
(* function(parameters and result; whether it is variadic), shape(fields), *)
(* struct(name), whose fields the checker keeps, and opaque(name), a       *)
(* struct with no fields: the name of a type that is not declared so far.  *)
(***************************************************************************)
EXTENDS Integers, SequencesExt

T(op, arg, kids) == [op |-> op, arg |-> arg, kids |-> kids]
Primitives == {"any", "unknown", "null", "bool", "number", "string"}
Anything     == T("any", "", <<>>)
Unknown == T("unknown", "", <<>>)
Nothing == T("null", "", <<>>)
Boolean == T("bool", "", <<>>)
Number  == T("number", "", <<>>)
String  == T("string", "", <<>>)
None    == T("none", "", <<>>)
Function(params, result) == T("function", "", Append(params, result))

Numeric(t)  == t.op \in {"number", "any"}
Stringy(t)  == t.op \in {"string", "any"}
IsStruct(t) == t.op \in {"struct", "opaque"}
Parameters(f)   == Front(f.kids)
Result(f)   == Last(f.kids)

(* The struct Checker: symbols, aliases and fields of structs, the depth   *)
(* of scopes, what the function being checked returns, whether there was   *)
(* an error; the type of what was checked last, and of several.            *)
Fields(C, t) ==
    CASE t.op = "shape" -> t.kids [] t.op = "struct" -> C.structs[t.arg] [] OTHER -> <<>>
FieldAt(C, t, name) == SelectInSeq(Fields(C, t), LAMBDA f : f.name = name)

\* find_symbol_ns: an ordinary name is lexical first, then global.
Symbol(C, name, explicit) ==
    LET global == SelectLastInSeq(C.symbols, LAMBDA s : s.global /\ s.name = name)
        local  == SelectLastInSeq(C.symbols, LAMBDA s : ~s.global /\ s.name = name)
    IN  IF explicit \/ local = 0 THEN global ELSE local

\* add_symbol_ns: one of the same scope is replaced.
WithSymbol(C, name, type, annotated, const, global) ==
    LET depth == IF global THEN 0 ELSE C.depth
        new == [name |-> name, type |-> type, annotated |-> annotated, const |-> const,
                global |-> global, depth |-> depth]
        old == SelectLastInSeq(C.symbols, LAMBDA s :
                   s.depth = depth /\ s.global = global /\ s.name = name)
    IN  [C EXCEPT !.symbols = IF old = 0 THEN Append(@, new) ELSE [@ EXCEPT ![old] = new]]
WithVariable(C, name, type) == WithSymbol(C, name, type, FALSE, FALSE, FALSE)
WithAlias(C, name, type)    == [C EXCEPT !.aliases = (name :> type) @@ @]

BeginScope(C) == [C EXCEPT !.depth = @ + 1]
EndScope(C) ==
    [C EXCEPT !.symbols = SelectSeq(@, LAMBDA s : s.global \/ s.depth # C.depth), !.depth = @ - 1]

\* resolve_named_type
Named(C, name) ==
    LET s == Symbol(C, name, FALSE)
    IN  CASE name \in DOMAIN C.aliases -> C.aliases[name]
          [] name \notin DOMAIN C.aliases /\ s # 0 /\ IsStruct(C.symbols[s].type) -> C.symbols[s].type
          [] OTHER -> IF name \in Primitives THEN T(name, "", <<>>) ELSE T("opaque", name, <<>>)

\* convert_type_ref: what has no type may be anything.
RECURSIVE Converted(_, _)
Converted(C, ref) ==
    LET kids == [i \in DOMAIN ref.kids |-> Converted(C, ref.kids[i])]
    IN  CASE ref.op = "none"       -> Anything
          [] ref.op = "name"       -> Named(C, ref.arg)
          [] ref.op = "array type" -> T("array", "", kids)
          [] ref.op = "dict type"  -> T("dict", "", kids)
          [] ref.op = "fn type"    -> T("function", "", kids)
          [] ref.op = "shape"      ->
                T("shape", "", [i \in DOMAIN ref.kids |->
                    [name |-> ref.kids[i].name, type |-> Converted(C, ref.kids[i].type)]])
ConvertedEach(C, vars) == [i \in DOMAIN vars |-> Converted(C, vars[i].type)]

\* types_compatible: may a value of type a stand where e is expected?
RECURSIVE Compatible(_, _, _)
Compatible(C, e, a) ==
    LET Each(n) == \A i \in 1 .. n : Compatible(C, e.kids[i], a.kids[i])
        Has(f)  == LET i == FieldAt(C, a, f.name)
                   IN  i # 0 /\ Compatible(C, f.type, Fields(C, a)[i].type)
        fewer   == IF Len(Parameters(e)) < Len(Parameters(a)) THEN Len(Parameters(e)) ELSE Len(Parameters(a))
    IN  CASE e.op = "any" \/ a.op = "any" \/ e.op = "unknown" -> TRUE
          [] a.op = "unknown" -> FALSE
          [] e.op = "shape" -> (a.op = "shape" \/ IsStruct(a)) /\ \A i \in DOMAIN e.kids : Has(e.kids[i])
          [] e.op = "dict" /\ a.op = "shape" ->
                /\ Compatible(C, e.kids[1], String)
                /\ \A i \in DOMAIN a.kids : Compatible(C, e.kids[2], a.kids[i].type)
          [] IsStruct(e) -> IsStruct(a) /\ e.arg = a.arg
          [] e.op # a.op -> FALSE
          [] e.op \in {"array", "dict"} -> Each(Len(e.kids))
          [] e.op = "function" -> /\ e.arg = "variadic" \/ Len(e.kids) = Len(a.kids)
                                  /\ Each(fewer) /\ Compatible(C, Result(e), Result(a))
          [] OTHER -> TRUE

\* join_element_type
Joined(C, a, b) ==
    CASE a = None -> b
      [] a # None /\ Compatible(C, a, b) /\ Compatible(C, b, a) -> a
      [] OTHER -> Anything
-----------------------------------------------------------------------------
(* Expressions.  Check leaves the type in C.type.                          *)

RECURSIVE Check(_, _)
Require(C, b)  == [C EXCEPT !.errors = @ \/ ~b]
Is(C, t)       == [C EXCEPT !.type = t]
Wrong(C)       == Is(Require(C, FALSE), Unknown)
\* check_assignable
Expect(C, e, a) == Require(C, Compatible(C, e, a))
CheckEach(C, nodes) ==
    FoldLeft(LAMBDA D, n : LET E == Check(D, n) IN [E EXCEPT !.types = Append(D.types, E.type)],
             [C EXCEPT !.types = <<>>], nodes)
\* An expression that has to have a type
CheckAs(C, n, t) == LET D == Check(C, n) IN Expect(D, t, D.type)
CheckEachAs(C, nodes, t) == FoldLeft(LAMBDA D, n : CheckAs(D, n, t), C, nodes)

\* Names and values of the pairs of a literal
Keys(e)   == [i \in DOMAIN e.kids |-> e.kids[i].kids[1]]
Values(e) == [i \in DOMAIN e.kids |-> e.kids[i].kids[2]]

\* check_literal_against_expected: a literal is checked again, item by item,
\* against the type it is for.
CheckLiteral(C, e, t) ==
    LET Field(D, f) ==
            LET i == SelectInSeq(Keys(e), LAMBDA k : k.arg = f.name)
            IN  IF i = 0 THEN Require(D, FALSE) ELSE CheckAs(D, Values(e)[i], f.type)
    IN  CASE t.op = "shape" /\ e.op = "dict"  -> FoldLeft(Field, C, t.kids)
          [] t.op = "array" /\ e.op = "array" -> CheckEachAs(C, e.kids, t.kids[1])
          [] t.op = "dict" /\ e.op = "dict"   ->
                CheckEachAs(CheckEachAs(C, Keys(e), t.kids[1]), Values(e), t.kids[2])
          [] OTHER -> C

CheckName(C, e) ==
    LET s == Symbol(C, e.arg, e.op = "@")
    IN  IF s = 0 THEN Wrong(C) ELSE Is(C, C.symbols[s].type)

\* The type of an array's items or of a dict's values
CheckItems(C, items) ==
    LET D == CheckEach(C, items)
    IN  Is(D, IF items = <<>> THEN Unknown ELSE FoldLeft(LAMBDA a, b : Joined(D, a, b), None, D.types))

\* The name of a struct is that of the function that makes one.
CheckStruct(C, e) ==
    LET s   == Symbol(C, e.arg, FALSE)
        out == Result(C.symbols[s].type)
        Field(D, i) ==
            LET f == FieldAt(D, out, Keys(e)[i].arg)
            IN  IF f = 0 THEN Require(D, FALSE) ELSE CheckAs(D, Values(e)[i], Fields(D, out)[f].type)
    IN  IF s = 0 \/ C.symbols[s].type.op # "function" THEN Wrong(C)
        ELSE IF IsStruct(out) THEN Is(FoldLeftDomain(Field, C, e.kids), out) ELSE Is(C, out)

CheckBinary(C, e) ==
    LET D == CheckEach(C, e.kids)
        a == D.types[1]
        b == D.types[2]
        numbers == Numeric(a) /\ Numeric(b)
    IN  CASE e.arg = "+" /\ numbers -> Is(D, Number)
          [] e.arg = "+" /\ ~numbers /\ Stringy(a) /\ Stringy(b) -> Is(D, String)
          [] e.arg = "+" /\ ~numbers /\ ~(Stringy(a) /\ Stringy(b)) -> Is(Require(D, Anything \in {a, b}), Anything)
          [] e.arg \in {"-", "*", "/", "%"}    -> Is(Require(D, numbers), Number)
          [] e.arg \in {"<", "<=", ">", ">="}  -> Is(Require(D, numbers), Boolean)
          [] e.arg \in {"..", "..="}           -> Is(Require(D, numbers), Anything)
          [] e.arg \in {"==", "!="}            -> Is(D, Boolean)

\* The side that a literal leaves, or what both sides have in common
CheckLogic(C, e) ==
    LET D == CheckEach(C, e.kids)
        l == e.kids[1]
        first == l.arg = (IF e.arg = "and" THEN "false" ELSE "true")
    IN  IF l.op = "const" /\ l.arg # "null" THEN Is(D, D.types[IF first THEN 1 ELSE 2])
        ELSE Is(D, Joined(D, D.types[1], D.types[2]))

CheckArgument(C, arg, t) ==
    LET D == Check(C, arg)
        L == CheckLiteral(D, arg, t)
    IN  IF t.op = "shape" /\ arg.op = "dict" THEN L ELSE Expect(L, t, D.type)

CheckCall(C, e) ==
    LET F    == Check(C, e.kids[1])
        f    == F.type
        args == Tail(e.kids)
        Arg(D, i) == IF i <= Len(Parameters(f)) THEN CheckArgument(D, args[i], Parameters(f)[i])
                     ELSE Check(D, args[i])
        enough == IF f.arg = "variadic" THEN Len(args) >= Len(Parameters(f)) ELSE Len(args) = Len(Parameters(f))
    IN  CASE f.op = "any"      -> Is(CheckEach(F, args), Anything)
          [] f.op = "function" -> Is(FoldLeftDomain(Arg, Require(F, enough), args), Result(f))
          [] OTHER             -> Wrong(CheckEach(F, args))

CheckIndex(C, e) ==
    LET D == CheckEach(C, e.kids)
        o == D.types[1]
        k == D.types[2]
        f == FieldAt(D, o, e.kids[2].arg)
    IN  CASE o.op = "any"    -> Is(D, Anything)
          [] o.op = "array"  -> Is(Require(D, Numeric(k)), o.kids[1])
          [] o.op = "dict"   -> Is(Expect(D, o.kids[1], k), o.kids[2])
          [] o.op = "string" -> Is(Require(D, Numeric(k)), String)
          [] o.op = "shape"  ->
                IF e.kids[2].op = "str" /\ f # 0 THEN Is(D, Fields(D, o)[f].type)
                ELSE Is(Require(D, Stringy(k) /\ e.kids[2].op # "str"), Unknown)
          [] OTHER -> Wrong(D)

CheckField(C, e) ==
    LET D == Check(C, e.kids[1])
        o == D.type
        f == FieldAt(D, o, e.arg)
    IN  CASE o.op = "any"  -> D
          [] o.op = "dict" -> Is(D, o.kids[2])
          [] o.op = "shape" \/ IsStruct(o) -> IF f = 0 THEN Wrong(D) ELSE Is(D, Fields(D, o)[f].type)
          [] OTHER -> Wrong(D)
-----------------------------------------------------------------------------
(* Statements                                                              *)

\* function_type_from_decl: a method is called without its first parameter.
FunctionType(C, fn) ==
    LET params == ConvertedEach(C, fn.params)
    IN  Function(IF fn.owner # "" /\ params # <<>> THEN Tail(params) ELSE params, Converted(C, fn.result))

WithFunction(C, fn) ==
    IF fn.owner # "" \/ fn.name = "" THEN C
    ELSE WithSymbol(C, fn.name, FunctionType(C, fn), fn.result.op # "none", TRUE, FALSE)

\* A function that is declared has a name, also in its own body; one in an
\* expression has none.
CheckDeclaration(C, s) == Check(IF s.op = "fn" THEN WithFunction(C, s) ELSE C, s)
CheckBlock(C, body)  == FoldLeft(CheckDeclaration, C, body)
CheckScope(C, body)  == EndScope(CheckBlock(BeginScope(C), body))
\* A scope with variables that have types
CheckWith(C, names, type, body) ==
    EndScope(CheckScope(FoldLeft(LAMBDA D, n : WithVariable(D, n, type), BeginScope(C), names), body))

\* Names with types and what the first of them begins with; the literals of
\* containers have been checked item by item.
CheckVariables(C, names, types, init, const, global) ==
    LET D == IF init.op = "none" THEN Is(C, Nothing) ELSE Check(C, init)
        t == IF types[1].op = "none" THEN D.type ELSE Converted(D, types[1])
        L == CheckLiteral(D, init, t)
        checked == \/ t.op \in {"shape", "dict"} /\ init.op = "dict"
                   \/ t.op = "array" /\ init.op = "array"
        E == CASE types[1].op = "none" -> D [] types[1].op # "none" /\ checked -> L
               [] OTHER -> Expect(L, t, D.type)
        Declared(F, i) ==
            WithSymbol(F, names[i], IF i = 1 THEN t ELSE Converted(F, types[i]),
                       types[i].op # "none", const, global)
    IN  FoldLeftDomain(Declared, E, names)

\* Mutant of CheckBody: what the function returned last is what the one
\* around it returns from then on.
CheckBodyForgetting(C, fn, type) ==
    LET P == FoldLeft(LAMBDA D, p : WithSymbol(D, p.name, Converted(D, p.type), p.type.op # "none", FALSE, FALSE),
                      BeginScope(C), fn.params)
    IN  EndScope(CheckBlock([P EXCEPT !.returns = Result(type)], fn.body))
\* check_function_body_with_type
CheckBody(C, fn, type) ==
    LET P == FoldLeft(LAMBDA D, p : WithSymbol(D, p.name, Converted(D, p.type), p.type.op # "none", FALSE, FALSE),
                      BeginScope(C), fn.params)
        B == CheckBlock([P EXCEPT !.returns = Result(type)], fn.body)
    IN  EndScope([B EXCEPT !.returns = C.returns])

CheckFunction(C, fn) == LET type == FunctionType(C, fn) IN Is(CheckBody(C, fn, type), type)

CheckReturn(C, s) ==
    LET D == IF s.values = <<>> THEN Is(C, Nothing) ELSE Check(C, s.values[1])
        E == IF C.returns = None THEN D ELSE Expect(D, C.returns, D.type)
    IN  IF s.values = <<>> THEN E ELSE CheckEach(E, Tail(s.values))

\* An assignment is an expression to the parser, but not to check_expr: it is
\* not looked at (check_assignment_target is never called).
CheckStatement(C, s) ==
    CASE s.op = "expr"   -> Check(C, s.e)
      [] s.op \in {"let", "global"} -> CheckVariables(C, s.names, s.types, s.init, FALSE, s.op = "global")
      [] s.op = "const declaration" ->
            CheckVariables(C, <<s.name.name>>, <<s.name.type>>, s.init, TRUE, FALSE)
      [] s.op = "if"     -> CheckScope(CheckScope(Check(C, s.cond), s.then), s.else)
      [] s.op = "loop"   -> CheckScope(C, s.body)
      [] s.op = "for range" -> CheckWith(CheckEach(C, s.over.kids), s.names, Number, s.body)
      [] s.op = "for in" -> CheckWith(Check(C, s.over), s.names, Anything, s.body)
      [] s.op = "return" -> CheckReturn(C, s)
      [] s.op = "catch"  -> CheckWith(CheckScope(C, s.body), <<s.name>>, Anything, s.handler)
      [] s.op = "defer"  -> Check(C, s.call)
      [] s.op = "import" -> WithVariable(C, IF s.alias = "" THEN s.path ELSE s.alias, Anything)
      [] s.op = "export" -> CheckDeclaration(C, s.declaration)
      [] OTHER           -> C

Check(C, e) ==
    CASE e.op = "num" -> Is(C, Number)
      [] e.op = "str" -> Is(C, String)
      [] e.op = "const" -> Is(C, IF e.arg = "null" THEN Nothing ELSE Boolean)
      [] e.op \in {"id", "@"} -> CheckName(C, e)
      [] e.op = "array" -> LET D == CheckItems(C, e.kids) IN Is(D, T("array", "", <<D.type>>))
      [] e.op = "dict"  -> LET D == CheckItems(C, Values(e)) IN Is(D, T("dict", "", <<String, D.type>>))
      [] e.op = "struct" -> CheckStruct(C, e)
      [] e.op = "neg"   -> LET D == Check(C, e.kids[1]) IN Is(Require(D, Numeric(D.type)), Number)
      [] e.op = "not"   -> Is(Check(C, e.kids[1]), Boolean)
      [] e.op = "bin"   -> CheckBinary(C, e)
      [] e.op = "logic" -> CheckLogic(C, e)
      [] e.op = "call"  -> CheckCall(C, e)
      [] e.op = "index" -> CheckIndex(C, e)
      [] e.op = "field" -> CheckField(C, e)
      [] e.op = "try"   -> Check(C, e.kids[1])
      [] e.op = "tryblock" -> Is(CheckScope(C, e.kids), Anything)
      [] e.op = "fn"    -> CheckFunction(C, e)
      [] OTHER          -> CheckStatement(C, e)
-----------------------------------------------------------------------------
(* Files                                                                   *)

\* register_builtins_for_checker: some of them
Builtins == <<[name |-> "print", type |-> T("function", "variadic", <<Nothing>>)],
              [name |-> "len", type |-> Function(<<Anything>>, Number)],
              [name |-> "tostring", type |-> Function(<<Anything>>, String)]>>

\* The functions of a struct are fields of it, the last of a name counts.
WithMethod(C, fn) ==
    LET method == [name |-> fn.name, type |-> FunctionType(C, fn)]
        known  == fn.owner \in DOMAIN C.aliases /\ C.aliases[fn.owner].op = "struct"
        i      == FieldAt(C, C.aliases[fn.owner], fn.name)
        owner  == C.aliases[fn.owner].arg
    IN  CASE ~known -> C
          [] known /\ i = 0 -> [C EXCEPT !.structs[owner] = Append(@, method)]
          [] OTHER -> [C EXCEPT !.structs[owner][i] = method]

\* collect_declaration: what may be used before it is declared
RECURSIVE Collect(_, _)
Collect(C, s) ==
    LET params == ConvertedEach(C, s.params)
        fields == ConvertedEach(C, s.fields)
        struct == T("struct", s.name, <<>>)
        Struct(D) == [D EXCEPT !.structs = (s.name :> [i \in DOMAIN fields |->
                         [name |-> s.fields[i].name, type |-> fields[i]]]) @@ @]
    IN  CASE s.op = "export" -> Collect(C, s.declaration)
          [] s.op = "type"   -> WithAlias(C, s.name, Converted(C, s.type))
          [] s.op = "struct declaration" ->
                WithAlias(WithSymbol(Struct(C), s.name, Function(fields, struct), TRUE, TRUE, FALSE),
                          s.name, struct)
          [] s.op = "fn" -> IF s.owner # "" THEN WithMethod(C, s) ELSE WithFunction(C, s)
          [] s.op = "extern" ->
                WithSymbol(C, s.name, IF s.what = "const" THEN Converted(C, s.type)
                                      ELSE Function(params, Converted(C, s.type)), TRUE, TRUE, TRUE)
          [] OTHER -> C

Says(ast, directive) == \E i \in DOMAIN ast : ast[i].op = "directive" /\ ast[i].name = directive

Checker ==
    FoldLeft(LAMBDA C, b : WithSymbol(C, b.name, b.type, TRUE, TRUE, TRUE),
             [symbols |-> <<>>, aliases |-> <<>>, structs |-> <<>>, depth |-> 0,
              returns |-> None, errors |-> FALSE, type |-> None, types |-> <<>>], Builtins)

\* mg_typecheck_ast
Accepts(ast) ==
    \/ Says(ast, "nocheck") \/ ~Says(ast, "strict")
    \/ ~CheckBlock(FoldLeft(Collect, Checker, ast), ast).errors
=============================================================================
