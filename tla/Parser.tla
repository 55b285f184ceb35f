------------------------------- MODULE Parser -------------------------------
(***************************************************************************)
(* The recursive-descent parser (src/src/parser.c): one token of lookahead *)
(* and, where a token can begin two things, a scan ahead of it; precedence *)
(* climbing; panic mode and synchronisation after an error.                *)
(*                                                                         *)
(* It builds the syntax that Statements describes and the declarations and *)
(* loops that it does not: records with an op and fields of their own.     *)
(***************************************************************************)
EXTENDS Statements

(* The struct ParserState: the tokens of the source, the current one, and  *)
(* whether an error was found (had_error) and is being recovered from      *)
(* (panic_mode).  node is what was parsed last.  hung: the parser is in a  *)
(* loop that consumes nothing.  A token has a kind, a text and a line, and *)
(* that of an interpolated string has parts; "bad" is TOKEN_ERROR.         *)

Kind(S) == S.toks[S.at].kind
Peek(S) == S.toks[S.at + 1]             \* peek_next_token
Text(S) == S.toks[S.at - 1].text        \* of ps.previous
AtEnd(S) == Kind(S) = "eof"

\* error_at: messages are suppressed in panic mode.
Fail(S) == [S EXCEPT !.error = TRUE, !.panic = TRUE]
Hang(S) == [S EXCEPT !.hung = TRUE, !.at = Len(S.toks)]

RECURSIVE Advance(_)
Advance(S) ==
    LET T == [S EXCEPT !.at = @ + 1]
    IN  IF S.at = Len(S.toks) THEN S ELSE IF Kind(T) = "bad" THEN Advance(Fail(T)) ELSE T

Open(toks) ==
    Advance([toks |-> toks, at |-> 0, node |-> Null, error |-> FALSE, panic |-> FALSE, hung |-> FALSE])

Consume(S, kind) == IF Kind(S) = kind THEN Advance(S) ELSE Fail(S)
Made(S, node)    == [S EXCEPT !.node = node]

\* synchronize
Boundaries == {"let", "const", "fn", "struct", "enum", "if", "for", "loop", "return", "defer",
               "import", "export", "end", "eof"}
RECURSIVE Skip(_)
Skip(S) == IF Kind(S) \in Boundaries THEN S ELSE Skip(Advance(S))
Synchronize(S) == IF S.panic THEN Skip([S EXCEPT !.panic = FALSE]) ELSE S

\* get_infix_precedence
Power(kind) ==
    CASE kind = "or"                       -> 2
      [] kind = "and"                      -> 3
      [] kind \in {"==", "!="}             -> 4
      [] kind \in {"<", ">", "<=", ">="}   -> 5
      [] kind \in {"..", "..="}            -> 6
      [] kind \in {"+", "-"}               -> 7
      [] kind \in {"*", "/", "%"}          -> 8
      [] OTHER                             -> 0

Openers == {"(", "[", "{"}
Closers == {")", "]", "}"}
OperandStarts == {"number", "string", "interp", "true", "false", "null", "id", "@", "&", "fn", "try"}
Stops == {"bad", "eof", "then", "end", "else", "elseif", "catch", ",", ";"}

\* less_starts_dict_index: a > closes the index when no operand follows it
\* on its line.  Mutant: whatever follows it.
AnyCloses(toks, i) == TRUE
Closes(toks, i) ==
    ~(toks[i + 1].kind \in OperandStarts /\ toks[i + 1].line = toks[i].line)

RECURSIVE ClosedAhead(_, _, _)
ClosedAhead(toks, i, depth) ==
    LET kind == toks[i].kind
    IN  CASE kind \in {"bad", "eof"} \/ (depth = 0 /\ kind \in Stops \cup Closers) -> FALSE
          [] depth = 0 /\ kind = ">" -> Closes(toks, i)
          [] OTHER -> ClosedAhead(toks, i + 1, CASE kind \in Openers -> depth + 1
                                                 [] kind \in Closers -> depth - 1
                                                 [] OTHER -> depth)
LessStartsDictIndex(S) ==
    Kind(S) = "<" /\ Peek(S).kind # ">" /\ ClosedAhead(S.toks, S.at + 1, 0)
-----------------------------------------------------------------------------
(* Expressions.  Parse(rule, S) leaves what it has parsed in node; a rule  *)
(* is its name and what it depends on.                                     *)

RECURSIVE Parse(_, _)
Precedence(S, min) == Parse(<<"precedence", min>>, S)
Expression(S)      == Precedence(S, 2)
TypeRef(S)         == Parse(<<"type">>, S)

\* Items with commas between them
Items(S, rule, before) ==
    LET T == Parse(rule, S)
        items == Append(before, T.node)
    IN  IF Kind(T) = "," THEN Parse(<<"items", rule, items>>, Advance(T)) ELSE Made(T, items)
ItemsOf(S, rule) == Parse(<<"items", <<rule>>, <<>>>>, S)
Enclosed(S, rule, close) ==
    Consume(IF Kind(S) = close THEN Made(S, <<>>) ELSE ItemsOf(S, rule), close)

\* parse_block stops before the token that ends it.
BlockEnds == {"end", "else", "elseif", "catch", "eof"}
Body(S, before) ==
    IF Kind(S) \in BlockEnds THEN Made(S, before)
    ELSE LET D == Parse(<<"declaration">>, S)
         IN  Parse(<<"block", Append(before, D.node)>>, Synchronize(D))
Block(S) == Parse(<<"block", <<>>>>, S)

\* parse_interp_string: the text and the expressions, joined by +.  Each
\* expression is parsed by a parser state of its own, whose error is kept.
InterpString(S, parts) ==
    LET Shown(e) == N("call", "", <<Id("__builtin_tostring"), e>>)
        Join(T, part) ==
            LET E == Expression(Open(part.tokens))
                C == IF Kind(E) = "}" THEN E ELSE Fail(E)
                e == IF part.text # "" THEN Str(part.text) ELSE Shown(C.node)
                U == IF part.text # "" THEN T ELSE [T EXCEPT !.error = @ \/ C.error]
            IN  Made(U, IF T.node = Null THEN e ELSE Bin("+", T.node, e))
    IN  IF parts = <<>> THEN Made(S, Str("")) ELSE FoldLeft(Join, Made(S, Null), parts)

\* The name and the type, if there is one, of a variable, parameter or field
NoType == N("none", "", <<>>)
Annotated(S) ==
    LET C == Consume(S, "id")
        T == TypeRef(Advance(C))
    IN  IF Kind(C) = ":" THEN Made(T, [name |-> Text(C), type |-> T.node])
        ELSE Made(C, [name |-> Text(C), type |-> NoType])

\* parse_fn_declaration, after fn: of a function, a method or a literal
Function0(S) ==
    LET named  == Kind(S) = "id"
        A      == IF named THEN Advance(S) ELSE S
        method == named /\ Kind(A) = "."
        M      == IF method THEN Consume(Advance(A), "id") ELSE A
        P      == Enclosed(Consume(M, "("), "annotated", ")")
        R      == IF Kind(P) = ":" THEN TypeRef(Advance(P)) ELSE Made(P, NoType)
        B      == Consume(Block(R), "end")
    IN  Made(B, [op |-> "fn", name |-> IF named THEN Text(M) ELSE "",
                 owner |-> IF method THEN Text(A) ELSE "",
                 params |-> P.node, result |-> R.node, body |-> B.node])

\* parse_dict_literal and the fields of a struct literal: name = value
Entry(S, min, keys) ==
    LET K == Consume(IF Kind(S) \in keys THEN Advance(S) ELSE Fail(S), "=")
        V == Precedence(K, min)
    IN  Made(V, N("pair", "", <<Str(S.toks[S.at].text), V.node>>))

\* What cannot begin an operand is passed over.  Mutant: it is not.
Kept(S)       == Made(Fail(S), Null)
PassedOver(S) == Made(Advance(Fail(S)), Null)

Primary(S) ==
    LET kind == Kind(S)
        T    == Advance(S)
        name == S.toks[S.at].text
    IN  CASE kind = "number" -> Made(T, Num(name))
          [] kind = "string" -> Made(T, Str(name))
          [] kind = "interp" -> InterpString(T, S.toks[S.at].parts)
          [] kind \in {"true", "false", "null"} -> Made(T, N("const", kind, <<>>))
          [] kind = "id" -> IF Kind(T) # "{" THEN Made(T, Id(name))
                            ELSE LET E == Enclosed(Advance(T), "field", "}")
                                 IN  Made(E, N("struct", name, E.node))
          [] kind = "@"  -> LET C == Consume(T, "id") IN Made(C, N("@", Text(C), <<>>))
          [] kind = "("  -> Consume(Expression(T), ")")
          [] kind = "["  -> LET E == Enclosed(T, "expression", "]") IN Made(E, N("array", "", E.node))
          [] kind = "&"  -> LET E == Enclosed(Consume(T, "<"), "entry", ">")
                            IN  Made(E, N("dict", "", E.node))
          [] kind = "fn" -> Function0(T)
          [] kind = "try" -> LET B == Consume(Block(T), "end") IN Made(B, N("tryblock", "", B.node))
          [] OTHER -> PassedOver(S)

\* Calls, lookups, fields and ? after an operand
Postfix(S) ==
    LET T == Advance(S)
        Next0(U, node) == Parse(<<"postfix">>, Made(U, node))
    IN  CASE Kind(S) = "(" -> LET E == Enclosed(T, "expression", ")")
                              IN  Next0(E, N("call", "", <<S.node>> \o E.node))
          [] Kind(S) = "[" -> LET E == Consume(Expression(T), "]")
                              IN  Next0(E, N("index", "", <<S.node, E.node>>))
          [] LessStartsDictIndex(S) -> LET E == Consume(Precedence(T, 6), ">")
                                       IN  Next0(E, N("index", "", <<S.node, E.node>>))
          [] Kind(S) = "." -> LET C == Consume(T, "id") IN Next0(C, N("field", Text(C), <<S.node>>))
          [] Kind(S) = "?" -> Next0(T, N("try", "", <<S.node>>))
          [] OTHER -> S

Unary0(S) ==
    IF Kind(S) \notin {"-", "!", "not"} THEN Parse(<<"postfix">>, Primary(S))
    ELSE LET T == Parse(<<"unary">>, Advance(S))
         IN  Made(T, N(IF Kind(S) = "-" THEN "neg" ELSE "not", "", <<T.node>>))

\* The operators after an operand group to the left.
Climb(S, min) ==
    LET op == Kind(S)
        R  == Precedence(Advance(S), Power(op) + 1)
    IN  IF Power(op) < min THEN S
        ELSE Parse(<<"climb", min>>,
                   Made(R, N(IF op \in {"and", "or"} THEN "logic" ELSE "bin", op, <<S.node, R.node>>)))
-----------------------------------------------------------------------------
(* Types                                                                   *)

\* Fields of a data shape and parameters of an extern function
Typed(S) ==
    LET C == Consume(S, "id")
        T == TypeRef(Consume(C, ":"))
    IN  Made(T, [name |-> Text(C), type |-> T.node])

DictType(S) ==
    LET K == TypeRef(S)
        V == TypeRef(Consume(K, ","))
    IN  Made(Consume(V, ">"), N("dict type", "", <<K.node, V.node>>))

FunctionType(S) ==
    LET P == Enclosed(Consume(S, "("), "type", ")")
        R == IF Kind(P) = ":" THEN TypeRef(Advance(P)) ELSE Made(P, N("name", "null", <<>>))
    IN  Made(R, N("fn type", "", Append(P.node, R.node)))

Type(S) ==
    LET T == Advance(S)
        A == Consume(T, "<")
    IN  CASE Kind(S) = "[" -> LET E == Consume(TypeRef(T), "]")
                              IN  Made(E, N("array type", "", <<E.node>>))
          [] Kind(S) = "&" -> IF Kind(A) = "id" /\ Peek(A).kind = ":"
                              THEN LET F == Consume(ItemsOf(A, "typed"), ">")
                                   IN  Made(F, N("shape", "", F.node))
                              ELSE DictType(A)
          [] Kind(S) = "fn" -> FunctionType(T)
          [] Kind(S) \in {"id", "null"} -> Made(T, N("name", Text(T), <<>>))
          [] OTHER -> Made(Advance(Fail(S)), N("name", "any", <<>>))
-----------------------------------------------------------------------------
(* Statements and declarations, each after the token that begins it        *)

Assignable == {"id", "@", "index", "field"}
Compounds  == {"+=", "-=", "*=", "/=", "%="}
Base(op)   == CASE op = "+=" -> "+" [] op = "-=" -> "-" [] op = "*=" -> "*"
                [] op = "/=" -> "/" [] op = "%=" -> "%"

\* parse_expression_or_assignment.  A compound assignment reads the variable
\* it assigns, and shares the object and the key of the element it assigns.
Assignment(S) ==
    LET E == Expression(S)
        V == Expression(Advance(E))
        op     == Kind(E)
        target == E.node
    IN  CASE op \notin {"="} \cup Compounds -> Made(E, [op |-> "expr", e |-> target])
          [] target.op \notin Assignable -> Made(Fail(V), [op |-> "expr", e |-> target])
          [] op = "=" -> Made(V, [op |-> "assign", target |-> target, value |-> V.node])
          [] target.op \in {"id", "@"} ->
                Made(V, [op |-> "assign", target |-> target, value |-> Bin(Base(op), target, V.node)])
          [] OTHER -> Made(V, [op |-> "compound", by |-> Base(op), target |-> target, value |-> V.node])

Value0(S) == IF Kind(S) = "=" THEN Expression(Advance(S)) ELSE Made(S, N("none", "", <<>>))
LetDeclaration(S) ==
    LET A == ItemsOf(IF Kind(S) = "@" THEN Advance(S) ELSE S, "annotated")
        V == Value0(A)
    IN  Made(V, [op |-> IF Kind(S) = "@" THEN "global" ELSE "let",
                 names |-> [i \in DOMAIN A.node |-> A.node[i].name],
                 types |-> [i \in DOMAIN A.node |-> A.node[i].type], init |-> V.node])
ConstDeclaration(S) ==
    LET A == Annotated(S)
        V == Expression(Consume(A, "="))
    IN  Made(V, [op |-> "const declaration", name |-> A.node, init |-> V.node])

IfStatement(S) ==
    LET C == Expression(S)
        T == Block(Consume(C, "then"))
        E == CASE Kind(T) = "elseif" -> LET I == Parse(<<"if">>, Advance(T)) IN Made(I, <<I.node>>)
               [] Kind(T) = "else"   -> Consume(Block(Advance(T)), "end")
               [] OTHER              -> Made(Consume(T, "end"), <<>>)
    IN  Made(E, [op |-> "if", cond |-> C.node, then |-> T.node, else |-> E.node])

LoopStatement(S) == LET B == Consume(Block(S), "end") IN Made(B, [op |-> "loop", body |-> B.node])

\* A range takes one variable.
ForStatement(S) ==
    LET A     == Consume(S, "id")
        two   == Kind(A) = ","
        C     == IF two THEN Consume(Advance(A), "id") ELSE A
        I     == Expression(Consume(C, "in"))
        range == I.node.op = "bin" /\ I.node.arg \in {"..", "..="}
        B     == Consume(Block(IF range /\ two THEN Fail(I) ELSE I), "end")
    IN  Made(B, [op |-> IF range THEN "for range" ELSE "for in",
                 names |-> IF two THEN <<Text(A), Text(C)>> ELSE <<Text(A)>>,
                 over |-> I.node, body |-> B.node])

ReturnStatement(S) ==
    LET V == IF Kind(S) \in BlockEnds THEN Made(S, <<>>) ELSE ItemsOf(S, "expression")
    IN  Made(V, [op |-> "return", values |-> V.node])
DeferStatement(S) == LET E == Expression(S) IN Made(E, [op |-> "defer", call |-> E.node])

TryStatement(S) ==
    LET B == Block(S)
        C == Consume(Consume(B, "catch"), "id")
        H == Consume(Block(C), "end")
    IN  Made(H, [op |-> "catch", name |-> Text(C), body |-> B.node, handler |-> H.node])

\* The fields of a struct, up to end.  What is neither a field nor the type
\* of one is never consumed.
Fields(S, before) ==
    LET A == Annotated(S)
    IN  CASE Kind(S) \in {"end", "eof"} -> Made(S, before)
          [] A.at = S.at -> Made(Hang(A), before)
          [] OTHER -> Parse(<<"fields", Append(before, A.node)>>, A)
StructDeclaration(S) ==
    LET C == Consume(S, "id")
        F == Consume(Parse(<<"fields", <<>>>>, C), "end")
    IN  Made(F, [op |-> "struct declaration", name |-> Text(C), fields |-> F.node])
EnumDeclaration(S) ==
    LET C == Consume(S, "id")
        V == Enclosed(Consume(C, "{"), "name", "}")
    IN  Made(V, [op |-> "enum", name |-> Text(C), variants |-> V.node])

Import(S) ==
    LET C == Consume(S, "string")
        A == Consume(Advance(C), "id")
    IN  IF Kind(C) = "as" THEN Made(A, [op |-> "import", path |-> Text(C), alias |-> Text(A)])
        ELSE Made(C, [op |-> "import", path |-> Text(C), alias |-> ""])
Export(S) == LET D == Parse(<<"declaration">>, S) IN Made(D, [op |-> "export", declaration |-> D.node])

\* Words that begin a declaration only before certain tokens
StartsDirective(S) ==
    Kind(S) = "!" /\ Peek(S).kind = "id" /\ Peek(S).text \in {"strict", "nocheck"}
StartsTypeAlias(S) == Kind(S) = "id" /\ S.toks[S.at].text = "type" /\ Peek(S).kind = "id"
StartsExtern(S) ==
    Kind(S) = "id" /\ S.toks[S.at].text = "extern" /\ Peek(S).kind \in {"fn", "const"}

Directive(S) == LET C == Consume(S, "id") IN Made(C, [op |-> "directive", name |-> Text(C)])
TypeAlias(S) ==
    LET C == Consume(S, "id")
        T == TypeRef(Consume(C, "="))
    IN  Made(T, [op |-> "type", name |-> Text(C), type |-> T.node])
Extern(S) ==
    LET C == Consume(Advance(S), "id")
        P == IF Kind(S) = "fn" THEN Enclosed(Consume(C, "("), "typed", ")") ELSE Made(C, <<>>)
        T == TypeRef(Consume(P, ":"))
    IN  Made(T, [op |-> "extern", what |-> Kind(S), name |-> Text(C), params |-> P.node, type |-> T.node])

Declaration(S) ==
    LET T == Advance(S)
        Is(kind) == Kind(S) = kind
    IN  CASE StartsDirective(S) -> Directive(T)
          [] StartsTypeAlias(S) -> TypeAlias(T)
          [] StartsExtern(S) -> Extern(T)
          [] Is("let") -> LetDeclaration(T) [] Is("const") -> ConstDeclaration(T)
          [] Is("fn") -> Function0(T)       [] Is("struct") -> StructDeclaration(T)
          [] Is("enum") -> EnumDeclaration(T)
          [] Is("import") -> Import(T)      [] Is("export") -> Export(T)
          [] Is("if") -> IfStatement(T)     [] Is("loop") -> LoopStatement(T)
          [] Is("for") -> ForStatement(T)   [] Is("return") -> ReturnStatement(T)
          [] Is("defer") -> DeferStatement(T) [] Is("try") -> TryStatement(T)
          [] Is("break") \/ Is("continue") -> Made(T, [op |-> Kind(S)])
          [] OTHER -> Assignment(S)

Parse(rule, S) ==
    LET Is(name) == rule[1] = name
    IN  CASE Is("expression")  -> Expression(S)
          [] Is("precedence")  -> Parse(<<"climb", rule[2]>>, Parse(<<"unary">>, S))
          [] Is("climb")       -> Climb(S, rule[2])
          [] Is("unary")       -> Unary0(S)
          [] Is("postfix")     -> Postfix(S)
          [] Is("items")       -> Items(S, rule[2], rule[3])
          [] Is("block")       -> Body(S, rule[2])
          [] Is("field")       -> Entry(S, 2, {"id"})
          [] Is("entry")       -> Entry(S, 6, {"id", "string"})
          [] Is("annotated")   -> Annotated(S)
          [] Is("typed")       -> Typed(S)
          [] Is("fields")      -> Fields(S, rule[2])
          [] Is("name")        -> LET C == Consume(S, "id") IN Made(C, Text(C))
          [] Is("type")        -> Type(S)
          [] Is("if")          -> IfStatement(S)
          [] Is("declaration") -> Declaration(S)
=============================================================================
