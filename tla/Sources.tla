------------------------------- MODULE Sources -------------------------------
(***************************************************************************)
(* How a syntax tree is written down: its tokens, with as few parentheses  *)
(* as the precedence of the operators allows, a statement to a line.  The  *)
(* parser is to read the tree back.                                        *)
(***************************************************************************)
EXTENDS Statements

Token(kind, text) == [kind |-> kind, text |-> text, parts |-> <<>>]
Word(kind)   == <<Token(kind, kind)>>
Name(name)   == <<Token("id", name)>>
Line         == Word("newline")
Separated(lists, by) ==
    FoldLeftDomain(LAMBDA toks, i : IF i = 1 THEN lists[1] ELSE toks \o by \o lists[i], <<>>, lists)
Commas(lists) == Separated(lists, Word(","))

\* How tightly an operator binds, loosest first
Levels == <<{"or"}, {"and"}, {"==", "!="}, {"<", ">", "<=", ">="}, {"..", "..="}, {"+", "-"},
            {"*", "/", "%"}, {"neg", "not"}>>
Level(e) ==
    LET op == IF e.op \in {"bin", "logic"} THEN e.arg ELSE e.op
    IN  IF \E n \in DOMAIN Levels : op \in Levels[n] THEN CHOOSE n \in DOMAIN Levels : op \in Levels[n]
        ELSE Len(Levels) + 1
Operand   == Len(Levels) + 1
RangeLevel == 5

RECURSIVE Written(_, _), WrittenType(_), WrittenLine(_)
Loose(e) == Written(e, 1)
List(es) == Commas([i \in DOMAIN es |-> Loose(es[i])])
Lines(body) == FoldLeft(LAMBDA toks, s : toks \o WrittenLine(s) \o Line, Line, body)

Typed0(name, type) ==
    Name(name) \o (IF type.op = "none" THEN <<>> ELSE Word(":") \o WrittenType(type))
Fields0(vars) == [i \in DOMAIN vars |-> Typed0(vars[i].name, vars[i].type)]

WrittenType(t) ==
    LET kids == [i \in DOMAIN t.kids |-> WrittenType(t.kids[i])]
        shape == [i \in DOMAIN t.kids |-> Typed0(t.kids[i].name, t.kids[i].type)]
    IN  CASE t.op = "name" -> IF t.arg = "null" THEN Word("null") ELSE Name(t.arg)
          [] t.op = "array type" -> Word("[") \o kids[1] \o Word("]")
          [] t.op = "dict type" -> Word("&") \o Word("<") \o Commas(kids) \o Word(">")
          [] t.op = "shape" -> Word("&") \o Word("<") \o Commas(shape) \o Word(">")
          [] t.op = "fn type" -> Word("fn") \o Word("(") \o Commas(Front(kids)) \o Word(")")
                                 \o Word(":") \o Last(kids)

WrittenFunction(f) ==
    Word("fn")
    \o (IF f.owner = "" THEN <<>> ELSE Name(f.owner) \o Word("."))
    \o (IF f.name = "" THEN <<>> ELSE Name(f.name))
    \o Word("(") \o Commas(Fields0(f.params)) \o Word(")")
    \o (IF f.result.op = "none" THEN <<>> ELSE Word(":") \o WrittenType(f.result))
    \o Lines(f.body) \o Word("end")

\* The expression inside an interpolated string is a source of its own.
Interpolated(parts) ==
    <<[kind |-> "interp", text |-> "",
       parts |-> [i \in DOMAIN parts |->
                    IF parts[i].op = "str" THEN [text |-> parts[i].arg, tokens |-> <<>>]
                    ELSE [text |-> "", tokens |-> Loose(parts[i]) \o Word("}")]]]>>

\* "o[" and "]o" stand for either way to write a lookup.
WrittenBare(e) ==
    LET pairs(level) == [i \in DOMAIN e.kids |->
                           Name(e.kids[i].kids[1].arg) \o Word("=") \o Written(e.kids[i].kids[2], level)]
        object == Written(e.kids[1], Operand)
    IN  CASE e.op = "num"   -> <<Token("number", e.arg)>>
          [] e.op = "str"   -> <<Token("string", e.arg)>>
          [] e.op = "const" -> Word(e.arg)
          [] e.op = "id"    -> Name(e.arg)
          [] e.op = "@"     -> Word("@") \o Name(e.arg)
          [] e.op = "neg"   -> Word("-") \o Written(e.kids[1], Level(e))
          [] e.op = "not"   -> Word("not") \o Written(e.kids[1], Level(e))
          [] e.op \in {"bin", "logic"} ->
                Written(e.kids[1], Level(e)) \o Word(e.arg) \o Written(e.kids[2], Level(e) + 1)
          [] e.op = "call"  -> object \o Word("(") \o List(Tail(e.kids)) \o Word(")")
          [] e.op = "index" -> object \o Word("o[") \o Written(e.kids[2], RangeLevel) \o Word("]o")
          [] e.op = "field" -> object \o Word(".") \o Name(e.arg)
          [] e.op = "try"   -> object \o Word("?")
          [] e.op = "array" -> Word("[") \o List(e.kids) \o Word("]")
          [] e.op = "dict"  -> Word("&") \o Word("<") \o Commas(pairs(RangeLevel)) \o Word(">")
          [] e.op = "struct" -> Name(e.arg) \o Word("{") \o Commas(pairs(1)) \o Word("}")
          [] e.op = "tryblock" -> Word("try") \o Lines(e.kids) \o Word("end")
          [] e.op = "text"  -> Interpolated(e.kids)
          [] e.op = "fn"    -> WrittenFunction(e)
Written(e, level) ==
    IF Level(e) < level THEN Word("(") \o WrittenBare(e) \o Word(")") ELSE WrittenBare(e)

Given(init) == IF init.op = "none" THEN <<>> ELSE Word("=") \o Loose(init)

WrittenIf(s) ==
    Loose(s.cond) \o Word("then") \o Lines(s.then)
    \o CASE s.else = <<>> -> Word("end")
         [] Len(s.else) = 1 /\ s.else[1].op = "if" -> WrittenLine([s.else[1] EXCEPT !.op = "elseif"])
         [] OTHER -> Word("else") \o Lines(s.else) \o Word("end")

\* A statement or declaration
WrittenLine(s) ==
    CASE s.op = "expr"     -> Loose(s.e)
      [] s.op = "assign"   -> Loose(s.target) \o Word("=") \o Loose(s.value)
      [] s.op = "compound" -> Loose(s.target) \o Word(s.by \o "=") \o Loose(s.value)
      [] s.op \in {"let", "global"} ->
            Word("let") \o (IF s.op = "global" THEN Word("@") ELSE <<>>)
            \o Commas([i \in DOMAIN s.names |-> Typed0(s.names[i], s.types[i])]) \o Given(s.init)
      [] s.op = "const declaration" ->
            Word("const") \o Typed0(s.name.name, s.name.type) \o Given(s.init)
      [] s.op = "return"   -> Word("return") \o List(s.values)
      [] s.op = "defer"    -> Word("defer") \o Loose(s.call)
      [] s.op = "if"       -> Word("if") \o WrittenIf(s)
      [] s.op = "elseif"   -> Word("elseif") \o WrittenIf(s)
      [] s.op = "catch"    -> Word("try") \o Lines(s.body) \o Word("catch") \o Name(s.name)
                              \o Lines(s.handler) \o Word("end")
      [] s.op = "loop"     -> Word("loop") \o Lines(s.body) \o Word("end")
      [] s.op \in {"for range", "for in"} ->
            Word("for") \o Commas([i \in DOMAIN s.names |-> Name(s.names[i])]) \o Word("in")
            \o Loose(s.over) \o Lines(s.body) \o Word("end")
      [] s.op \in {"break", "continue", "end", "else"} -> Word(s.op)
      [] s.op = "fn"       -> WrittenFunction(s)
      [] s.op = "struct declaration" ->
            Word("struct") \o Name(s.name) \o FoldLeft(LAMBDA a, b : a \o b, <<>>, Fields0(s.fields))
            \o Word("end")
      [] s.op = "enum"     -> Word("enum") \o Name(s.name) \o Word("{")
                              \o Commas([i \in DOMAIN s.variants |-> Name(s.variants[i])]) \o Word("}")
      [] s.op = "import"   -> Word("import") \o <<Token("string", s.path)>>
                              \o (IF s.alias = "" THEN <<>> ELSE Word("as") \o Name(s.alias))
      [] s.op = "export"   -> Word("export") \o WrittenLine(s.declaration)
      [] s.op = "directive" -> Word("!") \o Name(s.name)
      [] s.op = "type"     -> Name("type") \o Name(s.name) \o Word("=") \o WrittenType(s.type)
      [] s.op = "extern"   -> Name("extern") \o Word(s.what) \o Name(s.name)
                              \o (IF s.what = "const" THEN <<>>
                                  ELSE Word("(") \o Commas(Fields0(s.params)) \o Word(")"))
                              \o Word(":") \o WrittenType(s.type)

\* The tokens of a source with their lines (scan_token), the last of them
\* the end; lookups written with brackets or as o<key>
RECURSIVE ScannedFrom(_, _, _, _)
ScannedFrom(toks, i, line, angle) ==
    LET t == toks[i]
        kind == CASE t.kind = "o[" -> IF angle THEN "<" ELSE "["
                  [] t.kind = "]o" -> IF angle THEN ">" ELSE "]"
                  [] OTHER -> t.kind
        parts == [p \in DOMAIN t.parts |->
                    [t.parts[p] EXCEPT !.tokens = IF @ = <<>> THEN @ ELSE ScannedFrom(@, 1, line, angle)]]
    IN  IF i > Len(toks) THEN <<[kind |-> "eof", text |-> "", parts |-> <<>>, line |-> line]>>
        ELSE IF kind = "newline" THEN ScannedFrom(toks, i + 1, line + 1, angle)
        ELSE <<[kind |-> kind, text |-> t.text, parts |-> parts, line |-> line]>>
             \o ScannedFrom(toks, i + 1, line, angle)
Scanned(toks, angle) == ScannedFrom(toks, 1, 1, angle)
=============================================================================
