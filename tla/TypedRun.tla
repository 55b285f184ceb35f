------------------------------ MODULE TypedRun ------------------------------
(***************************************************************************)
(* What a file does when it is run (src/src/vm.c), as far as the kinds of  *)
(* its values go: the answers decide what comparisons do not tell.         *)
(*                                                                         *)
(* A run goes wrong when an operator or a call gets a value of a kind it   *)
(* does not take, or when a variable, a parameter or what a function       *)
(* returns is not of the type it is declared with.                         *)
(*                                                                         *)
(* A value has a kind and what it is of: the text of a literal, the index  *)
(* of an object or of a function.  The syntax is the parser's.             *)
(***************************************************************************)
EXTENDS Integers, SequencesExt

V(kind, of) == [kind |-> kind, of |-> of]
NullValue == V("null", "")
Digits == <<"0", "1", "2", "3">>

(* The state R of a run: cells of variables with their types, the cells in *)
(* scope, objects, functions, the declarations met, what was evaluated     *)
(* last, whether the function has returned, and whether it went wrong.     *)
Start0(answers) ==
    [cells |-> <<>>, local |-> <<>>, global |-> <<>>, objects |-> <<>>, fns |-> <<>>,
     aliases |-> <<>>, structs |-> <<>>, methods |-> <<>>, answers |-> answers,
     v |-> NullValue, vs |-> <<>>, done |-> FALSE, wrong |-> FALSE]

Fault(R)    == [R EXCEPT !.wrong = TRUE]
Gives(R, v) == [R EXCEPT !.v = v]
Only(R, b, v) == IF b THEN Gives(R, v) ELSE Fault(R)
Items(R, v) == R.objects[v.of].items
\* The fields that the struct of an object has
FieldsOf(R, i) == IF R.objects[i].name = "" THEN <<>> ELSE R.structs[R.objects[i].name]

\* Is the value of the declared type?
RECURSIVE Holds(_, _, _)
Holds(R, v, t) ==
    CASE t.op = "name" /\ t.arg \in DOMAIN R.aliases -> Holds(R, v, R.aliases[t.arg])
      [] t.op = "name" /\ t.arg \in DOMAIN R.structs ->
            v.kind = "struct" /\ R.objects[v.of].name = t.arg
      [] t.op = "name" /\ t.arg \notin DOMAIN R.aliases \cup DOMAIN R.structs ->
            t.arg \in {v.kind, "unknown"}
      [] t.op = "array type" ->
            v.kind = "array" /\ \A k \in DOMAIN Items(R, v) : Holds(R, Items(R, v)[k], t.kids[1])
      [] t.op = "dict type" ->
            v.kind = "dict" /\ \A k \in DOMAIN Items(R, v) : Holds(R, Items(R, v)[k], t.kids[2])
      [] t.op = "shape" ->
            /\ v.kind \in {"dict", "struct"}
            /\ \A f \in ToSet(t.kids) :
                  f.name \in DOMAIN Items(R, v) /\ Holds(R, Items(R, v)[f.name], f.type)
      [] t.op = "fn type" ->
            v.kind = "native" \/ (v.kind = "fn" /\ Len(R.fns[v.of].fn.params) = Len(t.kids) - 1)
      [] OTHER -> TRUE
AllHold(R) ==
    /\ \A c \in ToSet(R.cells) : Holds(R, c.v, c.type)
    /\ \A i \in DOMAIN R.objects :
          \A f \in ToSet(FieldsOf(R, i)) : Holds(R, R.objects[i].items[f.name], f.type)

Declared(R, name, v, type) ==
    [R EXCEPT !.cells = Append(@, [v |-> v, type |-> type]),
              !.local = (name :> Len(R.cells) + 1) @@ @]
DeclaredAtTop(R, name, v, type) ==
    [Declared(R, name, v, type) EXCEPT !.local = R.local, !.global = (name :> Len(R.cells) + 1) @@ @]
NewObject(R, kind, name, items) ==
    Gives([R EXCEPT !.objects = Append(@, [name |-> name, items |-> items])],
          V(kind, Len(R.objects) + 1))
NewFunction(R, fn) ==
    Gives([R EXCEPT !.fns = Append(@, [fn |-> fn, local |-> R.local])], V("fn", Len(R.fns) + 1))

\* OP_GETINDEX, OP_GETFIELD, OP_SETINDEX, OP_SETFIELD: an array has its
\* items by number, a dict and a struct by name; what is not there is null, and
\* changing it does nothing, but a struct has the fields of its declaration.
Takes(object, key) ==
    \/ object.kind = "array" /\ key.kind = "number"
    \/ object.kind \in {"dict", "struct"} /\ key.kind = "string"
Item(R, object, key) ==
    IF Takes(object, key) /\ key.of \in DOMAIN Items(R, object) THEN Items(R, object)[key.of]
    ELSE IF object.kind = "string" /\ key.kind = "number" THEN V("string", "") ELSE NullValue
SetItem(R, object, key, v) ==
    CASE ~Takes(object, key) -> R
      [] object.kind = "struct" /\ key.of \notin DOMAIN Items(R, object) -> Fault(R)
      [] OTHER -> [R EXCEPT !.objects[object.of].items = (key.of :> v) @@ @]

\* OP_ADD and the arithmetic, the comparisons (INT_BINARY_NUM_OP and others)
Binary(R, op, a, b) ==
    LET numbers == a.kind = "number" /\ b.kind = "number"
        strings == a.kind = "string" /\ b.kind = "string"
    IN  CASE op = "+" -> Only(R, numbers \/ strings, V(a.kind, ""))
          [] op \in {"==", "!="} -> Gives(R, V("bool", ""))
          [] op \in {"<", "<=", ">", ">="} -> Only(R, numbers, V("bool", ""))
          [] OTHER -> Only(R, numbers, V("number", ""))

Negated(R) == Only(R, ~R.wrong /\ R.v.kind = "number", V("number", ""))

\* IS_FALSEY.  A comparison is decided by the next answer.
Decided(R) ==
    IF R.v.kind = "bool" /\ R.v.of = ""
    THEN IF R.answers = <<>> THEN Gives(R, V("bool", "false"))
         ELSE [Gives(R, V("bool", IF Head(R.answers) THEN "true" ELSE "false"))
                  EXCEPT !.answers = Tail(@)]
    ELSE R
Falsey(R) == R.v.kind = "null" \/ (R.v.kind = "bool" /\ R.v.of = "false")
-----------------------------------------------------------------------------
RECURSIVE Do(_, _)
DoEach(R, nodes) ==
    FoldLeft(LAMBDA Q, n : LET D == Do(Q, n) IN [D EXCEPT !.vs = Append(Q.vs, D.v)],
             [R EXCEPT !.vs = <<>>], nodes)
Scoped(R, body) == [Do(R, [op |-> "block", body |-> body]) EXCEPT !.local = R.local]

\* A local before a global; structs and natives have names of their own.
Variable(R, e) ==
    CASE e.op = "id" /\ e.arg \in DOMAIN R.local -> R.local[e.arg]
      [] e.arg \in DOMAIN R.global /\ ~(e.op = "id" /\ e.arg \in DOMAIN R.local) -> R.global[e.arg]
      [] OTHER -> 0
Named(R, e) ==
    LET c == Variable(R, e)
    IN  CASE c # 0 -> Gives(R, R.cells[c].v)
          [] c = 0 /\ e.arg \in DOMAIN R.structs -> Gives(R, V("maker", e.arg))
          [] c = 0 /\ e.arg \notin DOMAIN R.structs ->
                Only(R, e.arg \in {"print", "tostring"}, V("native", e.arg))

\* CALL_CLOSURE_FAST: the number of arguments is that of the parameters.
Called(R, f, args) ==
    LET fn == f.fn
        P  == FoldLeftDomain(LAMBDA Q, i : Declared(Q, fn.params[i].name, args[i], fn.params[i].type),
                             [R EXCEPT !.local = f.local], args)
        D  == Do(P, [op |-> "block", body |-> fn.body])
        v  == IF D.done THEN D.v ELSE NullValue
    IN  IF Len(args) # Len(fn.params) THEN Fault(R)
        ELSE [Gives(D, v) EXCEPT !.local = R.local, !.done = FALSE,
                                 !.wrong = @ \/ ~Holds(D, v, fn.result)]

\* OP_CALL: a struct that is called makes an instance of itself.
CallValue(R, callee, args) ==
    CASE callee.kind = "fn" -> Called(R, R.fns[callee.of], args)
      [] callee.kind = "native" ->
            Gives(R, IF callee.of = "tostring" THEN V("string", "") ELSE NullValue)
      [] callee.kind = "maker" ->
            LET fields == R.structs[callee.of]
                At(name) == SelectInSeq(fields, LAMBDA f : f.name = name)
            IN  NewObject(R, "struct", callee.of,
                    [name \in {f.name : f \in ToSet(fields)} |->
                        IF At(name) <= Len(args) THEN args[At(name)] ELSE NullValue])
      [] OTHER -> Fault(R)

\* A method is called with its object, what a dict holds without.
Call(R, e) ==
    LET callee == e.kids[1]
        D      == DoEach(R, (IF callee.op = "field" THEN callee.kids ELSE <<callee>>) \o Tail(e.kids))
        object == Head(D.vs)
        method == <<D.objects[object.of].name, callee.arg>>
    IN  IF D.wrong THEN D
        ELSE CASE callee.op = "field" /\ object.kind = "struct" ->
                    IF method \in DOMAIN D.methods THEN Called(D, D.methods[method], D.vs) ELSE Fault(D)
               [] callee.op = "field" /\ object.kind # "struct" ->
                    CallValue(D, Item(D, object, V("string", callee.arg)), Tail(D.vs))
               [] OTHER -> CallValue(D, object, Tail(D.vs))

Logic(R, e) ==
    LET D == Decided(Do(R, e.kids[1]))
    IN  IF D.wrong \/ Falsey(D) = (e.arg = "and") THEN D ELSE Do(D, e.kids[2])

Struct(R, e) ==
    LET D == DoEach(R, [i \in DOMAIN e.kids |-> e.kids[i].kids[2]])
        At(name) == SelectInSeq(e.kids, LAMBDA p : p.kids[1].arg = name)
    IN  NewObject(D, "struct", e.arg,
            [name \in {f.name : f \in ToSet(D.structs[e.arg])} |->
                IF At(name) = 0 THEN NullValue ELSE D.vs[At(name)]])
Dict(R, e) ==
    LET D == DoEach(R, [i \in DOMAIN e.kids |-> e.kids[i].kids[2]])
        At(key) == SelectLastInSeq(e.kids, LAMBDA p : p.kids[1].arg = key)
    IN  NewObject(D, "dict", "", [key \in {p.kids[1].arg : p \in ToSet(e.kids)} |-> D.vs[At(key)]])
Array(R, e) ==
    LET D == DoEach(R, e.kids)
    IN  NewObject(D, "array", "",
            [key \in ToSet(SubSeq(Digits, 1, Len(e.kids))) |->
                D.vs[CHOOSE i \in DOMAIN e.kids : Digits[i] = key]])

Assign(R, t, v) ==
    LET D == DoEach(R, t.kids)
        c == Variable(R, t)
    IN  CASE D.wrong -> D
          [] ~D.wrong /\ t.op \in {"id", "@"} -> IF c = 0 THEN Fault(R) ELSE [R EXCEPT !.cells[c].v = v]
          [] ~D.wrong /\ t.op = "index" -> SetItem(D, D.vs[1], D.vs[2], v)
          [] OTHER -> SetItem(D, D.vs[1], V("string", t.arg), v)

\* Names without a value get null.
Let(R, s) ==
    LET D == IF s.init.op = "none" THEN Gives(R, NullValue) ELSE Do(R, s.init)
        One(Q, i) == LET v == IF i = 1 THEN D.v ELSE NullValue
                     IN  IF s.op = "global" THEN DeclaredAtTop(Q, s.names[i], v, s.types[i])
                         ELSE Declared(Q, s.names[i], v, s.types[i])
    IN  IF D.wrong THEN D ELSE FoldLeftDomain(One, D, s.names)

DeclareFunction(R, s) ==
    LET D == Declared(R, s.name, NullValue, [op |-> "none"])
        F == NewFunction(D, s)
    IN  IF s.owner = "" THEN [F EXCEPT !.cells[Len(F.cells)].v = F.v]
        ELSE [R EXCEPT !.methods = (<<s.owner, s.name>> :> [fn |-> s, local |-> R.local]) @@ @]

\* A range of two numbers, from 0
ForRange(R, s) ==
    FoldLeft(LAMBDA Q, n : [Scoped(Declared(Q, s.names[1], V("number", n), [op |-> "none"]), s.body)
                              EXCEPT !.local = R.local],
             R, SubSeq(Digits, 1, 2))

RECURSIVE Statement(_, _)
Statement(R, s) ==
    CASE s.op = "expr"   -> Do(R, s.e)
      [] s.op \in {"let", "global"} -> Let(R, s)
      [] s.op = "assign" -> LET D == Do(R, s.value) IN Assign(D, s.target, D.v)
      [] s.op = "compound" ->
            LET D == DoEach(R, <<s.target, s.value>>)
                E == Binary(D, s.by, D.vs[1], D.vs[2])
            IN  IF D.wrong \/ E.wrong THEN Fault(D) ELSE Assign(E, s.target, E.v)
      [] s.op = "if"     -> LET D == Decided(Do(R, s.cond))
                            IN  IF D.wrong THEN D ELSE Scoped(D, IF Falsey(D) THEN s.else ELSE s.then)
      [] s.op = "for range" -> ForRange(R, s)
      [] s.op = "return" -> LET D == IF s.values = <<>> THEN Gives(R, NullValue) ELSE Do(R, s.values[1])
                            IN  [D EXCEPT !.done = TRUE]
      [] s.op = "fn"     -> DeclareFunction(R, s)
      [] s.op = "const declaration" ->
            LET D == Do(R, s.init) IN IF D.wrong THEN D ELSE Declared(D, s.name.name, D.v, s.name.type)
      [] s.op = "export" -> Statement(R, s.declaration)
      [] s.op = "type"   -> [R EXCEPT !.aliases = (s.name :> s.type) @@ @]
      [] s.op = "struct declaration" -> [R EXCEPT !.structs = (s.name :> s.fields) @@ @]
      [] OTHER -> R

\* One after the other, until one goes wrong or returns
Block(R, body) ==
    FoldLeft(LAMBDA Q, s :
                 IF Q.wrong \/ Q.done THEN Q
                 ELSE LET D == Statement(Q, s) IN [D EXCEPT !.wrong = @ \/ ~AllHold(D)],
             R, body)

Do(R, e) ==
    IF R.wrong THEN R
    ELSE CASE e.op = "block" -> Block(R, e.body)
           [] e.op = "num"   -> Gives(R, V("number", e.arg))
           [] e.op = "str"   -> Gives(R, V("string", e.arg))
           [] e.op = "const" -> Gives(R, IF e.arg = "null" THEN NullValue ELSE V("bool", e.arg))
           [] e.op \in {"id", "@"} -> Named(R, e)
           [] e.op = "array" -> Array(R, e)
           [] e.op = "dict"  -> Dict(R, e)
           [] e.op = "struct" -> Struct(R, e)
           [] e.op = "fn"    -> NewFunction(R, e)
           [] e.op = "neg"   -> Negated(Do(R, e.kids[1]))
           [] e.op = "not"   -> LET D == Do(R, e.kids[1]) IN Gives(D, V("bool", ""))
           [] e.op = "bin"   -> LET D == DoEach(R, e.kids)
                                IN  IF D.wrong THEN D ELSE Binary(D, e.arg, D.vs[1], D.vs[2])
           [] e.op = "logic" -> Logic(R, e)
           [] e.op = "call"  -> Call(R, e)
           [] e.op = "index" -> LET D == DoEach(R, e.kids)
                                IN  IF D.wrong THEN D ELSE Gives(D, Item(D, D.vs[1], D.vs[2]))
           [] e.op = "field" -> LET D == Do(R, e.kids[1])
                                IN  IF D.wrong THEN D ELSE Gives(D, Item(D, D.v, V("string", e.arg)))

\* Does the file go wrong with these answers?
GoesWrong(ast, answers) == Do(Start0(answers), [op |-> "block", body |-> ast]).wrong
=============================================================================
