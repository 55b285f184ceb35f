----------------------------- MODULE MCLowering -----------------------------
(***************************************************************************)
(* Function bodies of up to three nested statements.                       *)
(***************************************************************************)
EXTENDS Lowering

Call1(t) == [op |-> "call", tag |-> t]
Inc      == [op |-> "inc"]
Declare  == [op |-> "let"]
\* A struct with a field whose name is the constant numbered as OP_ADDI is
Struct   == [op |-> "struct", fields |-> <<"loadk", "addi">>]
Defer(t) == [op |-> "defer", tag |-> t]
Fail     == [op |-> "fail"]
Leave(s) == [op |-> s]
If(kind, then) == [op |-> "if", kind |-> kind, then |-> then]
IfElse(kind, then, else) ==
    [op |-> "ifelse", kind |-> kind, then |-> then, else |-> else]
Loop(kind, body) == [op |-> kind, body |-> body]
Try(body, handler) == [op |-> "try", body |-> body, handler |-> handler]

a == Call1("a")
Jumps == {Leave("break"), Leave("continue"), Leave("return")}

\* Innermost blocks.  A block with a captured variable is left by a jump.
Blocks ==
    {<<s>> : s \in {Inc, Fail} \cup Jumps}
    \cup {<<s, t>> : s \in {a, Defer("d"), Fail}, t \in {Inc, Fail} \cup Jumps}
    \cup {<<Struct, t>> : t \in Jumps \cup {a, Inc, Struct}}
    \cup {<<Declare, t>> : t \in Jumps} \cup {<<Declare, Fail, t>> : t \in Jumps}

\* One statement around an innermost block.
Around(b) ==
    {If("cmp", b), If("test", b), IfElse("test", <<a>>, b), IfElse("cmp", b, <<a>>),
     Try(b, <<Call1("c")>>), Loop("block", b), Loop("for", b), Loop("forin", b)}

\* A loop, scope or try around that, with a deferred call, an addition or a
\* captured variable.
Outer(m) ==
    {Loop("loop", <<a, Defer("e"), m>>), Loop("block", <<Defer("e"), m, Inc>>),
     Loop("loop", <<a, Declare, m, Leave("continue")>>),
     Loop("forin", <<Declare, m, Leave("continue")>>),
     Try(<<Defer("e"), m>>, <<Call1("h")>>)}
    \cup {Loop(k, body) : k \in {"for", "forin"},
                          body \in {<<m>>, <<Defer("e"), m>>, <<m, Inc>>}}
    \cup {Loop(k, <<m, Struct>>) : k \in {"for", "forin"}}

Middles == UNION {Around(b) : b \in Blocks}
Bodies(middles) ==
    {<<Defer("f"), o, Call1("z")>> : o \in UNION {Outer(m) : m \in middles}}

\* A range loop that ends in an addition under a test
FusedUnderTest(st) ==
    /\ st.op = "for"
    /\ LET last == Last(st.body) IN last.op = "if" /\ last.kind = "test" /\ Last(last.then) = Inc

\* The last field of a struct that ends a range loop, taken for an addition
FusedData(code1) ==
    \E i \in DOMAIN code1 :
        code1[i].op = "count" /\ \E j \in 1 .. code1[i].to : code1[i + j].op = "addiloop"

\* A jump out of no loop is refused by the compiler.
MCPrograms ==
    {p \in Bodies(Middles) :
        ~Compiled(p).hadError /\ ~FusedUnderTest(p[2]) /\ ~FusedData(Compiled(p).code)}

MCAnswers == [1 .. 3 -> BOOLEAN]
=============================================================================
