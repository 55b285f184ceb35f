------------------------------ MODULE Interpret ------------------------------
(***************************************************************************)
(* What becomes of a source (vm_compile_named and vm_run_closure in        *)
(* src/src/vm.c): it is parsed, a declaration at a time, then compiled,    *)
(* unless there was an error, and run.                                     *)
(*                                                                         *)
(* A source has a kind, tokens and the statements they write down:         *)
(*   function      one function, to be called; loops   one with loops;     *)
(*   script        to be run;                                              *)
(*   undefined     a function that names a variable there is not;          *)
(*   declarations  only to be parsed;                                      *)
(*   strict        to be checked; exact   to be checked, and refused only if *)
(*                 it goes wrong;                                          *)
(*   damaged       no program; unknown   tokens that may be one or not.    *)
(***************************************************************************)
EXTENDS Parser, Expressions, Registers

Types == INSTANCE Typecheck
Runs  == INSTANCE TypedRun

CONSTANTS
    Families,       \* families of sources
    SourcesOf(_),   \* those of a family: records [kind, tokens, ast]
    AnswersTo(_)    \* the answers a run of a source may get

VARIABLES
    source,         \* the source
    parser,         \* the state of the parser
    program,        \* the declarations parsed
    stage           \* "parsing", "refused", "mistyped", "parsed", "compiled" or
                    \* "running"

vars == <<source, parser, program, stage, machine>>

Init ==
    /\ \E family \in Families : source \in SourcesOf(family)
    /\ stage = "parsing"
    /\ parser = Open(source.tokens) /\ program = <<>>
    /\ Idle

\* parse: one turn of its loop
ParseNext ==
    /\ stage = "parsing" /\ ~AtEnd(parser)
    /\ LET D == Parse(<<"declaration">>, parser)
       IN  parser' = Synchronize(D) /\ program' = Append(program, D.node)
    /\ UNCHANGED <<source, stage, machine>>

\* The loop has come to the end.  A source with an error is refused, one that
\* says !strict also if the checker finds one.
EndParse ==
    /\ stage = "parsing" /\ AtEnd(parser) /\ ~parser.hung
    /\ stage' = CASE parser.error -> "refused"
                  [] ~parser.error /\ ~Types!Accepts(program) -> "mistyped"
                  [] OTHER -> "parsed"
    /\ UNCHANGED <<source, parser, program, machine>>

\* The statements that are compiled: a function's or the script's own
Unit(ast) == [script |-> source.kind = "script",
              body   |-> IF source.kind = "script" THEN ast ELSE ast[1].body]

Optimized(p) == [p EXCEPT !.body = FoldedAll(@)]

\* The compiler refuses what needs too many registers or names what is
\* unknown.  The syntax is freed.
Compile ==
    /\ stage = "parsed" /\ source.kind \in {"function", "loops", "script", "undefined"}
    /\ \E C \in {Compiled(Optimized(Unit(program)))} :
          IF C.hadError THEN stage' = "refused" /\ UNCHANGED machine
          ELSE stage' = "compiled" /\ LoadCode(C.code, C.max)
    /\ program' = <<>> /\ parser' = [parser EXCEPT !.toks = <<>>]
    /\ UNCHANGED source

\* What runs is the code, whatever answers it will get.
Begin ==
    /\ stage = "compiled" /\ stage' = "running"
    /\ \E answers \in AnswersTo(source), m \in {Start(Unit(source.ast), <<>>)} :
          EnterFrame(Frame(m, reg_count), m.cells, answers, Meaning(Unit(source.ast), answers))
    /\ source' = [source EXCEPT !.tokens = <<>>, !.ast = <<>>]
    /\ UNCHANGED <<parser, program>>

Run == Step /\ UNCHANGED <<source, parser, program, stage>>

Next == ParseNext \/ EndParse \/ Compile \/ Begin \/ Run
Spec == Init /\ [][Next]_vars
-----------------------------------------------------------------------------
\* The parser reads back what was written, and nothing that is a program is
\* refused, whatever comparisons, lookups, type annotations and literals
\* stand next to each other; what is no program is, however the parser
\* recovers, also when the error is inside an interpolated string.
Parses ==
    /\ stage \in {"parsed", "mistyped"} /\ source.kind # "unknown" =>
          source.kind # "damaged" /\ program = source.ast
    /\ stage = "refused" => source.kind \in {"damaged", "undefined", "unknown"}
    /\ stage = "running" => source.kind # "undefined"

\* A file that the checker accepts does not go wrong, whatever is in its
\* variables and whichever branches it takes: no operator and no call gets a
\* value it does not take, and what is declared with a type is of that type.
\* A straight use of a value that does no harm is not refused.
Sound ==
    /\ stage = "parsed" /\ source.kind \in {"strict", "exact"} =>
          \A answers \in AnswersTo(source) : ~Runs!GoesWrong(program, answers)
    /\ stage = "mistyped" /\ source.kind = "exact" =>
          \E answers \in AnswersTo(source) : Runs!GoesWrong(program, answers)

\* Every turn of the parser's loop consumes something, and no rule loops
\* without consuming anything: whatever the tokens, parsing ends.
Progress == [][ParseNext => parser'.at > parser.at /\ ~parser'.hung]_vars
=============================================================================
