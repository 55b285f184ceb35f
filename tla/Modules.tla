------------------------------- MODULE Modules ------------------------------
(***************************************************************************)
(* Imports: how a script and the files it imports become one tree of       *)
(* functions (src/src/compiler.c:3488), how such a tree is saved and       *)
(* loaded (src/src/serialize.c), and how the bodies of files run, each     *)
(* when it is imported first, in scripts with coroutines.                  *)
(*                                                                         *)
(* A unit is a script, a coroutine's function or the body of a file; its   *)
(* statements are records with a field op:                                 *)
(*   import(of)   export(name)   yield   error   leave(answer): a return   *)
(*   fail: a ? that fails   resume(worker): in the script only             *)
(* A namespace is a number from 1 on; None is null or false.               *)
(* A path here is the one realpath gives, by which files are known.        *)
(***************************************************************************)
EXTENDS Integers, Sequences, FiniteSets, SequencesExt

CONSTANTS
    Programs,       \* records [script, workers, files]: a body, a sequence of
                    \* bodies, and the bodies of the files there are
    MaxDepth,       \* BYTECODE_MAX_FUNCTION_DEPTH: 64
    MaxFunctions    \* BYTECODE_MAX_FUNCTIONS: 65536

ASSUME ModulesAssumption == MaxDepth \in Nat /\ MaxFunctions \in Nat

VARIABLES
    program,        \* what is run
    stage,          \* compiling, compiled, saving, saved, reading, running, or
                    \* how it ended
    compiling,      \* the units being compiled, each within the one before;
                    \* then the function of the script
    disk,           \* the .mgc file: an entry for each function
    reader,         \* read_function: how many were read, those being read, each
                    \* within the one before, and what was loaded, if it was
    threads,        \* the activations of the script and of each coroutine
    current,        \* which of them runs
    modules,        \* @modules: the namespace of each path, or what else its
                    \* body answered
    names,          \* what each namespace made so far contains
    runs,           \* of the body of each file: how often it began, began while
                    \* an earlier run was not over, and answered null or died
    bound           \* what imports have bound: [file, namespace]

machine == <<threads, current, modules, names, runs, bound>>
vars == <<program, stage, compiling, disk, reader, machine>>

Function(unit, body, inner) == [unit |-> unit, body |-> body, inner |-> inner]
None == 0
Truthy == -1    \* a value that is no namespace, null or false
Script == "script"

\* compile_block ends with a return: nothing after it is compiled.
Reached(body) ==
    LET i == SelectInSeq(body, LAMBDA s : s.op = "leave")
    IN  IF i = 0 THEN body ELSE SubSeq(body, 1, i)

Unit(name, body) == [name |-> name, body |-> Reached(body), at |-> 1, inner |-> <<>>]

\* What write_function writes of a function and those within it, in order
Entry(fn) == [unit |-> fn.unit, body |-> fn.body, functions |-> Len(fn.inner)]
OldFile == <<[unit |-> "old", body |-> <<>>, functions |-> 0]>>

Init ==
    /\ program \in Programs
    /\ stage = "compiling" /\ disk = OldFile
    /\ reader = [read |-> 0, stack |-> <<>>, loaded |-> <<>>]
    /\ compiling = <<Unit(Script, program.script)>>
    /\ threads = <<>> /\ current = 1
    /\ modules = [f \in DOMAIN program.files |-> None] /\ names = <<>>
    /\ runs = [f \in DOMAIN program.files |->
                    [begun |-> 0, overlapping |-> 0, fruitless |-> 0]]
    /\ bound = {}
-----------------------------------------------------------------------------
(* The compiler.  The function of an imported file is a constant of the    *)
(* function that imports it, and compiled again for every import.          *)

AtEnd(u)      == u.at > Len(u.body)
Statement(u)  == u.body[u.at]
Imports(u)    == ~AtEnd(u) /\ Statement(u).op = "import"
Innermost     == Last(compiling)

\* NODE_IMPORT: read_import_file, parse, compile_with_options
CompileImport ==
    /\ stage = "compiling" /\ Imports(Innermost)
    /\ LET f == Statement(Innermost).of
       IN  IF f \notin DOMAIN program.files
           THEN stage' = "refused" /\ UNCHANGED compiling
           ELSE /\ compiling' = Append(compiling, Unit(f, program.files[f]))
                /\ UNCHANGED stage
    /\ UNCHANGED <<program, disk, reader, machine>>

CompileOther ==
    /\ stage = "compiling" /\ ~AtEnd(Innermost) /\ ~Imports(Innermost)
    /\ compiling' = [compiling EXCEPT ![Len(compiling)].at = @ + 1]
    /\ UNCHANGED <<program, stage, disk, reader, machine>>

\* The functions of coroutines are in the script, after its statements here.
NextWorker(u) == Len(SelectSeq(u.inner, LAMBDA fn : fn.unit = "worker")) + 1

CompileEnd ==
    /\ stage = "compiling" /\ AtEnd(Innermost)
    /\ LET u  == Innermost
           fn == Function(u.name, u.body, u.inner)
           rest == Front(compiling)
           outer == [Last(rest) EXCEPT !.inner = Append(@, fn),
                                       !.at = IF u.name = "worker" THEN @ ELSE @ + 1]
       IN  IF u.name = Script /\ NextWorker(u) <= Len(program.workers)
           THEN /\ compiling' = Append(compiling, Unit("worker", program.workers[NextWorker(u)]))
                /\ UNCHANGED stage
           ELSE IF u.name = Script
           THEN stage' = "compiled" /\ compiling' = <<fn>>
           ELSE compiling' = Append(Front(rest), outer) /\ UNCHANGED stage
    /\ UNCHANGED <<program, disk, reader, machine>>

\* The function of the script
Compiled == compiling[1]
-----------------------------------------------------------------------------
(* Bytecode files                                                          *)

RECURSIVE Entries(_)
Entries(fn) == FoldLeft(LAMBDA file, g : file \o Entries(g), <<Entry(fn)>>, fn.inner)

\* validate_serializable_function: the functions counted after fn and those
\* within it, of which n came before; or too many.
RECURSIVE Validated(_, _, _)
Validated(n, fn, depth) ==
    IF depth >= MaxDepth \/ n >= MaxFunctions THEN MaxFunctions + 1
    ELSE FoldLeft(LAMBDA m, g : Validated(m, g, depth + 1), n + 1, fn.inner)

Serializable(fn) == Validated(0, fn, 0) <= MaxFunctions

\* magnesium build: fopen truncates the file that is there.
Save ==
    /\ stage = "compiled"
    /\ IF Serializable(Compiled) THEN disk' = <<>> /\ stage' = "saving"
                                 ELSE stage' = "unsaved" /\ UNCHANGED disk
    /\ UNCHANGED <<program, compiling, reader, machine>>

\* Everything is written and closed; or a write fails, or the tool dies.
Written ==
    /\ stage = "saving" /\ stage' = "saved"
    /\ \E n \in 0 .. Len(Entries(Compiled)) : disk' = SubSeq(Entries(Compiled), 1, n)
    /\ UNCHANGED <<program, compiling, reader, machine>>

\* The script is run, from its source or from the file.
Start(fn) ==
    /\ stage' = "running"
    /\ threads' = <<<<[fn |-> fn, at |-> 1, into |-> None]>>>>
                    \o [w \in DOMAIN program.workers |->
                          <<[fn |-> SelectSeq(fn.inner, LAMBDA g : g.unit = "worker")[w],
                             at |-> 1, into |-> None]>>]
    /\ UNCHANGED <<program, compiling, disk, current, modules, names, runs, bound>>

Interpret == stage = "compiled" /\ Start(Compiled) /\ UNCHANGED reader

\* vm_load_bytecode
Load ==
    /\ stage = "saved" /\ stage' = "reading"
    /\ UNCHANGED <<program, compiling, disk, reader, machine>>

Refuse ==
    /\ stage' = "unloaded"
    /\ UNCHANGED <<program, compiling, disk, reader, machine>>

\* All functions within the one that is being read have been read.
Complete ==
    /\ reader.stack # <<>>
    /\ Last(reader.stack).functions = Len(Last(reader.stack).inner)

\* Mutant of AtLimit: the depth is compared after it was counted.
AtLimitCounted == Len(reader.stack) + 1 >= MaxDepth \/ reader.read + 1 >= MaxFunctions

\* The limits of read_function
AtLimit == Len(reader.stack) >= MaxDepth \/ reader.read >= MaxFunctions

\* read_function begins.
ReadFunction ==
    /\ stage = "reading" /\ ~Complete
    /\ IF AtLimit \/ reader.read = Len(disk)
       THEN Refuse
       ELSE LET e == disk[reader.read + 1]
                fn == [unit |-> e.unit, body |-> e.body, functions |-> e.functions, inner |-> <<>>]
            IN  /\ reader' = [reader EXCEPT !.read = @ + 1, !.stack = Append(@, fn)]
                /\ UNCHANGED <<program, stage, compiling, disk, machine>>

\* It ends: the function is a constant of the one around it, or the script,
\* after which the file must end.
EndFunction ==
    /\ stage = "reading" /\ Complete
    /\ LET top  == Last(reader.stack)
           rest == Front(reader.stack)
           fn   == Function(top.unit, top.body, top.inner)
       IN  IF rest # <<>>
           THEN /\ reader' = [reader EXCEPT !.stack =
                                [rest EXCEPT ![Len(rest)].inner = Append(@, fn)]]
                /\ UNCHANGED <<program, stage, compiling, disk, machine>>
           ELSE IF reader.read < Len(disk) THEN Refuse
           ELSE Start(fn) /\ reader' = [reader EXCEPT !.stack = <<>>, !.loaded = <<fn>>]
-----------------------------------------------------------------------------
(* The interpreter                                                         *)

Stack    == threads[current]
Top      == Last(Stack)
Done(a)  == a.at > Len(a.fn.body)
Running(op) == stage = "running" /\ Stack # <<>> /\ ~Done(Top) /\ Top.fn.body[Top.at].op = op
This     == Top.fn.body[Top.at]

\* The stack of a thread whose top goes on with the next statement
Advanced(stack) == [stack EXCEPT ![Len(stack)].at = @ + 1]
Fixed == UNCHANGED <<program, stage, compiling, disk, reader>>

\* The constant that an import statement has become
ImportOf(a) ==
    LET earlier == {i \in 1 .. a.at : a.fn.body[i].op = "import"}
    IN  a.fn.inner[Cardinality(earlier)]

\* A path that has a namespace gives it, without running anything.
ImportCached ==
    /\ Running("import") /\ modules[This.of] # None
    /\ bound' = bound \cup {[file |-> This.of, namespace |-> modules[This.of]]}
    /\ threads' = [threads EXCEPT ![current] = Advanced(@)]
    /\ Fixed /\ UNCHANGED <<current, modules, names, runs>>

\* The body of a file is running, or suspended in a coroutine.
Underway(f) == \E t \in DOMAIN threads : \E i \in DOMAIN threads[t] : threads[t][i].fn.unit = f

\* Else the function is called, and makes a namespace.
ImportRuns ==
    /\ Running("import") /\ modules[This.of] = None
    /\ runs' = [runs EXCEPT ![This.of].begun = @ + 1,
                            ![This.of].overlapping = IF Underway(This.of) THEN @ + 1 ELSE @]
    /\ names' = Append(names, {})
    /\ threads' = [threads EXCEPT ![current] =
                      Append(@, [fn |-> ImportOf(Top), at |-> 1, into |-> Len(names) + 1])]
    /\ Fixed /\ UNCHANGED <<current, modules, bound>>

Export ==
    /\ Running("export")
    /\ names' = [names EXCEPT ![Top.into] = @ \cup {This.name}]
    /\ threads' = [threads EXCEPT ![current] = Advanced(@)]
    /\ Fixed /\ UNCHANGED <<current, modules, runs, bound>>

\* Mutant of Answered: what was answered is used and not kept.
AnsweredUnkept(file, namespace) ==
    /\ bound' = bound \cup {[file |-> file, namespace |-> namespace]}
    /\ UNCHANGED modules

\* What the body of a file answers goes into @modules and to the importer.
Answered(file, namespace) ==
    /\ bound' = bound \cup {[file |-> file, namespace |-> namespace]}
    /\ modules' = [modules EXCEPT ![file] = namespace]

\* An activation ends: in a file it answers to the import that called it; the
\* script's ends the run, a coroutine's gives control back.
Ends(answer) ==
    LET rest == Front(Stack)
    IN  /\ threads' = [threads EXCEPT ![current] = IF rest = <<>> THEN <<>> ELSE Advanced(rest)]
        /\ IF rest = <<>>
           THEN /\ current' = 1
                /\ UNCHANGED <<modules, bound>>
           ELSE Answered(Top.fn.unit, answer) /\ UNCHANGED current
        /\ runs' = IF rest # <<>> /\ answer = None
                   THEN [runs EXCEPT ![Top.fn.unit].fruitless = @ + 1] ELSE runs
        /\ Fixed /\ UNCHANGED names

\* The body of a file ends in a return of its namespace.
End == stage = "running" /\ Stack # <<>> /\ Done(Top) /\ Ends(Top.into)

\* A return answers what it says, also instead of the namespace.
Leave == Running("leave") /\ Ends(This.answer)

\* A ? that fails answers null.
Fail == Running("fail") /\ Ends(None)

\* A run-time error ends a coroutine, whatever it is in the middle of.
Error ==
    /\ Running("error")
    /\ threads' = [threads EXCEPT ![current] = <<>>]
    /\ runs' = [f \in DOMAIN runs |->
                  [runs[f] EXCEPT !.fruitless =
                      @ + Cardinality({i \in DOMAIN Stack : Stack[i].fn.unit = f})]]
    /\ current' = 1
    /\ Fixed /\ UNCHANGED <<modules, names, bound>>

\* A coroutine that has ended answers an error at once.
Resume ==
    /\ Running("resume")
    /\ threads' = [threads EXCEPT ![1] = Advanced(@)]
    /\ current' = IF threads[This.worker + 1] = <<>> THEN 1 ELSE This.worker + 1
    /\ Fixed /\ UNCHANGED <<modules, names, runs, bound>>

\* coroutine.yield; outside of a coroutine it answers an error.
Yield ==
    /\ Running("yield")
    /\ threads' = [threads EXCEPT ![current] = Advanced(@)]
    /\ current' = 1
    /\ Fixed /\ UNCHANGED <<modules, names, runs, bound>>

Next ==
    \/ CompileImport \/ CompileOther \/ CompileEnd
    \/ Save \/ Written \/ Interpret \/ Load \/ ReadFunction \/ EndFunction
    \/ ImportCached \/ ImportRuns \/ Export \/ End \/ Leave \/ Fail \/ Error \/ Resume \/ Yield

Spec == Init /\ [][Next]_vars
-----------------------------------------------------------------------------
Exports(file) ==
    LET body == program.files[file]
    IN  {body[i].name : i \in {j \in DOMAIN body : body[j].op = "export"}}

\* The body of a file runs again only if an earlier run was suspended in a
\* coroutine meanwhile, answered null or died.  Unless it was the first, all who
\* import the file, from wherever, get the same; and a namespace that anybody
\* gets is complete (docs/src/language/09-modules.md:38).
LoadedOnce ==
    /\ \A f \in DOMAIN runs : runs[f].begun <= 1 + runs[f].overlapping + runs[f].fruitless
    /\ \A b \in bound : b.namespace # None =>
          /\ runs[b.file].overlapping = 0 => b.namespace = modules[b.file]
          /\ b.namespace # Truthy => names[b.namespace] = Exports(b.file)

\* The reader refuses no file that the writer's check let through and that was written
\* to its end, and reads from it the functions that were compiled; what cannot
\* be saved leaves the file there was.
SavedLoads ==
    /\ stage = "unloaded" => disk # Entries(Compiled)
    /\ \A i \in DOMAIN reader.loaded : reader.loaded[i] = Compiled
    /\ stage = "unsaved" => disk = OldFile
=============================================================================
