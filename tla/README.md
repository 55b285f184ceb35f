# A verification of the Magnesium runtime

Magnesium (`src/`) is a scripting language written in C: a compiler to register
bytecode, an interpreter with inline caches, a generational garbage collector,
coroutines, isolated VM threads, a type checker, a language server and a package
manager.  This directory holds TLA+ modules of the parts of that system whose
correctness depends on long or concurrent sequences of steps, or on many forms of
input, the configurations that model-check them with TLC, and theorems about them with proofs that TLAPS
checks.  Every definition is read off the C code; `PROJECT.json` gives the lines.

## 1. Inventory

| Component | State it keeps | Operations | Interacts with | Hard part |
|---|---|---|---|---|
| **Heap and collector** (`gc.c`, `object.c:290-580`, `magnesium.h`) | young and old object lists, age and mark bits, remembered set, gray stack, reuse lists, byte counters | `allocate_object`, `gc_minor_collect`, `gc_major_collect`, `gc_write_barrier`, `gc_free_all`, `vm_root_value` | everything allocates; marks the interpreter's stacks, coroutines, tasks; clears inline caches and weak strings | a collection may run inside any allocation, while C locals hold unrooted pointers; every store must keep the old-to-young invariant |
| **Hash table** (`object.c:869-971`) | slots, capacity, count of non-empty slots | `table_set`, `table_get`, `table_delete`, `table_find_string`, `table_adjust` | globals, field indices, interned strings; the collector deletes weak entries | open addressing with tombstones: probes must end |
| **Dictionary** (`object.c:584-752`) and its caches (`vm.c:2784-2877`) | index table, entry array, counts, version, mono cache, `dict_ic` | `dict_set`, `dict_get`, `dict_delete`, `dict.clear`, cached lookups | index and property opcodes, method tables, natives | two caches in front of a table that grows, deletes and keeps insertion order |
| **Numeric range loops** (`compiler.c:2854-2948`, `vm.c:4754-4902`) | the registers of one loop | `OP_FORPREP`, four loop opcodes, the fused addition | compiler chooses the opcodes, interpreter the representation | integers of fixed width at their limits, doubles narrowed to integers |
| **Interpreter core** (`vm.c:3560-7520`) | frames, registers, defer stack, task queue, error state | about 150 opcodes, `vm_run_function` | all of the above | frame and register discipline across calls, errors, coroutine switches |
| **Captured variables** (`vm.c:3271-3354`) | list of open upvalues, upvalue cache | capture, load, store, close | stack growth, coroutines, write barrier | a variable moves from the stack to the heap while closures use it |
| **Coroutines** (`vm.c:2962-3210`) | object with saved stack, state, open upvalues; chain of saved VM contexts | create, resume, yield, finish, status | collector roots, captured variables | the collector sees a running coroutine through the saved contexts, a suspended one through its object |
| **Global, field and method caches** (`vm.c:3775-3815`, `6636-6930`) | direct-mapped tables of raw pointers | filled by opcodes, cleared by collections and host calls | hash tables, collector | stale entries |
| **Isolated VM tasks** (`vm.c:1744-2206`, `2541-2568`) | `ObjVMTask` (lock, flags, thread, result), list of tracked tasks, cancel flags | spawn, join, try_join, cancel, status, vm_free | threads, collector, host | cross-thread pointers, cancellation racing start-up and teardown |
| **Serializer and validator** (`serialize.c`) | counters of one save or load | `vm_save_bytecode`, `vm_load_bytecode`, `validate_function` | interpreter trusts what it accepts | the limits that the writer and the reader count must agree; what is data and what is code |
| **Modules** (`compiler.c:3488-3701`, `vm.c:7461-7532`) | `vm->modules`, nested functions | import, export, run | coroutines, serializer | every importer carries its own copy of a file; the first that runs decides |
| **Compiler** (`compiler.c`) | scopes, deferred calls, register allocator, jump and patch lists, accumulator analysis | one pass over the AST | type checker, interpreter | five ways out of a scope, each with its own clean-up; patch lists of nested loops and handlers; register lifetimes |
| **Parser, lexer** (`parser.c`, `lexer.c`) | token cursor, panic mode | `parse` | compiler, language server | lookahead that decides between two readings, recovery that makes progress, parsers inside strings |
| **Type checker** (`typecheck.c`) | scopes of typed names, aliases, what the function checked returns | `mg_typecheck_ast` | compiler, language server | literals checked against what they are for, state put back after functions and scopes |
| **Language server** (`lsp.c`) | open documents | JSON-RPC over stdio, one thread | parser, type checker | text protocol |
| **Package manager** (`mt.c`) | the install prefix, temporary directories | install, bindings, editor, uninstall | file system, git, make | steps that fail, or a kill, in the middle |
| **Driver** (`main.c`) | command line | run, build | all | I/O |
| **FFI glue, bindings** (`mg_ffi_glue.c`, `src/bindings/`) | roots held for the foreign host | C API | heap roots | lifetime across languages |

What makes each one correct, in one line:

* heap: nothing reachable is reclaimed, nothing points at reclaimed memory;
* hash table and dict: they are maps, whatever was deleted or cached, and every
  operation returns;
* captured variables and coroutines: a variable keeps its value across
  suspension, closing and collection;
* tasks: no thread outlives what it writes to, cancellation is not lost,
  teardown returns;
* caches: a hit answers what the table holds;
* compiler: the jumps it emits do what the statements say, deferred calls
  included, and no register is overwritten while its value is still wanted;
* range loops: they visit their range, all of it, and end;
* parser: it reads a program back as it is written, refuses what is none, and
  always gets on;
* type checker: what it accepts in a `!strict` file does not meet a value of
  another type when it runs, and it does not refuse at random;
* serializer: it accepts whatever the compiler makes, and what was saved loads;
* modules: the body of a file runs once, and all who import it share its names;
* package manager: what it says is installed is installed.

The hazards, each at its line and with the properties that cover it, are listed
under `hazards` in `PROJECT.json`.


## 2. Modules

| Module | What it is | Extends / instantiates |
|---|---|---|
| `Heap` | the generational heap as the mutator sees it | |
| `HeapProofs` | its inductive invariant and theorems | `Heap` |
| `PartialMap` | abstract: a map that answers calls | |
| `Table` | the open-addressing table, growth slot by slot | `INSTANCE PartialMap` |
| `TableProofs` | its inductive invariant, and the refinement | `Table` |
| `OrderedMap` | abstract: a map that keeps insertion order | |
| `Dict` | index table, entry array, growth entry by entry, tombstones, both lookup caches | `INSTANCE OrderedMap` |
| `DictProofs` | its inductive invariant, and the refinement | `Dict` |
| `Coroutine` | coroutines and captured variables under the collector | |
| `CoroutineProofs` | its inductive invariant and theorems | `Coroutine` |
| `Activations` | abstract: calls, captured variables and coroutines without stacks | |
| `Frames` | frames, registers, open upvalues and their cache on stacks that move | `INSTANCE Activations` |
| `FramesProofs` | its inductive invariant, and the refinement | `Frames` |
| `VmTask` | OS threads, their task objects, cancellation, `vm_free` | |
| `VmTaskProofs` | its inductive invariant and theorems | `VmTask` |
| `InlineCaches` | `global_ic`, `field_ic`, `method_ic` over addresses that are reused | |
| `Lowering` | statements to jumps, and the run of the jumps, against a direct reading of the statements | `INSTANCE Validator` |
| `Statements` | abstract: expressions and statements, and the trace of effects they mean | |
| `Sources` | abstract: the tokens that write a syntax tree down | `Statements` |
| `Parser` | the parser, from tokens to a syntax tree | `Statements` |
| `Typecheck` | the checker of `!strict` files | |
| `TypedRun` | abstract: what a file does with the kinds of its values | |
| `Expressions` | the compiler's folding, and its choice of registers and instructions | `Statements` |
| `Registers` | the interpreter's run of the instructions, compared with the trace | `Statements` |
| `Validator` | the control flow `validate_function` demands of bytecode | |
| `Interpret` | the composition: parse, check, compile, run | `Parser`, `Expressions`, `Registers`; `INSTANCE Typecheck`, `TypedRun`, `Validator` |
| `Modules` | imports: the tree of functions, its file, and the runs of the bodies | |
| `Setup` | the toolchain manager `mt` | |
| `SetupProofs` | its inductive invariant and theorems | `Setup` |
| `ForRange` | the preparation and the steps of a numeric range loop | |
| `OpcodeProofs` | the inductive invariants and theorems of the inline caches and the range loop | `InlineCaches`, `ForRange` |
| `MC*` | constants of the runs (`MCFrames`: and a view, below); `MCSyntax` and `MCTypes` hold the sources and typed programs of `MCExpressions` | the module of that name (`MCExpressions`: `Interpret` and `Sources`) |

An operator that starts a comment with "Mutant of" is a deliberately wrong
version of the definition after it.  `PROJECT.json` pairs each with the property
it must break; it is never part of a specification.

### How state and actions correspond to the code

**Heap.**  An object is an address.  `space` says which list holds it
(`young_objects`, `old_objects`, a reuse list, none), `age` is `gc_age`, `refs`
what `blacken_object` finds in it, `roots` what `mark_roots` finds, `remembered`
the remembered set, `interned` the weak table `vm->strings`, `caches` the targets
of the inline caches.  `held` has no variable in the code: it is the pointers
that C functions keep in locals while they allocate again, which no root covers.
The comment at `object.c:297` promises that such a pointer survives one
collection; the actions that release held pointers state when the C code must
have stored it.  A collection is one action, chosen freely in every allocation
(none, minor, major), which covers every byte count and threshold.  The gray
stack is a fixpoint (`Trace`): blackening order changes nothing.

**Table, Dict.**  One action per slot or entry of work where growth is in progress
(`table_adjust`, `dict_adjust_capacity`), one per call otherwise.  In `Dict` a store that
grows is `Grow`, then `Skip` or `Copy` for each entry, `Adopt` when the copies replace the
arrays, and `Set` for what `dict_set` does after that; `pc` says how far it is, and no other
operation runs between, as in the code.  A key is a pointer; `TextOf` gives its
characters, so that two pointers can have equal text (a rope and its flat
twin), which `Dict` compares by text and `Table` by pointer.  The home slot of a
key is its hash modulo the capacity.  `version`, the mono cache and `dict_ic`
are those of the code; `hung` marks a probe that met no empty slot.  `loop` is a `for in`
over the dict: `next` is the index it keeps in a register, `seen` and `owed` are what it
has come to and still has to.  A body may change the dict between two turns.

**Coroutine.**  A coroutine has any number of locals that closures may capture, each at
its own slot (`Slot`) and with an upvalue of its own.  `local` is what the slot of the
coroutine's stack holds, `var` says whether the upvalue is there, open or closed, `closed` is
the value it took over, `next` its link: to the next open upvalue of the list, and still there
when the upvalue is closed.  `head` is the list of the VM or saved context that runs the
coroutine, `snapTop` and `snap` are the copies that the coroutine *object* holds since its
last suspension (`co->stack_top`, `co->open_upvalues`), which the collector
reads while the coroutine runs.  `Insert` puts a new upvalue where its slot belongs,
`Close` takes off the head, and `Refs` walks a list along `next` as `blacken_object` does,
through whatever was linked or closed since.  `chain` is the chain of saved VM contexts.

**Frames.**  `vm` is the context that runs: its stack with the name of the block
`realloc` answered, `stack_top`, `frames`, the list of open upvalues.  `caller` is the
context that `coroutine.resume` saved, `co` the one in the coroutine object.  A
pointer into a stack is a pair of block and index, so a pointer that a growth
forgets is visibly wrong; every growth may move the block or not.  The end of a scope gives a register up and
closes nothing, as the compiler has it (8 of section 5); a scope that a jump leaves closes
what it captured.  Instructions
are the operations an activation can do next, freely chosen: write a register,
end a scope or jump out of it, make a closure that captures a register, read or assign through an
upvalue, call a closure with any number of arguments and wanted results, call a
native with any outcome, return any run of registers, resume, yield, fail at any
depth.  What it abstracts: code is straight-line (a frame's live registers are
those below `live`, and a new value goes into the next one, as the compiler
allocates them); any closure may use any upvalue in use, which is more than the
code allows; the coroutine exists from the start and only the main script resumes it
(`Coroutine` has chains of them); upvalues are never reclaimed (that is `Coroutine`
and `Heap`); whether the task queue holds another closure when one has ended is left
open; `stack_size` always equals `stack_top` and is left out.  `CallsRefined` maps a
frame to an activation, a live register to a variable, and an open upvalue to
the cell that the variable has become: stacks, tops, blocks, lists and the cache
all vanish.  It speaks of every step but those from a state in which an ended scope has left an
open upvalue on a register that is not live (`Leaked`), among them the one that gives that
register to another variable: there the code does not do what `Activations` says.  From
then on the two variables are one cell, and steps are followed again.

**VmTask.**  One VM per thread; `pc` is where its thread is: the script, one of
the blocking natives, one of the stages of `vm_task_thread_main`, or `vm_free`.  Each
section under `task->lock` is one action; whatever happens between two such
sections is a separate one, so the copy of the cancel flag before and after the
child is published are two steps.

**InlineCaches.**  `Name` and `Klass` are addresses.  A collection reclaims what
nothing holds, and allocation uses the address for something else, which is when
a cache that compares pointers could lie.  The tables behind the caches are
functions; they are `Table` and `Dict` in the other modules.

**Lowering.**  A program is a tree of statements: calls, additions, captured
declarations, `defer`, `?`, `if` with and without `else`, `for`, `for in`,
`loop`, blocks, `try`, `break`, `continue`, `return`.  `Compile` is the compiler's
recursion, with the compiler's state (code, scopes, defers, patch lists, loop
and try context) threaded through it and every clean-up path as written.  The
state machine then runs the jumps; `Faithful` compares its trace with `Meaning`,
a reading of the statements themselves.  What a condition or a fallible call
answers is an arbitrary sequence.

**Statements, Expressions, Registers.**  `Statements` gives every program its
meaning directly: variables in scopes, values as symbolic terms, and a trace of
what others can see (calls, reads and writes of objects, tests, values returned).
`Expressions` is the compiler's recursion over the same trees with its state:
`next_reg` and `max_reg`, the locals and their registers, scopes, deferred
calls, the code, and the patch lists of jumps.  It folds constants first
(`fold_node`) and chooses among the same special
forms as the code does: immediate operands, fused arithmetic and updates,
comparisons with a jump, direct local callees, `len` and `push`, lookups ending in
`?`, inlined calls.  An instruction is a record of what its opcode reads and
writes: the variants of an opcode that differ only in speed are one record.
`Registers` executes them on a frame of exactly the registers `max_reg`
promises; what a call leaves above its results is `Junk`.  A captured variable
of this function may change under a call (`Shared`), as a closure would change it.
A loop's hidden variables (the end of a range, the container, the position in it) are
variables without a name in `Statements` and registers in `Expressions`; whether there
is one more turn is an answer.
Arithmetic is symbolic up to the identities the compiler uses (`Canon`).

**Parser, Sources, Interpret.**  A token has a kind, its text, its line and, for an
interpolated string, the tokens of its parts.  `Parser` has one operator per
function of `parser.c`, each taking and giving the parser (the cursor, the error
and panic flags, what was parsed last); `parse_precedence` climbs as in the code, the
scans ahead (is `a<` a lookup, is `(` a function) look as far.  `Sources` is the
converse, written from the grammar: it prints a tree with as few parentheses as
precedence allows.  `Interpret` steps through a source: one action per turn of the
parser's loop (`ParseNext`), then the type checker (`EndParse`), the compiler
(`Compile`) and the run (`Begin`, `Run`).

**Typecheck, TypedRun.**  `Typecheck` is one recursive function `Check` of the
checker's state and a node; the state is `Checker`'s symbols with their depth, aliases,
the fields of structs (which methods are added to later), `current_return` and the
error flag.  A type is a record; structs are compared by name and reach their
fields through the state, as the code does through the pointer.  `TypedRun` is the
reference: an evaluator of the same tree on kinds of values that notices an operator or
call on a kind it does not take, and a variable, field, parameter or result that is not
of its declared type.  What comparisons answer is arbitrary.

**Validator.**  The two passes of `validate_control_flow` over code that is abstracted to
the width of each instruction and the addresses that may follow it.  Both compilers'
models give their code in that form (`Width`, `Follows`), and `Accepted` demands that
it passes, with every register inside the frame in the case of `Registers`.

**Modules.**  A unit is a script, the function of a coroutine or the body of a file.
`CompileImport` nests the function of a file in its importer's, again for each
importer; `Save` counts depth and functions of the tree
(`validate_serializable_function`) and writes, or refuses.  `Load` only opens the file:
`ReadFunction` and `EndFunction` take one entry after another and count for themselves, as
`read_function` does, what was read and how deep it is.  Bodies run as activations, each
statement one step, with coroutines switching in between, errors, returns of null and of other
values, and a `?` that fails.  `vm->modules` keeps whatever a body answered that is not null or
false, a returned value in place of the namespace too.  `runs` counts for each file how often
its body began, began while an earlier run was not over, and answered null or died.

**Setup.**  The file system is a set of installed files, a set of temporary
directories, whether the editor has the extension, and which build each file is of.  A
command is a plan, a sequence of steps as `mt.c` takes them; a step is done, fails as its
system call may, or the process is killed; `die` and the ends of commands clean up as
the code does.  Then the next command starts on what is left.

**ForRange.**  A value is counted in units of which `One` make 1.  `Double` is the set of doubles,
any set of such counts that has the integers in it, and `Round` says what a sum or difference of
a double and 1 is rounded to; the largest double stands for infinity.  Integers wrap at
`MinInt` and `MaxInt`.

## 3. What the runs show

Twelve configurations, all of which pass.

| Run | Distinct states | Shows |
|---|---|---|
| `heap` | 81,109 | nothing reachable is reclaimed, nothing points to reclaimed memory, old-to-young references are remembered |
| `table` | 396,856 | the table is a map; no probe of it loops for ever |
| `dict` | 111,211 | the dict with both caches is an insertion-ordered map; every store finds a slot; a loop over a dict that its body changes meets every key that stays, once |
| `coroutine` | 1,261,766 | the variables of suspended and running coroutines, their upvalues and the lists that link these never see reclaimed memory, for scripts that keep a suspended coroutine while something uses its variable, do not assign that variable from outside, and capture no variable right below one that the coroutine had captured when it was suspended last (5, 27 and 43 of section 5) |
| `frames` | 256,654 | activations, captured variables and coroutine switches behave as if there were no stacks, except while an ended scope's variable is still captured; no frame, upvalue or cache entry is stale when a stack has moved; what lies above a stack's top is null |
| `vm_task` | 72,297 | no thread outlives its task object or the VM it writes to; a cancel request reaches the child whenever it comes and is honoured; `vm_free` returns |
| `inline_caches` | 800,762 | every lookup answers what the table holds |
| `lowering` | 346,782 | compiled statements do what they say, run each deferred call once, give a captured variable of a block that a jump leaves a new cell each time, and end; the validator accepts them |
| `expressions` | 647,367 | a program is read back as it was written, or refused if it is none, in bounded time; in every place an expression can stand the constants folded, registers and instructions chosen, inside and around loops, compute what the statements say, in code the validator accepts, with every register inside the frame; a `!strict` file that is accepted meets no value of another type |
| `for_range` | 181,348 | a range loop sees no value beyond its limit and never overflows, visits its range in order and completely where nothing is rounded, and ends where adding one makes a difference |
| `modules` | 179,458 | the body of a file runs again only after a run that answered null or died, or while one is suspended; otherwise all importers, in whatever coroutine, get the same; a file of bytecode that was written loads, and is the tree that was compiled |
| `setup` | 3,345,144 | `VERSION` changes last, a success is complete, the marker of the editor's extension means that it is there, and only a kill or a failed removal leaves a temporary directory |

The properties of these runs, where the name does not say it:

* `Accepted` (`lowering`, `expressions`): `validate_function` accepts what the
  compiler emits.  `Faithful`: the run's trace is the one the statements mean.
* `Parses`: the syntax tree is the one the source was printed from; a source that is
  no program is refused.  `Progress`: no turn of the parser's loop leaves the cursor
  where it was.
* `Sound`: a source of kind `strict` that is accepted never goes wrong in
  `TypedRun`, whatever comparisons answer; one of kind `exact` is also refused only if
  some answers make it go wrong.
* `CallsRefined`, `MapRefined`: refinement of the abstract module.
* `LoopExact`: a loop over a dict comes to no key twice unless the body deleted it in
  between, and when it ends it has met every key that was there when it began
  and was not deleted, unless growth has moved entries from before its index (36 of
  section 5).

Type invariants that say no more than the type are not listed in a configuration;
that of `Heap` is proved.

### Bounds, and why they are enough

* `heap`: two closures and one string, two references per object, two held
  pointers, reuse lists of length one.  Chains, cycles, old objects that refer to
  young ones, a full and an empty reuse list and the weak table all occur; every
  list in the code is handled element by element, so longer ones repeat these
  cases.  The theorems remove the bound.
* `table`: three keys, two with the same home in the last slot, so that probes
  collide and wrap; capacity from 2 to 8, so that two growths happen with
  tombstones present.  The theorems remove the bound.
* `dict`: three texts, two of them colliding, and a second pointer to one text;
  capacity 2 to 8; `MaxVersion = 7` bounds the number of changes, enough to fill,
  delete, refill and grow twice, and `MaxLoopVersion = 8` allows one more while a loop
  runs, in which the caches are not followed (`LookupsFollowed`).  The 32-bit wrap of `version` is out of reach.
* `coroutine`: two coroutines (one may resume the other), one with two variables, so that
  one upvalue is linked behind the other, before or after a suspension, and open or closed while
  the other is not, and one with none; one other object; three generations.
  Each variable is captured once, by a closure that others may share.  A third variable would
  make the lists longer, which the code walks link by link; the theorems remove the bound.
  `LateCaptures` is FALSE: with TRUE `CoroutinesLive` is violated (43 of section 5).
* `frames`: a main stack of four registers and a coroutine's of three, which calls
  make grow once, with two frames and two upvalues: each growth happens with and without
  open upvalues in one or both frames, cached or not, before and after a switch.
  Frames and upvalues are relocated and closed one by one in the code, so deeper
  stacks repeat these cases.  `MaxStack = 5` bounds what a call may ask for.  Every
  call wants two results, the number at which a native's error moves to the second
  one.  A function is the same value as true, since only writing either matters here.  `View`
  drops what the code never reads: a register below the top that no
  frame uses and no open upvalue points at, and the name of a block that nothing else can point to; it keeps the
  truth of `StackExact` and `CacheExact`, so that it can merge no violation away.
* `vm_task`: the host and two tasks, siblings or a chain; a third task adds no
  new pair of racing threads, since a task object is shared by two.
* `inline_caches`: two addresses of each kind and one slot in every cache, so
  that every entry competes with every other; two texts.
* `lowering`: bodies three statements deep around every pair of simple statements,
  with closures and struct declarations (whose data words the validator and the fusion of
  loops have to tell from instructions), two iterations per
  loop, all sequences of three answers, at most 14 recorded events (`MaxTrace`,
  which ends runs of `loop`).  `FusedUnderTest` and `FusedData` keep out the programs of
  defects 1 and 4 of section 5.
* `expressions`, code: 24 shapes of expression, among them every form the compiler
  treats on its own and constants it folds, in 30 places (each kind of statement, argument,
  operand, index, returned value), alone, in a scope under a condition, under
  a handler, in a `try` block and below a deferred call; all pairs of eight
  operands under four operators; two answers of tests and fallible calls in every
  order.  Loops: eight forms (range, `for in`, `loop`, nested, with `break`,
  `continue`, deferred calls, `catch` and `try` inside and around) around the same 30 places
  for two shapes, with four answers in every order: enough for a turn of an inner loop in
  a turn of an outer one, a test and a failure.  The compiler's choices look at an operand's form and at most at its
  own operands, so deeper expressions repeat these.  The set leaves out what the
  defects of section 5 concern: values of a multiple `return` begin with a call
  (2), `Spreads` (9), `FusedLookup` (15); no range's end names its variable (38), a loop
  with one name uses a further register in its body (37), the condition of an
  addition that ends a loop is a comparison with a number (1).
* `expressions`, syntax: every operator inside every other on either side, under the
  unary and postfix forms, every kind of declaration, loop and type, interpolated
  strings, lookups and comparisons next to each other; and each of these sources (but
  those with a struct, `Damageable`) with each token left out, repeated or made
  unreadable.  `Compares`: where a source holds a comparison, lookups are written
  with brackets; the comparisons that the parser misreads (6) are not among
  `Comparisons`.
* `expressions`, types: values of eight forms in every place that has a type:
  variables, parameters, results, operands, indices, fields, arrays of arrays, with
  names declared again in branches, loops, functions and as globals.  They leave out the
  type `any`, whose purpose is not to be checked, and what defects 16 to 19 concern: what is
  assigned has the type of its variable, a variable without a type is not assigned
  again, a literal of a shape only begins a variable or an argument, methods are only
  called, a struct is not taken for a shape and then for a dict, struct literals name
  every field, functions return on every path, and indices and keys are there.
* `for_range`: all pairs of three-bit integers and of doubles with three significant bits, from a
  sixteenth to fourteen, rounded to the nearest and to even: fractions to which adding
  one is exact, is rounded (as of 0.1) and, from eight on, changes nothing (as from 2^53
  on), inside, at and beyond the limits of the integers.  A NaN is no bound.  `MaxCount` ends
  loops that do not end by themselves.  The theorem removes the bound.
* `modules`: three files, later ones importing earlier ones
  directly and through each other, whose bodies end normally, yield, return null or another
  value early, fail or die; a file that is not there; two coroutines; four scripts
  that interleave them.  `MaxDepth = 4` and `MaxFunctions = 12` stand for 64 and 65536,
  so that both limits are met, passed and just kept.  No circle of imports (10 of section 5), and
  no collector while a file is read (35).
* `setup`: the bindings for Rust (which takes the C sources) and C# (which does not);
  every command follows every other, and every step of each fails or is killed.

### Fairness

* `vm_task`: the operating system schedules every thread, so thread start-up and
  tear-down, natives that can return and the steps of `vm_free` have weak
  fairness.  A script may compute for ever: its steps and its end have none.  But
  a script that runs for ever takes backward jumps for ever, and every 1024th
  looks at the cancel flag, between whatever else it does: `ObserveCancel` has
  strong fairness.  Nothing is assumed of a thread in `vm.join` except that it
  wakes when the child is done.
* `lowering`, `for_range`: one sequential program; it keeps running.
* `expressions` states no fairness: `Progress` says that every turn of the parser's
  loop consumes a token or ends it, which bounds their number by the length of the source.

## 4. What is proved

Proofs are checked by TLAPS for all values of the constants that satisfy the
named assumptions.

* **`HeapSafe`, `ReachableObjectsSurvive`, `BarrierComplete`** (`HeapProofs`, assuming
  `HeapAssumption`: `Kind` types the addresses, limits are naturals).  The
  invariant is `TypeOK /\ OldToYoungRemembered /\ NoDangling`.  `NoDangling` alone
  is not inductive: a minor collection looks at old objects only through the
  remembered set, so it needs `OldToYoungRemembered`, and `TypeOK` to know that
  what is neither young nor old is free or pooled.  The argument of every
  collection is that what is marked is closed under references (`Trace` is a
  fixpoint), so nothing that stays refers to what goes.
* **`TableSafe`, `TableIsMap`** (`TableProofs`, assuming `TableAssumption`:
  capacities above 1, hashes are naturals).  The invariant adds to `TypeOK` and
  `CountExact` that every live key can be reached by its own probe and is there
  once (`WellFormed`), that values are values (`HoldsValues`), that the load leaves an
  empty slot (`LoadBounded`), and where the growth in progress has got to
  (`Moved`: what the new array holds is what the slots before `next` held).  An
  empty slot gives termination of probes; reachability gives the map.
  `TableIsMap` shows that each step of `Table` is a step of `PartialMap` or
  leaves it unchanged.
* **`StoresEnd`, `CachesCorrect`, `LoopsMeetEachOnce`, `DictIsMap`** (`DictProofs`,
  assuming `DictAssumption`: any keys, texts and hash function, a first capacity above 0, and
  the markers are no keys).  `CachesCoherent` is not inductive: a store finds the
  right entry only if each live entry is reached by its own probe before any empty slot
  (`WellFormed`), and ends only if some slot is empty.  The dict has no such slot for
  good (defect 3 of section 5), but has one when a store probes: non-empty slots, deleted
  ones included, never outnumber the entries (`LoadBounded`), a deleted entry
  keeps its place in the array until growth, and the second half of the growth
  condition compares the array with the capacity.  During growth `Adjusting` says that the
  copies are the live entries passed, in their order, each no later than its old place, and in
  that very place if none before it was deleted: the last is what a loop's index needs,
  and why `LoopExact` makes its exception.  A cached entry of `dict_ic` is right because
  every change that moves entries changes `version` (`ICFits` bounds it).  `DictIsMap` then
  has one lemma for each call of `OrderedMap`; `Grow`, `Skip`, `Copy`, `Adopt` change
  nothing there.
* **`StacksSurvive`, `CoroutinesSurvive`, `UpvaluesSurvive`** (`CoroutineProofs`, assuming
  `CoroutineAssumption`: upvalues, coroutines and values are different objects, and no two
  variables of a coroutine share a slot).  For any number of coroutines in any chain of resumes,
  with any number of variables.
  All three have the hypotheses `~OutsideStores` and `~LateCaptures`, and the last
  `~DropSuspended`: scripts that do what defects 5, 43 and 27 of section 5 need are excluded,
  since with them the properties are false, and nothing else is.  The strengthening is `Phases`
  (what a state of a coroutine says of its snapshot), `ChainDistinct` (none is resumed
  twice), the shape of the lists, and `Remembered`: an old object with a young target is in the
  remembered set, unless it is the stack of a running coroutine, which is a root.  Of the lists,
  `Links` and `Order` say that links lead to lower slots of the same coroutine, `Heads` what the
  head and the snapshot's head are, `Listed` that the list from the head has exactly the open
  upvalues.  What the collector walks from a stale snapshot is bounded by exhibiting a set that
  is closed under `next` and has the head in it: what the snapshot listed, to which a capture
  that is not late adds nothing but in front.
* **`ThreadsOutlived`, `ChildPointers`, `RequestsReachChildren`, `ReportsFinal`**
  (`VmTaskProofs`, assuming only that the host is no task).  Any number of threads in any
  tree.  That a task object outlives its thread is not inductive: a sweep frees tasks
  that nothing refers to and `vm_tasks` does not list, and `vm_free` returns when its list
  is empty, so the invariant must know that a task off the list has ended (`Reaped`).
  That rests on `task->joined` being set before `pthread_join` returns (`JoinsEnd`: until
  then the only thread that may read the flag is inside that call), on what a
  waiting VM waits for (`Waits`), and on the phase of the child in which its VM and its
  address are there (`ChildPhases`) and its outcome is decided (`OutcomePhases`).
* **`GlobalsNeverStale`, `MembersNeverStale`** (`OpcodeProofs`, assuming
  `CachesAssumption`: the slot functions are total, any number of slots).  The property speaks of
  live strings; the invariant of all entries, live or not: each sits in the slot of its
  address and equals what the tables hold for that address.  An address is given another
  meaning only after a collection, and collections empty the caches.
* **`NothingLeftBehind`, `MarkedIsInstalled`, `VersionComesLast`, `SuccessDelivers`**
  (`SetupProofs`, assuming `SetupAssumption`: no binding is called like another file or word of
  a command line).  For any bindings.  The invariant's `Kept` relates the place in the plan
  to the disk: what the steps already passed wrote is still as they left it, since no later
  step of the same plan touches it.
* **`StacksExact`, `CachesExact`, `TypesKept`** (`FramesProofs`, assuming `FramesAssumption`:
  the first capacity of the main stack is not 0, a coroutine's stack has room for its
  function (`new_coroutine` allocates what it needs), which needs no more than `MaxStack`, the
  bound of every call, and `None` is no stack, pointer, upvalue or value; for the
  refinement below, also that a value is never mistaken for a reference to an upvalue,
  since a register of the code holds a tagged value and an upvalue is found by its address
  alone, and that an error is neither true nor null, the two tags from which
  `STORE_SINGLE_RESULT` tells it).  For any stacks, any number
  of frames and upvalues, any functions, and a `realloc` that may move at every growth; one
  coroutine, as in the module.  An open upvalue is shown to point at a register of a frame
  that is still there, not at a live one: the end of a scope leaves it behind.  Neither
  property is inductive.  That the frames of today lie below the top says nothing of a
  return, which puts the top back to what the frame remembers (`callerTop`):
  `FramesNested` says that this is no less than any frame below needs, that the callee's
  registers begin where the caller's live ones end, and that the caller has kept room for
  the results.  That an open upvalue points at a register of a frame survives a return only
  because the list is sorted by slot (`OpenSorted`): then what `close_upvalues` takes off
  its head is all that pointed at the registers given up.  Two stacks never have one
  block (`BlocksApart`), so a growth relocates every pointer into the old one, though it looks at
  nothing but the running frames and list; no upvalue is on two lists, and all that are
  open are on one (`OpenListed`), so a store through one changes the stack that has it.
  `Phases` says which of the contexts is running, saved or empty, and that the resumer has
  room for what it asked for.
* **`CallsImplemented`** (`FramesProofs`, under the same assumption): `Spec => CallsRefined`, so
  whatever stacks, moves, tops, lists and caches do, a script sees calls, variables
  and coroutines as `Activations` has them, but for the steps from states that are `Leaked`.  The initial states correspond, and each of the
  actions, from a state that is not `Leaked`, is a step of `Activations`: one lemma for each, `DeclareStep` to `BreakStep`, which
  `NextActs` combines.  The invariant of `StacksExact` needs no more strength: it already
  says where each variable is.  What the lemmas share is how one change to a stack or an
  upvalue looks from above.  `CellKept` is the centre: a variable that has become a cell keeps its
  value if its upvalue stays closed, if it stays open and the slot holds the value,
  wherever the stack has moved, or if it is closed with what the slot held; a step is
  then shown to do one of the three to every cell but the one it assigns.  On it rest
  `GrownActs` (a growth changes nothing, moved or not), `CloseIs` and `CloseVars` (nor
  does `close_upvalues`, for the variables that survive it), `PutActs` (a write to a register
  changes one variable, or one cell if the register is captured), `PoppedActs` (a return
  leaves every frame below as it was, but for the results) and `StartedActs`, `BackActs` and
  `DieActs` (a switch exchanges the two threads and alters neither).
* **`RangeExact`** (`OpcodeProofs`, assuming `ForRangeAssumption`: integers are
  doubles, one beyond either limit included; a sum or difference is rounded to a double, exactly
  if it is one, and not past where it began).  For integers of any width, doubles of any
  precision and any such rounding, and without a hypothesis on the bounds: where the
  preparation leaves them in two representations (30 of section 5) `Visits` says nothing
  (`Matched`), and what it says of a full visit holds where nothing is rounded (`Exact`).
  The invariant relates the iterator to the number of steps taken, separately
  before preparation, after it, and at each step.

The inductive invariants are the definitions `IInv` of these modules, and `LoopInv`; each was checked with TLC on
the instance of its run before it was proved.

Only model-checked:

* all liveness (`CancelHonoured`, `TeardownReturns`, `Finishes`, `Ends`) and what depends on
  fairness: out of the prover's reach;
* `Modules`, `Lowering`, `Expressions`, `Registers`, `Interpret`: they compile, print or check
  trees with recursive operators, which the prover does not take, and what these
  compute is an induction over data.

## 5. Disagreements between the code and its documentation

No configuration expects a violation: each of these is kept out of a run by a named
constant or by the set of programs, and can be brought back by lifting it.  All were
reproduced with the interpreter built from this source, unless it says otherwise.

Defects that change what a program does:

1. **A range loop whose body ends in a conditional addition stops at the first
   false condition** (`compiler.c:2918`): the fused addition takes the place the false
   branch jumps past.  `FusedUnderTest` of `MCLowering`.
2. **A `return` of several values that begins with a local overwrites the locals
   after it** (`compiler.c:3028`).  With `a, b, c` = 1, 2, 3,
   `return a, c, b` answers 1, 3, 3.  `docs/src/reference/types.md:123` and
   `tests/test_multiret.mg:14-16` return several values.
3. **A dict can fill all its index slots; a lookup of an absent key then never
   returns** (`object.c:700`).  Growth happens on the next
   *store*.  Eight stores and one deletion with well-spread keys are enough.
4. **A range loop that ends in a struct declaration may run no further**
   (`compiler.c:2905-2918`): the last word of the declaration is data, and when it is 19
   it is taken for the addition to be fused.  The script prints nothing, `build`
   refuses it.  `FusedData` of `MCLowering`.
5. **A closure that assigns a variable of a suspended coroutine can lose the
   value** (`vm.c:3833`).  The barrier remembers the upvalue, whose `closed` field
   the collector looks at; the value is in the coroutine's stack.  With
   `OutsideStores = TRUE` the run `coroutine` violates `StackLive`.
6. **The parser misreads comparisons as lookups** (`parser.c:861-935`): `a < b and
   c > (d)`, `a < b and c > -2`, `let t = 1 < 2` with `let d = &<k = 1>` on the next
   line, and `v < &<p = 1>` are syntax errors.
7. **The parser does not return from `struct S 5 end`** (`parser.c:1449`): a token that is
   no field is never consumed.
8. **A scope that ends normally closes none of its captured variables**
   (`compiler.c:333`): `end_scope` looks for captured locals deeper than the scope it
   ends, before it leaves that scope, and finds none.  A closure made in one
   iteration of a loop shares its variable with whatever has the register next.
   `Frames` follows the code: its `EndScope` closes nothing, and `CallsRefined` says nothing
   of what is done while such a variable is still captured (`Leaked`).  `MCLowering`
   has captured variables only in blocks that a jump leaves, whose clean-up closes them.
9. **Folding lets a call spread**: `let v, w = 1 < 2 and f(1)` gives `v` and `w` both
   results of `f`, where the same line with a variable gives one
   (`compiler.c:3872-3906`).
10. **The compiler does not return from a circle of imports** (`compiler.c:3488-3620`).
11. **A file's body that yields, and is imported again meanwhile, runs twice**, and its
    importers get different namespaces; `docs/src/language/09-modules.md:38` and `:40`
    promise one run.  A file that returns null early or whose top-level `?` fails gives null,
    is not kept, and runs again at each import.  `Modules` has such files; `LoadedOnce` says
    exactly when a body may run again.
12. **A chain of 64 imports runs from source and cannot be built** (`serialize.c:349`), as each
    file is nested in its importer; a file imported along two paths is compiled
    twice.
13. **`mt` cannot reinstall itself** (`mt.c:603-618`): run from the prefix it fails to
    open its own file for writing, after it has replaced the interpreter and the library and
    before the header and `VERSION`; `docs/src/getting-started/installation.md:83`
    describes updates.  In `Setup`, `inside` is that case; `VersionIsCommit` holds.
14. **A deferred call ending in `?` sends the compiler into unbounded recursion**
    (`compiler.c:390`).
15. **A lookup fused into an update**, `x = x + o["k"]?`, **leaves the function without
    its deferred calls when it fails** (`compiler.c:1435`; `FusedLookup` of
    `MCExpressions`), which `docs/src/reference/syntax.md:286` excludes.

The type checker of `!strict` files:

16. **Assignments are never checked** (`typecheck.c:954`): they reach `check_expr`
    inside an expression statement, which has no case for them, so
    `let d: number = 1` followed by `d = "s"` is accepted, as are assignments to
    constants, fields, items and names that do not exist.  `check_assignment_target`
    cannot be reached.  `docs/src/reference/types.md:180` says that the checker reports
    obvious mismatches, `syntax.md:59` that annotations are checked.
17. A method taken as a value (`let m = s.m`, or a struct passed for a shape with that
    method) has its type without the first parameter, and calling it fails; a
    function kept in a struct's field is accepted as `s.f(2)` and not found.
18. A struct may be taken for a shape and the shape for a dict, whose lookups then
    give null.
19. Refused though they run: an interpolated string with an expression (Unknown symbol
    `__builtin_tostring`), any use of an enum, literals of shapes inside arrays or other
    shapes or returned, a struct indexed by a string.  Accepted though they
    need not hold: missing fields of a struct literal, a function with a result that does
    not return, the other names of a `let`, bounds of a range that are no numbers,
    parameters of functions compared covariantly.

Loops:

36. **A dict that grows in a loop over it makes the loop pass over live keys**
    (`object.c:663`, `vm.c:6974`): growth drops the deleted entries, and the loop goes on
    at its old index.  Delete two keys of six, begin a loop, store four in its first turn.
    `LoopExact` leaves out what follows such growth (`shifted`).
37. **A loop `for k in c` whose body uses no further register cannot be built**
    ("Failed to write"): `OP_ITER_NEXT` writes a value after the key
    (`vm.c:6983`), for which the compiler reserves no register (`compiler.c:2973`), and the
    validator looks (`serialize.c:1007`).  `for k in d  return k end` is one.
38. **The end of a range is compiled when its variable is declared**
    (`compiler.c:2876`): with a variable `n` of 4 outside, `for n in 0..n` makes no turn and
    `for n in 1..n+2` two.
39. `for k, v in array` leaves `v` unwritten (`vm.c:6970`).  The two registers of a
    range loop are not given back after it.
40. **The start of a range of doubles is not always what the loop begins with** (`vm.c:4785`,
    `vm.c:4804`): the preparation subtracts one and the loop adds it again, each rounded.
    `for i in 0.1..3` sees 0.09999999999999998, 1.1, 2.1.  `Exact` of `ForRange`.
41. **A range of doubles beyond 2^53 does not end**: 9007199254740991.0 to
    9007199254740994.0 adds one to a number that it does not change.  `Advances`.

Imports and coroutines:

42. **A file that returns a value replaces its exports by it** (`compiler.c:3026-3036`,
    `compiler.c:3641-3644`): after `export let x = 1` and `return 5` every import of the file
    gives 5.  `docs/src/language/09-modules.md:36-40` says that importers share the exports.
43. **The collector may walk through freed upvalues** (`gc.c:360`): a resumed
    coroutine's object still has the list of its last suspension.  A variable that it
    captures now, one below a captured one, is linked behind an upvalue of that list
    (`vm.c:3311-3314`); closing does not undo the link (`vm.c:3341-3353`), minor collections
    do not follow it from an old coroutine, and the next major collection does, to what the
    minor one has reclaimed.  With `LateCaptures = TRUE` the run `coroutine` violates
    `CoroutinesLive` in twelve steps; found by TLC, not reproduced.

Smaller things met while modelling:

20. `coroutine.status` answers `"new"` for a coroutine that has not run.
21. The arguments of a deferred call are read where the scope is left, and its
    names mean what they mean there (`compiler.c:386`).
22. An assignment to a captured variable that shares its name with a global the
    script declares goes to one of the two by the order of the tests
    (`compiler.c:2358`).
23. An assignment that is the last statement of a `try` block used as a value is not
    compiled for its effect (`compiler.c:3045`).
24. Temporaries that are not on top when they are freed stay allocated to the end of
    their scope, so a long body can run out of registers (`compiler.c:189`).
25. A captured local that an operand's call assigns is read before or after that
    call by the form of the other operand, as locals are operands in place.
26. A lookup fused into an update writes its two results before captured variables
    are closed when it fails.
27. A coroutine dropped while suspended takes the stack with it that an open
    upvalue still points into (`gc.c:456`; `DropSuspended`).
28. `vm.join` does not look at the cancel flag of the caller (`vm.c:1985`); the
    liveness properties of `VmTask` make that exception.
29. `OP_ITER_NEXT` keeps a jump distance in eight bits (`compiler.c:2998`;
    `OperandRange`).
30. A range with an integer and a double bound that stays mixed, and one from
    `INT32_MIN`, count in a way that need not end (`vm.c:4769`, `vm.c:4785`;
    `LeavesMixed`).
31. At the implicit end of a function deferred calls run before captured variables
    are closed, at an explicit `return` after.
32. The inline caches are cleared by minor collections too (`gc.c:532`); `Heap` and
    `InlineCaches` follow the code.
33. `-0` folds to 0; `print(1 .. 2)` prints null; a line that begins with a parenthesis or a
    bracket goes on with the expression of the line before it (`Continues`); a function is
    collected by the checker before its declaration and undefined when it runs.
34. `VERSION` holds the version of the `mt` that runs, not of what it built;
    `write_version_file` ignores a failing `fclose`; `mt list` shows a binding whose copy
    failed.
35. `read_function` sets `const_count` before the constants are read, while the
    function is rooted (`serialize.c:123`, `gc.c:268`); found by reading only.

## 6. Not modelled

* The lexer's characters: `Scanned` gives tokens with their lines; numbers, escapes and
  comments are decided character by character without state.
* The fused accumulator loops (`OP_FORADD*`, `OP_FOR_MODI_ACCUM`,
  `OP_FOR_FIELD2_ACCUM`, `OP_ARRAY_MARK_FALSE_STRIDE`, and
  `OP_MULLOCAL_ADD`, `OP_MULLOCAL_SUB`): the compiler here never emits them.
* Of the compiler: the analysis of `compile_accumulator_loop`, enums, methods, headers.
* Of the serializer: the bytes, versions and string constants.  `Validator` is the control flow,
  `Modules` the counters and the order of writing and loading.
* Of the type checker: the signatures of the builtin modules, and enums, which it
  gives no symbol.
* The contents of the task queue, and chains of coroutines in `Frames`; `Coroutine`
  has chains, and of a frame only its captured variables.
* Byte accounting of the allocator (`next_gc`, thresholds): abstracted to a free
  choice of collection.
* What `git`, `make` and the editor do inside; `mt list`; the driver's command line.
* The language server: one thread that answers each message by a text search over the
  open document, with no state but the documents.
* The FFI glue and the bindings: calls through to the C API, whose roots are in `Heap`.
* Numeric and string natives: pure functions of one call.
* `for in` over an array that its body changes: an index that is compared with the
  count at every turn.

## 7. Plan

In this order.  Runs are kept to one per question, so a new module that answers a
question of an old one joins its run.

1. Proofs: of `Modules`, `LoadedOnce`, for which its recursive compilation has to become
   a recursive function.
2. `Allocator`: the byte counters and the two thresholds that choose the
   collections `Heap` leaves open, as a refinement of the choice.
