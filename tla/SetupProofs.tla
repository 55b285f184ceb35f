----------------------------- MODULE SetupProofs -----------------------------
(***************************************************************************)
(* For any bindings: wherever the commands of mt fail or are killed, no    *)
(* temporary directory is left by a command that ends by itself, VERSION   *)
(* stands for a whole installation, and exit code 0 for all the files.     *)
(***************************************************************************)
EXTENDS Setup, TLAPS

Steps == {"guard", "prefix", "tools", "temp", "clone", "sparse", "make", "makelib",
          "remove", "extension", "end"} \cup Files

\* A command ends once.
Running == run # Idle => ended = "running"

\* The temporary directory is on the list of cleanup_temp_dirs while there.
Registered == run # Idle /\ temp = "there" => run.registered

\* What the steps a command has passed wrote is still there.
Kept ==
    run # Idle =>
        /\ run.at \in 1..Len(Plan(run.cmd))
        /\ \A i \in 1..(run.at - 1) : LET step == Plan(run.cmd)[i] IN
             /\ step \in Core \cup Bindings \cup {"sources"} => disk[step] = "new"
             /\ step \in {"version", "pkgconfig"} => disk[step] \in {"partial", "new"}
             /\ step = "remove" => \A f \in Files : disk[f] = "absent"

\* Between the two halves of installing the extension the editor has it.
EditorFirst == At("extension") /\ run.open => editor

IInv ==
    TypeOK /\ Running /\ Registered /\ Kept /\ EditorFirst /\ NoLitter /\ ExtensionMarked
-----------------------------------------------------------------------------
LEMMA BindingPlanIs ==
    ASSUME NEW b \in Bindings
    PROVE  /\ Len(BindingPlan(b)) = IF b \in Native THEN 8 ELSE 7
           /\ BindingPlan(b)[1] = "guard" /\ BindingPlan(b)[2] = "tools"
           /\ BindingPlan(b)[3] = "temp" /\ BindingPlan(b)[4] = "clone"
           /\ BindingPlan(b)[5] = "sparse" /\ BindingPlan(b)[6] = b
           /\ BindingPlan(b)[7] = IF b \in Native THEN "sources" ELSE "end"
           /\ b \in Native => BindingPlan(b)[8] = "end"
  <1>1. CASE b \in Native
    BY <1>1 DEF BindingPlan
  <1>2. CASE b \notin Native
    BY <1>2 DEF BindingPlan
  <1>3. QED
    BY <1>1, <1>2

LEMMA PlanIs ==
    /\ Plan("core") = CorePlan
    /\ Plan("extension") = ExtensionPlan
    /\ Plan("uninstall") = UninstallPlan
    /\ \A b \in Bindings : Plan(b) = BindingPlan(b)
  BY SetupAssumption DEF Plan, Words

LEMMA PlanShape ==
    ASSUME NEW c \in Commands
    PROVE  /\ Len(Plan(c)) \in 1..13
           /\ \A i \in 1..Len(Plan(c)) : Plan(c)[i] \in Steps
           /\ \A i \in 1..Len(Plan(c)) : Plan(c)[i] = "end" <=> i = Len(Plan(c))
           /\ \A i, j \in 1..Len(Plan(c)) : Plan(c)[i] = Plan(c)[j] => i = j
           /\ \A i \in 1..Len(Plan(c)) : Plan(c)[i] = "temp" => Plan(c)[i+1] = "clone"
           /\ \A i \in 1..Len(Plan(c)) :
                Plan(c)[i] = "remove" => c = "uninstall" /\ i = 2 /\ Len(Plan(c)) = 3
           /\ \A i \in 1..Len(Plan(c)) : Plan(c)[i] # "marker"
           /\ \A i \in 1..Len(Plan(c)) :
                Plan(c)[i] \in {"version", "pkgconfig"} => c = "core" /\ i > 9
  <1>1. CASE c = "core"
    <2>1. Len(Plan(c)) = 13
      BY <1>1, PlanIs DEF CorePlan
    <2>2. \A i \in 1..13 : Plan(c)[i] \in Steps
      BY <1>1, PlanIs DEF CorePlan, Steps, Files, Core
    <2>3. \A i \in 1..13 : Plan(c)[i] = "end" <=> i = 13
      BY <1>1, PlanIs DEF CorePlan
    <2>4. \A i, j \in 1..13 : Plan(c)[i] = Plan(c)[j] => i = j
      BY <1>1, PlanIs DEF CorePlan
    <2>5. \A i \in 1..13 : Plan(c)[i] = "temp" => Plan(c)[i+1] = "clone"
      BY <1>1, PlanIs DEF CorePlan
    <2>6. \A i \in 1..13 :
            /\ Plan(c)[i] # "remove"
            /\ Plan(c)[i] # "marker"
            /\ Plan(c)[i] \in {"version", "pkgconfig"} => c = "core" /\ i > 9
      BY <1>1, PlanIs DEF CorePlan
    <2>7. QED
      BY <2>1, <2>2, <2>3, <2>4, <2>5, <2>6
  <1>2. CASE c = "extension"
    <2>1. Len(Plan(c)) = 7
      BY <1>2, PlanIs DEF ExtensionPlan
    <2>2. \A i \in 1..7 : Plan(c)[i] \in Steps
      BY <1>2, PlanIs DEF ExtensionPlan, Steps
    <2>3. \A i \in 1..7 : Plan(c)[i] = "end" <=> i = 7
      BY <1>2, PlanIs DEF ExtensionPlan
    <2>4. \A i, j \in 1..7 : Plan(c)[i] = Plan(c)[j] => i = j
      BY <1>2, PlanIs DEF ExtensionPlan
    <2>5. \A i \in 1..7 : Plan(c)[i] = "temp" => Plan(c)[i+1] = "clone"
      BY <1>2, PlanIs DEF ExtensionPlan
    <2>6. \A i \in 1..7 :
            /\ Plan(c)[i] # "remove"
            /\ Plan(c)[i] # "marker"
            /\ Plan(c)[i] \in {"version", "pkgconfig"} => c = "core" /\ i > 9
      BY <1>2, PlanIs DEF ExtensionPlan
    <2>7. QED
      BY <2>1, <2>2, <2>3, <2>4, <2>5, <2>6
  <1>3. CASE c = "uninstall"
    <2>1. Len(Plan(c)) = 3
      BY <1>3, PlanIs DEF UninstallPlan
    <2>2. Plan(c)[1] = "prefix" /\ Plan(c)[2] = "remove" /\ Plan(c)[3] = "end"
      BY <1>3, PlanIs DEF UninstallPlan
    <2>3. QED
      <3>1. \A i \in 1..3 : i = 1 \/ i = 2 \/ i = 3
        OBVIOUS
      <3>2. /\ \A i, j \in 1..3 : Plan(c)[i] = Plan(c)[j] => i = j
            /\ \A i \in 1..3 : Plan(c)[i] \in {"prefix", "remove", "end"}
            /\ \A i \in 1..3 : Plan(c)[i] = "end" <=> i = 3
            /\ \A i \in 1..3 : Plan(c)[i] = "remove" => i = 2
        BY <2>2, <3>1
      <3>3. 1..Len(Plan(c)) = 1..3 /\ Len(Plan(c)) \in 1..13
        BY <2>1
      <3>4. {"prefix", "remove", "end"} \subseteq Steps
        BY DEF Steps
      <3>5. QED
        BY <1>3, <2>1, <3>2, <3>3, <3>4
  <1>4. CASE c \in Bindings
    <2>1. c \notin Words \cup {"sources", "marker", "version", "pkgconfig"} /\ c \in Steps
      BY <1>4, SetupAssumption DEF Steps, Files
    <2>2. CASE c \in Native
      <3>1. /\ Len(Plan(c)) = 8
            /\ Plan(c)[1] = "guard" /\ Plan(c)[2] = "tools"
            /\ Plan(c)[3] = "temp" /\ Plan(c)[4] = "clone"
            /\ Plan(c)[5] = "sparse" /\ Plan(c)[6] = c
            /\ Plan(c)[7] = "sources" /\ Plan(c)[8] = "end"
        BY <1>4, <2>2, PlanIs, BindingPlanIs
      <3>2. QED
        BY <2>1, <3>1 DEF Words, Steps, Files
    <2>3. CASE c \notin Native
      <3>1. /\ Len(Plan(c)) = 7
            /\ Plan(c)[1] = "guard" /\ Plan(c)[2] = "tools"
            /\ Plan(c)[3] = "temp" /\ Plan(c)[4] = "clone"
            /\ Plan(c)[5] = "sparse" /\ Plan(c)[6] = c
            /\ Plan(c)[7] = "end"
        BY <1>4, <2>3, PlanIs, BindingPlanIs
      <3>2. QED
        BY <2>1, <3>1 DEF Words, Steps
    <2>4. QED
      BY <2>2, <2>3
  <1>5. QED
    BY <1>1, <1>2, <1>3, <1>4 DEF Commands

LEMMA PlanDelivers ==
    /\ Len(Plan("core")) = 13 /\ Len(CorePlan) = 13
    /\ \A f \in Core : \E i \in 1..9 : Plan("core")[i] = f
    /\ Plan("core")[10] = "version" /\ Plan("core")[11] = "pkgconfig"
    /\ Len(Plan("uninstall")) = 3
    /\ Plan("uninstall")[1] = "prefix" /\ Plan("uninstall")[2] = "remove"
    /\ \A b \in Bindings : Plan(b)[6] = b /\ Len(Plan(b)) > 6
    /\ \A b \in Native : Plan(b)[7] = "sources" /\ Len(Plan(b)) > 7
  <1>1. /\ Len(Plan("core")) = 13 /\ Len(CorePlan) = 13
        /\ Plan("core")[10] = "version" /\ Plan("core")[11] = "pkgconfig"
        /\ Plan("core")[6] = "interpreter" /\ Plan("core")[7] = "library"
        /\ Plan("core")[8] = "tool" /\ Plan("core")[9] = "header"
    BY PlanIs DEF CorePlan
  <1>2. /\ Len(Plan("uninstall")) = 3
        /\ Plan("uninstall")[1] = "prefix" /\ Plan("uninstall")[2] = "remove"
    BY PlanIs DEF UninstallPlan
  <1>3. ASSUME NEW b \in Bindings PROVE Plan(b)[6] = b /\ Len(Plan(b)) > 6
    BY PlanIs, BindingPlanIs
  <1>4. ASSUME NEW b \in Native
        PROVE  Plan(b)[7] = "sources" /\ Len(Plan(b)) > 7
    BY PlanIs, BindingPlanIs, SetupAssumption
  <1>5. QED
    BY <1>1, <1>2, <1>3, <1>4 DEF Core
-----------------------------------------------------------------------------
\* Where a running command is.
LEMMA Position ==
    ASSUME IInv, NEW step, At(step)
    PROVE  /\ run \in RunType /\ run # Idle /\ run.cmd \in Commands
           /\ run.at \in 1..Len(Plan(run.cmd)) /\ Len(Plan(run.cmd)) \in 1..13
           /\ Plan(run.cmd)[run.at] = step /\ step \in Steps
           /\ step # "end" => /\ run.at < Len(Plan(run.cmd))
                              /\ run.at + 1 \in 1..Len(CorePlan)
           /\ \A i \in 1..(run.at - 1) :
                /\ Plan(run.cmd)[i] # step
                /\ step # "end" => Plan(run.cmd)[i] # "remove"
  <1>1. run # Idle /\ Plan(run.cmd)[run.at] = step
    BY DEF At
  <1>2. run \in RunType /\ run.cmd \in Commands
    BY <1>1 DEF IInv, TypeOK, RunType
  <1>3. run.at \in 1..Len(Plan(run.cmd))
    BY <1>1 DEF IInv, Kept
  <1>4. \A n \in 1..13 : run.at \in 1..n /\ run.at # n => run.at < n /\ run.at + 1 \in 1..13
    BY <1>2 DEF RunType
  <1>5. 1..Len(CorePlan) = 1..13
    BY PlanDelivers
  <1>6. /\ Len(Plan(run.cmd)) \in 1..13 /\ step \in Steps
        /\ step # "end" => run.at # Len(Plan(run.cmd))
    BY <1>1, <1>2, <1>3, PlanShape
  <1>7. ASSUME NEW i \in 1..(run.at - 1)
        PROVE  Plan(run.cmd)[i] # step /\ (step # "end" => Plan(run.cmd)[i] # "remove")
    <2>1. i \in 1..Len(Plan(run.cmd)) /\ i < run.at
      BY <1>3, <1>6
    <2>2. Plan(run.cmd)[i] # step
      BY <1>1, <1>2, <1>3, <2>1, PlanShape
    <2>3. Plan(run.cmd)[i] = "remove" => i = 2 /\ Len(Plan(run.cmd)) = 3
      BY <1>2, <2>1, PlanShape
    <2>4. i = 2 /\ Len(Plan(run.cmd)) = 3 => run.at = Len(Plan(run.cmd))
      BY <1>3, <2>1
    <2>5. QED
      BY <1>6, <2>2, <2>3, <2>4
  <1>8. QED
    BY <1>1, <1>2, <1>3, <1>4, <1>5, <1>6, <1>7

LEMMA ExitInv ==
    ASSUME IInv, run # Idle, NEW how \in {"ok", "failed", "refused"}, Exit(how),
           UNCHANGED << disk, editor >>
    PROVE  IInv'
  <1>1. temp' \in {"none", "there", "stuck"} /\ temp' # "there"
    BY DEF Exit, Cleaned, IInv, TypeOK, Registered
  <1>2. run' = Idle
    BY DEF Exit
  <1>3. TypeOK'
    BY <1>1 DEF Exit, IInv, TypeOK
  <1>4. Running' /\ Registered' /\ Kept' /\ EditorFirst'
    BY <1>2 DEF Running, Registered, Kept, EditorFirst, At
  <1>5. NoLitter' /\ ExtensionMarked'
    BY <1>1 DEF IInv, NoLitter, ExtensionMarked
  <1>6. QED
    BY <1>3, <1>4, <1>5 DEF IInv

\* A step is passed, having written the file it is named for, the marker, or none.
LEMMA AdvanceInv ==
    ASSUME IInv, NEW step, At(step), step # "end", Advance,
           NEW f \in {step, "marker"} \cap Files, NEW content \in Content,
           disk' \in {disk, [disk EXCEPT ![f] = content]},
           editor' = editor, ExtensionMarked',
           step \in Core \cup Bindings \cup {"sources"} => disk'[step] = "new",
           step \in {"version", "pkgconfig"} => disk'[step] \in {"partial", "new"},
           step = "remove" => \A g \in Files : disk'[g] = "absent"
    PROVE  IInv'
  <1>1. /\ run \in RunType /\ run # Idle /\ run.cmd \in Commands
        /\ run.at \in 1..Len(Plan(run.cmd)) /\ Len(Plan(run.cmd)) \in 1..13
        /\ Plan(run.cmd)[run.at] = step /\ run.at < Len(Plan(run.cmd))
        /\ \A i \in 1..(run.at - 1) :
             Plan(run.cmd)[i] # step /\ Plan(run.cmd)[i] # "remove"
    BY Position
  <1>2. /\ run' \in RunType /\ run' # Idle
        /\ run'.cmd = run.cmd /\ run'.at = run.at + 1 /\ run'.open = FALSE
        /\ run'.registered = run.registered
    <2>1. run' = [cmd |-> run.cmd, at |-> run.at + 1, inside |-> run.inside,
                  open |-> FALSE, registered |-> run.registered]
      BY <1>1 DEF Advance, RunType
    <2>2. run.at + 1 \in 1..Len(CorePlan)
      BY Position
    <2>3. QED
      BY <1>1, <2>1, <2>2 DEF RunType, Idle
  <1>3. TypeOK'
    BY <1>2 DEF IInv, TypeOK, Advance
  <1>4. Running' /\ Registered' /\ EditorFirst' /\ NoLitter'
    BY <1>1, <1>2 DEF IInv, Running, Registered, EditorFirst, NoLitter, Advance, At
  <1>5. Kept'
    <2>1. run'.at \in 1..Len(Plan(run'.cmd))
      BY <1>1, <1>2
    <2>2. ASSUME NEW i \in 1..(run.at - 1)
          PROVE  LET s == Plan(run.cmd)[i] IN
             /\ s \in Core \cup Bindings \cup {"sources"} => disk'[s] = "new"
             /\ s \in {"version", "pkgconfig"} => disk'[s] \in {"partial", "new"}
             /\ s # "remove"
      <3>1. Plan(run.cmd)[i] # "marker"
        BY <1>1, PlanShape
      <3>2. Plan(run.cmd)[i] \in Files =>
              disk'[Plan(run.cmd)[i]] = disk[Plan(run.cmd)[i]]
        BY <1>1, <3>1 DEF IInv, TypeOK
      <3>3. QED
        BY <1>1, <3>2 DEF IInv, Kept, Files
    <2>3. \A i \in 1..(run'.at - 1) : i \in 1..(run.at - 1) \/ i = run.at
      BY <1>1, <1>2
    <2>4. QED
      BY <1>1, <1>2, <2>1, <2>2, <2>3 DEF Kept
  <1>6. QED
    BY <1>3, <1>4, <1>5 DEF IInv

\* A file is open for writing.
LEMMA OpenInv ==
    ASSUME IInv, NEW f \in Files \ {"marker"}, At(f), OpenCopy(f), UNCHANGED editor
    PROVE  IInv'
  <1>1. /\ run \in RunType /\ run # Idle /\ run.cmd \in Commands
        /\ Plan(run.cmd)[run.at] = f
        /\ run.at \in 1..Len(Plan(run.cmd))
        /\ f # "end" => \A i \in 1..(run.at - 1) :
             Plan(run.cmd)[i] # f /\ Plan(run.cmd)[i] # "remove"
    BY Position
  <1>2. f \notin {"end", "extension"}
    BY SetupAssumption DEF Files, Core, Words
  <1>3. run' = [cmd |-> run.cmd, at |-> run.at, inside |-> run.inside,
                open |-> TRUE, registered |-> run.registered]
    BY <1>1 DEF OpenCopy, RunType
  <1>4. TypeOK'
    BY <1>1, <1>3 DEF IInv, TypeOK, OpenCopy, RunType, Content
  <1>5. Running' /\ Registered' /\ NoLitter'
    <2>1. run' # Idle
      BY <1>1, <1>3 DEF RunType, Idle
    <2>2. QED
      BY <1>1, <1>3, <2>1 DEF IInv, Running, Registered, NoLitter, OpenCopy
  <1>6. ExtensionMarked'
    BY DEF IInv, TypeOK, ExtensionMarked, OpenCopy, Files
  <1>7. EditorFirst'
    BY <1>1, <1>2, <1>3 DEF EditorFirst, At
  <1>8. Kept'
    BY <1>1, <1>2, <1>3 DEF IInv, TypeOK, Kept, OpenCopy, Files
  <1>9. QED
    BY <1>4, <1>5, <1>6, <1>7, <1>8 DEF IInv

LEMMA InitInv == Init => IInv
  BY DEF Init, IInv, TypeOK, Running, Registered, Kept, EditorFirst, NoLitter,
         ExtensionMarked, At, Content, Files

LEMMA StartInv == ASSUME IInv, Start PROVE IInv'
  <1>1. PICK c \in Commands, inside \in BOOLEAN :
          run' = [cmd |-> c, at |-> 1, inside |-> inside, open |-> FALSE,
                  registered |-> FALSE]
    BY DEF Start
  <1>2. run' \in RunType
    BY <1>1, PlanIs, PlanDelivers DEF RunType
  <1>3. Len(Plan(c)) \in 1..13
    BY PlanShape
  <1>4. TypeOK'
    BY <1>2 DEF IInv, TypeOK, Start, Content
  <1>5. Running' /\ Registered' /\ EditorFirst' /\ NoLitter'
    BY <1>1 DEF Start, Running, Registered, EditorFirst, NoLitter
  <1>6. Kept'
    <2>1. run'.at = 1 /\ run'.cmd = c /\ 1..(run'.at - 1) = {}
      BY <1>1
    <2>2. \A n \in 1..13 : 1 \in 1..n
      OBVIOUS
    <2>3. QED
      BY <1>3, <2>1, <2>2 DEF Kept
  <1>7. ExtensionMarked'
    BY DEF IInv, ExtensionMarked, Start, Files
  <1>8. QED
    BY <1>4, <1>5, <1>6, <1>7 DEF IInv

LEMMA KillInv == ASSUME IInv, Kill PROVE IInv'
  BY DEF Kill, IInv, TypeOK, Running, Registered, Kept, EditorFirst, NoLitter,
         ExtensionMarked, At

\* A step that writes no file.
LEMMA PassInv ==
    ASSUME IInv, NEW step, step \notin Files \cup {"end", "remove"}, At(step), Advance,
           UNCHANGED << disk, editor >>
    PROVE  IInv'
  <1>1. "marker" \in {step, "marker"} \cap Files
    BY DEF Files
  <1>2. ExtensionMarked'
    BY DEF IInv, ExtensionMarked
  <1>3. "absent" \in Content
    BY DEF Content
  <1>4. step \notin Core \cup Bindings \cup {"sources", "version", "pkgconfig", "remove"}
    BY DEF Files
  <1>5. QED
    BY <1>1, <1>2, <1>3, <1>4, AdvanceInv

LEMMA PlainInv ==
    ASSUME IInv, Guard \/ Prefix \/ Command \/ Finish
    PROVE  IInv'
  <1>1. ASSUME NEW step \in {"guard", "prefix", "tools", "clone", "make", "makelib",
                            "sparse"}
        PROVE  step \notin Files \cup {"end", "remove"}
    BY SetupAssumption DEF Files, Core, Words
  <1>2. CASE Guard
    BY <1>1, <1>2, ExitInv, PassInv DEF Guard, DieRefused, At
  <1>3. CASE Prefix
    BY <1>1, <1>3, ExitInv, PassInv DEF Prefix, DieRefused, At
  <1>4. CASE Command
    BY <1>1, <1>4, ExitInv, PassInv DEF Command, DieFailed, At
  <1>5. CASE Finish
    BY <1>5, ExitInv DEF Finish, At
  <1>6. QED
    BY <1>2, <1>3, <1>4, <1>5

LEMMA MakeTempInv == ASSUME IInv, MakeTemp PROVE IInv'
  <1>1. CASE DieFailed
    BY <1>1, ExitInv DEF MakeTemp, DieFailed, At
  <1>2. CASE /\ temp' = "there"
             /\ run' = [run EXCEPT !.at = @ + 1, !.registered = TRUE]
             /\ UNCHANGED ended
    <2>1. /\ run \in RunType /\ run # Idle /\ run.cmd \in Commands
          /\ run.at \in 1..Len(Plan(run.cmd)) /\ Len(Plan(run.cmd)) \in 1..13
          /\ Plan(run.cmd)[run.at] = "temp" /\ run.at < Len(Plan(run.cmd))
      BY Position DEF MakeTemp
    <2>2. run' = [cmd |-> run.cmd, at |-> run.at + 1, inside |-> run.inside,
                  open |-> run.open, registered |-> TRUE]
      BY <1>2, <2>1 DEF RunType
    <2>3. run.at + 1 \in 1..Len(CorePlan)
      BY Position DEF MakeTemp
    <2>4. TypeOK'
      BY <1>2, <2>1, <2>2, <2>3 DEF IInv, TypeOK, RunType, MakeTemp
    <2>5. Running' /\ Registered' /\ NoLitter' /\ ExtensionMarked'
      BY <1>2, <2>1, <2>2 DEF IInv, Running, Registered, NoLitter, ExtensionMarked,
                              MakeTemp, Idle
    <2>6. EditorFirst'
      BY <2>1, <2>2, PlanShape DEF EditorFirst, At
    <2>7. "temp" \notin Core \cup Bindings \cup {"sources", "version", "pkgconfig"}
      BY SetupAssumption DEF Core, Words
    <2>8. Kept'
      BY <2>1, <2>2, <2>7 DEF IInv, Kept, MakeTemp
    <2>9. QED
      BY <2>4, <2>5, <2>6, <2>8 DEF IInv
  <1>3. QED
    BY <1>1, <1>2 DEF MakeTemp

\* Every copy: opened, closed or given up.
LEMMA CopyInv ==
    ASSUME IInv, NEW f \in Files \ {"marker"}, At(f), UNCHANGED editor,
           NEW content \in {"partial", "new"},
           content = "new" \/ f \in {"version", "pkgconfig"},
           OpenCopy(f) \/ CloseCopy(f, content) \/ (DieFailed /\ UNCHANGED disk)
    PROVE  IInv'
  <1>1. CASE OpenCopy(f)
    BY <1>1, OpenInv
  <1>2. CASE CloseCopy(f, content)
    <2>1. f \notin {"end", "remove"}
      BY SetupAssumption DEF Files, Core, Words
    <2>2. disk' = [disk EXCEPT ![f] = content] /\ disk'[f] = content
      BY <1>2 DEF CloseCopy, IInv, TypeOK
    <2>3. ExtensionMarked'
      BY <2>2 DEF IInv, TypeOK, ExtensionMarked, Files
    <2>4. f \in {"version", "pkgconfig"} => f \notin Core \cup Bindings \cup {"sources"}
      BY SetupAssumption DEF Core
    <2>5. f \in {f, "marker"} \cap Files /\ content \in Content
      BY DEF Content
    <2>6. QED
      BY <1>2, <2>1, <2>2, <2>3, <2>4, <2>5, AdvanceInv DEF CloseCopy
  <1>3. CASE DieFailed /\ UNCHANGED disk
    BY <1>3, ExitInv DEF DieFailed, At
  <1>4. QED
    BY <1>1, <1>2, <1>3

LEMMA WriteInv ==
    ASSUME IInv, CopyFile \/ CopyTool \/ WriteText \/ CopyTree
    PROVE  IInv'
  <1>1. CASE CopyFile
    BY <1>1, CopyInv DEF CopyFile, Files, Core
  <1>2. CASE CopyTool
    <2>1. CASE run.inside
      BY <1>2, <2>1, ExitInv DEF CopyTool, DieRefused, At
    <2>2. CASE ~run.inside
      BY <1>2, <2>2, CopyInv DEF CopyTool, Files, Core
    <2>3. QED
      BY <2>1, <2>2
  <1>3. CASE WriteText
    BY <1>3, CopyInv DEF WriteText, Files
  <1>4. CASE CopyTree
    <2>1. Bindings \cup {"sources"} \subseteq Files \ {"marker"}
      BY SetupAssumption DEF Files
    <2>2. QED
      BY <1>4, <2>1, CopyInv DEF CopyTree
  <1>5. QED
    BY <1>1, <1>2, <1>3, <1>4

LEMMA ExtensionInv == ASSUME IInv, Extension PROVE IInv'
  <1>1. "extension" \notin Files \cup {"end", "remove"}
    BY SetupAssumption DEF Files, Core, Words
  <1>2. CASE run.open /\ UNCHANGED editor
             /\ \E c \in {disk["marker"], "partial", "new"} : CloseCopy("marker", c)
    <2>1. PICK c \in {disk["marker"], "partial", "new"} : CloseCopy("marker", c)
      BY <1>2
    <2>2. "marker" \in {"extension", "marker"} \cap Files
      BY DEF Files
    <2>3. c \in Content
      BY <2>2 DEF IInv, TypeOK, Content
    <2>4. ExtensionMarked'
      BY <1>2 DEF Extension, IInv, EditorFirst, ExtensionMarked
    <2>5. "extension" \notin Core \cup Bindings \cup {"sources", "version", "pkgconfig"}
      BY <1>1 DEF Files
    <2>6. QED
      BY <1>1, <1>2, <2>1, <2>2, <2>3, <2>4, <2>5, AdvanceInv DEF CloseCopy, Extension
  <1>3. CASE /\ editor' = TRUE
             /\ run' = [run EXCEPT !.open = TRUE]
             /\ UNCHANGED << disk, temp, ended >>
    <2>1. /\ run \in RunType /\ run # Idle
      BY Position DEF Extension
    <2>2. run' = [cmd |-> run.cmd, at |-> run.at, inside |-> run.inside,
                  open |-> TRUE, registered |-> run.registered]
      BY <1>3, <2>1 DEF RunType
    <2>3. TypeOK'
      BY <1>3, <2>1, <2>2 DEF IInv, TypeOK, RunType
    <2>4. Running' /\ Registered' /\ NoLitter'
      <3>1. run' # Idle
        BY <2>1, <2>2 DEF RunType, Idle
      <3>2. QED
        BY <1>3, <2>1, <2>2, <3>1 DEF IInv, Running, Registered, NoLitter
    <2>5. ExtensionMarked' /\ EditorFirst'
      BY <1>3 DEF ExtensionMarked, EditorFirst
    <2>6. Kept'
      BY <1>3, <2>1, <2>2 DEF IInv, Kept
    <2>7. QED
      BY <2>3, <2>4, <2>5, <2>6 DEF IInv
  <1>4. CASE Advance /\ UNCHANGED << disk, editor >>
    BY <1>1, <1>4, PassInv DEF Extension
  <1>5. QED
    BY <1>2, <1>3, <1>4 DEF Extension

LEMMA RemoveInv == ASSUME IInv, Remove PROVE IInv'
  <1>1. CASE /\ \E f \in Files : disk' = [disk EXCEPT ![f] = "absent"]
             /\ UNCHANGED << run, temp, ended, editor >>
    <2>1. PICK f \in Files : disk' = [disk EXCEPT ![f] = "absent"]
      BY <1>1
    <2>2. TypeOK'
      BY <1>1, <2>1 DEF IInv, TypeOK, Content
    <2>3. Running' /\ Registered' /\ EditorFirst' /\ NoLitter'
      BY <1>1 DEF IInv, Running, Registered, EditorFirst, NoLitter, At
    <2>4. ExtensionMarked'
      BY <1>1, <2>1 DEF IInv, TypeOK, ExtensionMarked, Files
    <2>5. /\ run.at = 2 /\ run.cmd = "uninstall"
      BY Position, PlanShape DEF Remove
    <2>6. Kept'
      <3>1. run'.at = 2 /\ run'.cmd = "uninstall" /\ 1..(run'.at - 1) = {1}
        BY <1>1, <2>5
      <3>2. "prefix" \notin Core \cup Bindings \cup {"sources"}
        BY SetupAssumption DEF Core, Words
      <3>3. QED
        BY <3>1, <3>2, PlanDelivers DEF Kept
    <2>7. QED
      BY <2>2, <2>3, <2>4, <2>6 DEF IInv
  <1>2. CASE DieFailed /\ UNCHANGED << disk, editor >>
    BY <1>2, ExitInv DEF Remove, DieFailed, At
  <1>3. CASE (\A f \in Files : disk[f] = "absent") /\ Advance /\ UNCHANGED << disk, editor >>
    <2>1. "remove" \notin Core \cup Bindings \cup {"sources", "version", "pkgconfig"}
      BY SetupAssumption DEF Core, Words
    <2>2. "marker" \in {"remove", "marker"} \cap Files /\ "absent" \in Content
      BY DEF Files, Content
    <2>3. ExtensionMarked'
      BY <1>3 DEF IInv, ExtensionMarked
    <2>4. QED
      BY <1>3, <2>1, <2>2, <2>3, AdvanceInv DEF Remove
  <1>4. QED
    BY <1>1, <1>2, <1>3 DEF Remove
-----------------------------------------------------------------------------
LEMMA NextInv == IInv /\ [Next]_vars => IInv'
  <1>1. SUFFICES ASSUME IInv, [Next]_vars PROVE IInv'
    OBVIOUS
  <1>2. CASE Start
    BY <1>1, <1>2, StartInv
  <1>3. CASE Kill
    BY <1>1, <1>3, KillInv
  <1>4. CASE Guard \/ Prefix \/ Command \/ Finish
    BY <1>1, <1>4, PlainInv
  <1>5. CASE MakeTemp
    BY <1>1, <1>5, MakeTempInv
  <1>6. CASE CopyFile \/ CopyTool \/ WriteText \/ CopyTree
    BY <1>1, <1>6, WriteInv
  <1>7. CASE Extension
    BY <1>1, <1>7, ExtensionInv
  <1>8. CASE Remove
    BY <1>1, <1>8, RemoveInv
  <1>9. CASE UNCHANGED vars
    BY <1>1, <1>9 DEF vars, IInv, TypeOK, Running, Registered, Kept, EditorFirst,
                      NoLitter, ExtensionMarked, At
  <1>10. QED
    BY <1>1, <1>2, <1>3, <1>4, <1>5, <1>6, <1>7, <1>8, <1>9 DEF Next

\* Whichever steps fail, a command that ends by itself has tried to remove the
\* temporary directory it made (die, cleanup_temp_dirs).
THEOREM NothingLeftBehind == Spec => []NoLitter
  <1>1. IInv => NoLitter
    BY DEF IInv
  <1>2. QED
    BY InitInv, NextInv, <1>1, PTL DEF Spec

\* The marker of the extension is there only when the editor has it
\* (do_install_extension_from_source).
THEOREM MarkedIsInstalled == Spec => []ExtensionMarked
  <1>1. IInv => ExtensionMarked
    BY DEF IInv
  <1>2. QED
    BY InitInv, NextInv, <1>1, PTL DEF Spec

\* VERSION and magnesium.pc are written when every core file of this run is
\* whole (do_install_core).
THEOREM VersionComesLast == Spec => VersionIsCommit
  <1> DEFINE Commits == run # Idle =>
         \A f \in {"version", "pkgconfig"} :
            disk'[f] \notin {disk[f], "absent"} => \A c \in Core : disk[c] = "new"
  <1>1. ASSUME IInv, [Next]_vars PROVE [Commits]_vars
    <2>1. SUFFICES ASSUME NEW f \in {"version", "pkgconfig"}, run # Idle,
                          disk'[f] \notin {disk[f], "absent"}
                   PROVE  At(f)
      <3>1. ASSUME NEW f \in {"version", "pkgconfig"}, At(f), NEW c \in Core
            PROVE  disk[c] = "new"
        <4>1. /\ run # Idle /\ run.cmd \in Commands
              /\ run.at \in 1..Len(Plan(run.cmd))
              /\ Plan(run.cmd)[run.at] = f
          BY <1>1, <3>1, Position
        <4>2. run.cmd = "core" /\ run.at > 9
          BY <4>1, PlanShape
        <4>3. PICK i \in 1..9 : Plan(run.cmd)[i] = c
          BY <4>2, PlanDelivers
        <4>4. i \in 1..(run.at - 1)
          BY <4>1, <4>2, PlanDelivers
        <4>5. QED
          BY <1>1, <4>1, <4>3, <4>4 DEF IInv, Kept
      <3>2. QED
        BY <3>1
    <2>2. f \in Files /\ f \notin Core \cup Bindings \cup {"sources", "marker"}
      BY SetupAssumption DEF Files, Core
    <2>3. disk \in [Files -> Content]
      BY <1>1 DEF IInv, TypeOK
    <2>4. CASE WriteText
      BY <2>1, <2>2, <2>3, <2>4 DEF WriteText, OpenCopy, CloseCopy
    <2>5. CASE CopyFile \/ CopyTool \/ CopyTree
      BY <2>1, <2>2, <2>3, <2>5 DEF CopyFile, CopyTool, CopyTree, OpenCopy, CloseCopy,
                                    Core
    <2>6. CASE Extension
      BY <2>1, <2>2, <2>3, <2>6 DEF Extension, CloseCopy
    <2>7. CASE Remove
      BY <2>1, <2>2, <2>3, <2>7 DEF Remove
    <2>8. CASE Start \/ Kill \/ Guard \/ Prefix \/ Command \/ MakeTemp \/ Finish
      BY <2>1, <2>8 DEF Start, Kill, Guard, Prefix, Command, MakeTemp, Finish
    <2>9. QED
      BY <1>1, <2>1, <2>4, <2>5, <2>6, <2>7, <2>8 DEF Next, vars
  <1>2. QED
    BY InitInv, NextInv, <1>1, PTL DEF Spec, VersionIsCommit

\* Exit code 0 stands for all of the files of the command (main).
THEOREM SuccessDelivers == Spec => SuccessIsComplete
  <1> DEFINE Complete == run # Idle /\ ended' = "ok" => Delivered(run.cmd)
  <1>1. ASSUME IInv, [Next]_vars PROVE [Complete]_vars
    <2>1. SUFFICES ASSUME Finish PROVE Delivered(run.cmd)
      <3>1. ended' = "ok" /\ run # Idle => Finish
        BY <1>1 DEF IInv, Running, Next, vars, Start, Kill, Guard, Prefix, Command,
                    MakeTemp, CopyFile, CopyTool, WriteText, CopyTree, Extension, Remove,
                    DieFailed, DieRefused, Exit, Advance, OpenCopy, CloseCopy
      <3>2. QED
        BY <3>1
    <2>2. /\ run # Idle /\ run.cmd \in Commands
          /\ run.at \in 1..Len(Plan(run.cmd)) /\ Plan(run.cmd)[run.at] = "end"
      BY <1>1, <2>1, Position DEF Finish
    <2>3. run.at = Len(Plan(run.cmd))
      BY <2>2, PlanShape
    <2>4. CASE run.cmd = "core"
      <3>1. run.at = 13
        BY <2>3, <2>4, PlanDelivers
      <3>2. ASSUME NEW f \in Core PROVE disk[f] = "new"
        <4>1. PICK i \in 1..9 : Plan("core")[i] = f
          BY PlanDelivers
        <4>2. QED
          BY <1>1, <2>2, <2>4, <3>1, <4>1 DEF IInv, Kept
      <3>3. \A f \in {"version", "pkgconfig"} : disk[f] \in {"partial", "new"}
        <4>1. Plan("core")[10] = "version" /\ Plan("core")[11] = "pkgconfig"
          BY PlanDelivers
        <4>2. QED
          BY <1>1, <2>2, <2>4, <3>1, <4>1 DEF IInv, Kept
      <3>4. QED
        BY <2>4, <3>2, <3>3 DEF Delivered
    <2>5. CASE run.cmd = "uninstall"
      BY <1>1, <2>2, <2>3, <2>5, PlanDelivers DEF IInv, Kept, Delivered
    <2>6. CASE run.cmd = "extension"
      BY <2>6 DEF Delivered
    <2>7. CASE run.cmd \in Bindings
      <3>1. disk[run.cmd] = "new"
        <4>1. Plan(run.cmd)[6] = run.cmd /\ Len(Plan(run.cmd)) > 6
          BY <2>7, PlanDelivers
        <4>2. QED
          BY <1>1, <2>2, <2>3, <2>7, <4>1 DEF IInv, Kept
      <3>2. ASSUME run.cmd \in Native PROVE disk["sources"] = "new"
        <4>1. Plan(run.cmd)[7] = "sources" /\ Len(Plan(run.cmd)) > 7
          BY <3>2, PlanDelivers
        <4>2. QED
          BY <1>1, <2>2, <2>3, <4>1 DEF IInv, Kept
      <3>3. QED
        BY <2>7, <3>1, <3>2, SetupAssumption DEF Delivered, Words
    <2>8. QED
      BY <2>2, <2>4, <2>5, <2>6, <2>7 DEF Commands
  <1>2. QED
    BY InitInv, NextInv, <1>1, PTL DEF Spec, SuccessIsComplete
=============================================================================
