------------------------------- MODULE Setup -------------------------------
(***************************************************************************)
(* The toolchain manager mt on Linux: what its commands leave in the       *)
(* install prefix, in the temporary directory and in the editor when any   *)
(* step may fail and the process may be killed between any two steps.      *)
(* Commands run one after another.                                         *)
(***************************************************************************)
EXTENDS Naturals, Sequences

CONSTANTS
    Bindings,       \* the bindings mt can install
    Native          \* those that also need the C sources (rust and cpp)

Core == {"interpreter", "library", "tool", "header"}
Files == Core \cup {"version", "pkgconfig", "marker", "sources"} \cup Bindings

\* What else mt gives a name to: the steps of its commands and the commands.
Words == {"guard", "prefix", "tools", "temp", "clone", "sparse", "make", "makelib",
          "remove", "end", "core", "extension", "uninstall", "none"}

\* The bindings are called rust, cpp and csharp.
ASSUME SetupAssumption ==
    /\ Native \subseteq Bindings
    /\ Bindings \cap (Core \cup {"version", "pkgconfig", "marker", "sources"} \cup Words) = {}

\* A file is whole when the running command wrote it ("new") or an earlier one.
Content == {"absent", "partial", "old", "new"}

\* Mutant of CorePlan: VERSION is written as soon as the tool is there.
CorePlanVersionEarly == << "tools", "temp", "clone", "make", "makelib", "interpreter",
               "library", "tool", "version", "header", "pkgconfig", "extension", "end" >>

\* The steps of each command, in the order of the code
CorePlan == << "tools", "temp", "clone", "make", "makelib", "interpreter", "library",
               "tool", "header", "version", "pkgconfig", "extension", "end" >>
BindingPlan(b) == << "guard", "tools", "temp", "clone", "sparse", b >>
                    \o (IF b \in Native THEN << "sources" >> ELSE << >>) \o << "end" >>
ExtensionPlan == << "guard", "tools", "temp", "clone", "sparse", "extension", "end" >>
UninstallPlan == << "prefix", "remove", "end" >>

Commands == {"core", "extension", "uninstall"} \cup Bindings
Plan(c) == CASE c = "core" -> CorePlan
             [] c = "extension" -> ExtensionPlan
             [] c = "uninstall" -> UninstallPlan
             [] OTHER -> BindingPlan(c)

VARIABLES
    disk,       \* the files of the prefix
    editor,     \* VS Code holds the extension
    run,        \* the running command, or Idle
    temp,       \* its temporary directory: "none", "there" or "stuck" (rm failed)
    ended       \* how the last command ended

vars == << disk, editor, run, temp, ended >>

Idle == [cmd |-> "none"]

\* open: the destination of a copy is open; registered: the directory is on the
\* list that die and atexit remove; inside: the running mt is that of the prefix.
RunType == [cmd : Commands, at : 1..Len(CorePlan), inside : BOOLEAN,
            open : BOOLEAN, registered : BOOLEAN]

(***************************************************************************)
(* Starting and ending a process                                           *)
(***************************************************************************)
Init == /\ disk = [f \in Files |-> "absent"]
        /\ editor = FALSE
        /\ run = Idle
        /\ temp = "none"
        /\ ended = "ok"

Start == /\ run = Idle
         /\ \E c \in Commands, inside \in BOOLEAN :
              /\ inside => disk["tool"] \in {"old", "new"}
              /\ run' = [cmd |-> c, at |-> 1, inside |-> inside, open |-> FALSE,
                         registered |-> FALSE]
         /\ disk' = [f \in Files |-> IF disk[f] = "new" THEN "old" ELSE disk[f]]
         /\ temp' = "none"
         /\ ended' = "running"
         /\ UNCHANGED editor

At(step) == run # Idle /\ Plan(run.cmd)[run.at] = step

\* cleanup_temp_dirs removes what is registered; a failing rm is ignored.
Cleaned == IF run.registered THEN {"none", "stuck"} ELSE {temp}

Exit(how) == /\ temp' \in Cleaned
             /\ run' = Idle
             /\ ended' = how

\* die, and the reason why: a call of this run failed, or a refusal.
DieFailed == Exit("failed")
DieRefused == Exit("refused")

Advance == /\ run' = [run EXCEPT !.at = @ + 1, !.open = FALSE]
           /\ UNCHANGED << temp, ended >>

\* A signal ends the process: neither die nor atexit runs.
Kill == /\ run # Idle
        /\ run' = Idle
        /\ ended' = "killed"
        /\ UNCHANGED << disk, editor, temp >>

(***************************************************************************)
(* The steps                                                               *)
(***************************************************************************)
CoreInstalled == disk["library"] # "absent"

Guard == /\ At("guard")
         /\ IF CoreInstalled THEN Advance ELSE DieRefused
         /\ UNCHANGED << disk, editor >>

\* unsafe_uninstall_prefix may refuse whatever the prefix holds.
Prefix == /\ At("prefix")
          /\ Advance \/ DieRefused
          /\ UNCHANGED << disk, editor >>

\* which git, git clone, make and the like.
Command == /\ \E step \in {"tools", "clone", "make", "makelib", "sparse"} : At(step)
           /\ Advance \/ DieFailed
           /\ UNCHANGED << disk, editor >>

\* Mutant of MakeTemp: the directory is not put on the list.
MakeTempUnregistered ==
    /\ At("temp")
    /\ \/ temp' = "there" /\ run' = [run EXCEPT !.at = @ + 1] /\ UNCHANGED ended
       \/ DieFailed
    /\ UNCHANGED << disk, editor >>

\* make_temp_dir, registered before anything is put into it.
MakeTemp == /\ At("temp")
            /\ \/ /\ temp' = "there"
                  /\ run' = [run EXCEPT !.at = @ + 1, !.registered = TRUE]
                  /\ UNCHANGED ended
               \/ DieFailed
            /\ UNCHANGED << disk, editor >>

\* copy_file opens the destination for writing, which empties it, or fails.
OpenCopy(f) == /\ disk' = [disk EXCEPT ![f] = "partial"]
               /\ run' = [run EXCEPT !.open = TRUE]
               /\ UNCHANGED << temp, ended >>

\* ... then writes it to the end, or gives up with what it has written.
CloseCopy(f, content) == /\ disk' = [disk EXCEPT ![f] = content]
                         /\ Advance

CopyFile == /\ \E f \in {"interpreter", "library", "header"} :
                 /\ At(f)
                 /\ \/ ~run.open /\ (OpenCopy(f) \/ (DieFailed /\ UNCHANGED disk))
                    \/ run.open /\ (CloseCopy(f, "new") \/ (DieFailed /\ UNCHANGED disk))
            /\ UNCHANGED editor

\* The system refuses to write the file of a running program. The copy of the
\* built tool comes first, the running one is the second choice.
CopyTool == /\ At("tool")
            /\ IF run.inside
               THEN DieRefused /\ UNCHANGED disk
               ELSE \/ ~run.open /\ (OpenCopy("tool") \/ (DieFailed /\ UNCHANGED disk))
                    \/ run.open /\ (CloseCopy("tool", "new") \/ (DieFailed /\ UNCHANGED disk))
            /\ UNCHANGED editor

\* write_version_file and write_pkg_config: only the opening is checked, what
\* fprintf and fclose return is not.
WriteText == /\ \E f \in {"version", "pkgconfig"} :
                  /\ At(f)
                  /\ \/ ~run.open /\ (OpenCopy(f) \/ (DieFailed /\ UNCHANGED disk))
                     \/ run.open /\ \E c \in {"new", "partial"} : CloseCopy(f, c)
             /\ UNCHANGED editor

\* Mutant of CopyTree: the result of cp is not looked at.
CopyTreeUnchecked ==
    /\ \E b \in Bindings \cup {"sources"} :
         At(b) /\ IF run.open THEN \E c \in {"partial", "new"} : CloseCopy(b, c) ELSE OpenCopy(b)
    /\ UNCHANGED editor

\* copy_tree into a directory made before it, which is what mt list looks for.
CopyTree == /\ \E b \in Bindings \cup {"sources"} :
                 /\ At(b)
                 /\ \/ ~run.open /\ OpenCopy(b)
                    \/ run.open /\ (CloseCopy(b, "new") \/ (DieFailed /\ UNCHANGED disk))
            /\ UNCHANGED editor

\* Mutant of Extension: the marker is written whatever the editor answered.
ExtensionUnchecked ==
    /\ At("extension")
    /\ \/ run.open /\ CloseCopy("marker", "new") /\ UNCHANGED editor
       \/ /\ ~run.open
          /\ editor' \in {editor, TRUE}
          /\ run' = [run EXCEPT !.open = TRUE]
          /\ UNCHANGED << disk, temp, ended >>

\* Building and installing the extension may fail anywhere without ending the
\* command; the marker comes after the editor has accepted it.
Extension == /\ At("extension")
             /\ \/ /\ run.open
                   /\ \E c \in {disk["marker"], "partial", "new"} :
                        CloseCopy("marker", c)
                   /\ UNCHANGED editor
                \/ /\ ~run.open
                   /\ \/ /\ editor' = TRUE
                         /\ run' = [run EXCEPT !.open = TRUE]
                         /\ UNCHANGED << disk, temp, ended >>
                      \/ Advance /\ UNCHANGED << disk, editor >>

\* rm -rf of the prefix, file after file in any order; it may stop half way.
Remove == /\ At("remove")
          /\ \/ /\ \E f \in Files : disk[f] # "absent" /\ disk' = [disk EXCEPT ![f] = "absent"]
                /\ UNCHANGED << run, temp, ended >>
             \/ /\ DieFailed \/ ((\A f \in Files : disk[f] = "absent") /\ Advance)
                /\ UNCHANGED disk
          /\ UNCHANGED editor

Finish == /\ At("end")
          /\ Exit("ok")
          /\ UNCHANGED << disk, editor >>

Next == \/ Start \/ Kill \/ Guard \/ Prefix \/ Command \/ MakeTemp
        \/ CopyFile \/ CopyTool \/ WriteText \/ CopyTree \/ Extension \/ Remove \/ Finish

Spec == Init /\ [][Next]_vars

(***************************************************************************)
(* Properties                                                              *)
(***************************************************************************)
\* The state has its shape.
TypeOK == /\ disk \in [Files -> Content]
          /\ editor \in BOOLEAN
          /\ run \in RunType \cup {Idle}
          /\ temp \in {"none", "there", "stuck"}
          /\ ended \in {"ok", "failed", "refused", "killed", "running"}

\* However a command ends by itself, through die in any step or through the end
\* of main, rm -rf has been tried on the temporary directory it made
\* (register_cleanup_dir, cleanup_temp_dirs).
NoLitter == run = Idle /\ ended # "killed" => temp # "there"

\* do_install_core touches VERSION and magnesium.pc only when every core file is
\* whole and of this run: an installation that died or was killed before keeps
\* the old texts, or none.
VersionIsCommit ==
    [][run # Idle =>
         \A f \in {"version", "pkgconfig"} :
            disk'[f] \notin {disk[f], "absent"} => \A c \in Core : disk[c] = "new"]_vars

\* What a command that exits with 0 has delivered.
Delivered(c) ==
    CASE c = "core" -> /\ \A f \in Core : disk[f] = "new"
                       /\ \A f \in {"version", "pkgconfig"} : disk[f] \in {"partial", "new"}
      [] c = "uninstall" -> \A f \in Files : disk[f] = "absent"
      [] c = "extension" -> TRUE
      [] OTHER -> disk[c] = "new" /\ (c \in Native => disk["sources"] = "new")

\* mt exits with 0 only when all of the files the command is for are there and
\* whole, whichever steps of this command or of earlier ones failed.
SuccessIsComplete == [][run # Idle /\ ended' = "ok" => Delivered(run.cmd)]_vars

\* mt list calls the extension installed only when the editor has taken it,
\* whatever failed or was killed in between.
ExtensionMarked == disk["marker"] # "absent" => editor

=============================================================================
