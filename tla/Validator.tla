------------------------------ MODULE Validator -----------------------------
(***************************************************************************)
(* What bytecode the runtime saves and loads (validate_function in         *)
(* src/src/serialize.c).  The interpreter checks nothing while it runs, so *)
(* this is where jumps into the data of an instruction, or out of the      *)
(* code, have to be found.                                                 *)
(*                                                                         *)
(* Code is a sequence of words.  An instruction is its word and the words  *)
(* of data after it: width[i] words in all if it is at i.  follows[i] are  *)
(* the addresses where the interpreter may go on after it.                 *)
(***************************************************************************)
EXTENDS Integers, Sequences

\* The addresses reached from i instruction by instruction, the end included
RECURSIVE Walk(_, _)
Walk(width, i) == IF i > Len(width) THEN {i} ELSE {i} \cup Walk(width, i + width[i])

Starts(width) == Walk(width, 1) \cap DOMAIN width

\* The last instruction has all its words, and every instruction is followed
\* by instructions: validate_control_flow.
ValidControlFlow(width, follows) ==
    LET starts == Starts(width)
    IN  /\ width # <<>> /\ Len(width) + 1 \in Walk(width, 1)
        /\ \A i \in starts : follows[i] \subseteq starts
=============================================================================
