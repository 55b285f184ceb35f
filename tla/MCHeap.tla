------------------------------- MODULE MCHeap -------------------------------
(***************************************************************************)
(* A heap of two interchangeable closures and a string: enough for chains, *)
(* cycles, an interned string behind an old object, and a reuse list that  *)
(* holds one of the closures and is then full.                             *)
(***************************************************************************)
EXTENDS Heap, TLC

CONSTANTS clo1, clo2, str

MCObj  == {clo1, clo2, str}
MCKind == [o \in MCObj |-> IF o = str THEN "string" ELSE "closure"]

Symmetry == Permutations({clo1, clo2})
=============================================================================
