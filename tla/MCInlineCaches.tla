--------------------------- MODULE MCInlineCaches ---------------------------
(***************************************************************************)
(* Two addresses for names, two for structs and one slot in every cache:   *)
(* entries replace one another, and an address comes back as something     *)
(* else.                                                                   *)
(***************************************************************************)
EXTENDS InlineCaches, TLC

CONSTANTS x, y, n1, n2, k1, k2, v1, v2

MCText == {x, y}
MCName == {n1, n2}
MCKlass == {k1, k2}
MCValue == {v1, v2}
MCGlobalSlot == [n \in MCName |-> 0]
MCMemberSlot == [pair \in MCKlass \X MCName |-> 0]
Symmetry == Permutations(MCText) \cup Permutations(MCName)
            \cup Permutations(MCKlass) \cup Permutations(MCValue)
=============================================================================
