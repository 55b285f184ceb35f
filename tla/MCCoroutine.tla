---------------------------- MODULE MCCoroutine ----------------------------
(***************************************************************************)
(* Two coroutines, so that one resumes the other, the first with two       *)
(* variables, so that one is linked behind the other, and one other object.*)
(***************************************************************************)
EXTENDS Coroutine, TLC

CONSTANTS c1, c2, u1, u2, v1

MCCo == {c1, c2}
MCUp == {u1, u2}
MCOf == (u1 :> c1) @@ (u2 :> c1)
MCSlot == (u1 :> 1) @@ (u2 :> 2)
MCVal == {v1}
=============================================================================
