------------------------------ MODULE MCTable ------------------------------
(***************************************************************************)
(* Two colliding keys whose home is the last slot at every capacity, and   *)
(* one whose home is the first, so that probes wrap around.                *)
(***************************************************************************)
EXTENDS Table, TLC

CONSTANTS k1, k2, k3, v1, v2

MCKey == {k1, k2, k3}
MCTextOf == (k1 :> "x") @@ (k2 :> "y") @@ (k3 :> "z")
MCHash == ("x" :> 7) @@ ("y" :> 7) @@ ("z" :> 0)
MCValue == {v1, v2}
Symmetry == Permutations(MCValue)
=============================================================================
