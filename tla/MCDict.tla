------------------------------- MODULE MCDict -------------------------------
(***************************************************************************)
(* A dict with two index slots at first.  a and b collide, rope is a       *)
(* second pointer to the text of a.                                        *)
(***************************************************************************)
EXTENDS Dict, TLC

CONSTANTS a, b, c, rope, v1, v2

MCKey == {a, b, c, rope}
MCText == (a :> "a") @@ (b :> "b") @@ (c :> "c") @@ (rope :> "a")
MCHash == ("a" :> 3) @@ ("b" :> 3) @@ ("c" :> 6)
MCValue == {v1, v2}
Values == Permutations(MCValue)
=============================================================================
