----------------------------- MODULE MCForRange -----------------------------
\* Three-bit integers; doubles with three significant bits down to a sixteenth
\* and up to fourteen, rounded to the nearest, to the even one of two as near.
EXTENDS ForRange

MCMinInt == -4
MCOne == 16

Magnitude(d) == IF d < 0 THEN -d ELSE d
Spacing(d) == CHOOSE s \in {2 ^ k : k \in 0 .. 6} :
    Magnitude(d) < 8 * s /\ (s = 1 \/ Magnitude(d) >= 4 * s)

Largest == 7 * 2 ^ 5
MCDouble == {m * 2 ^ k : m \in -7 .. 7, k \in 0 .. 5}

Nearest ==
    [d \in -(Largest + MCOne) .. Largest + MCOne |->
        LET s == Spacing(d)
            below == d - (d % s)
            up == IF 2 * (d % s) = s THEN (below \div s) % 2 = 1 ELSE 2 * (d % s) > s
            near == IF up THEN below + s ELSE below
        IN  IF near > Largest THEN Largest ELSE IF near < -Largest THEN -Largest ELSE near]

MCRound(d) == Nearest[d]
=============================================================================
