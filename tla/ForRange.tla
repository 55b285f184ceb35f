------------------------------ MODULE ForRange ------------------------------
(***************************************************************************)
(* The numeric range loop: OP_FORPREP, OP_FORLOOP and their variants       *)
(* (src/src/vm.c:4757-4907).                                               *)
(*                                                                         *)
(* A Magnesium number is a 32-bit integer or a double, and a register says *)
(* which.  The loop keeps the variable and the limit in two registers; the *)
(* preparation decides which representation both have, and the loop        *)
(* instruction adds one and compares.  AS_DOUBLE of a register that holds  *)
(* an integer reinterprets its tag bits, which make a NaN.                 *)
(*                                                                         *)
(* A value is counted in units of which One make 1, fine enough for every  *)
(* double: doubles are some of the integers, and Round takes a sum to one  *)
(* of them, itself if it is one.  The largest double stands for infinity,  *)
(* to which adding changes nothing; NaN is not a bound.  The body does not *)
(* assign the loop variable.                                               *)
(***************************************************************************)
EXTENDS Integers

CONSTANTS
    MinInt, MaxInt, \* the range of int32_t
    One,            \* the units in 1
    Double,         \* the doubles
    Round(_),       \* the double that a sum or difference is rounded to
    MaxCount        \* bound on the iterations

ASSUME ForRangeAssumption ==
    /\ MinInt \in Int /\ MaxInt \in Int /\ MinInt < MaxInt
    /\ One \in Nat \ {0} /\ MaxCount \in Nat
    /\ Double \subseteq Int
    /\ \A i \in (MinInt - 1) .. (MaxInt + 1) : i * One \in Double
    /\ \A d \in Double : Round(d + One) \in Double /\ Round(d - One) \in Double
    /\ \A d \in Double : d <= Round(d + One) /\ Round(d - One) <= d
    /\ \A d \in Double : /\ d + One \in Double => Round(d + One) = d + One
                         /\ d - One \in Double => Round(d - One) = d - One

\* A value is its representation and the units it stands for.
INT_VAL(i)     == [kind |-> "int", num |-> i * One]
NUMBER_VAL(d)  == [kind |-> "number", num |-> d]
Bounds         == {INT_VAL(i) : i \in MinInt .. MaxInt} \cup {NUMBER_VAL(d) : d \in Double}

Whole(d) == d % One = 0
InInt(i) == MinInt <= i /\ i <= MaxInt

\* An integer minus one; a double if that is no int32_t.
int_or_number(i) == IF InInt(i) THEN INT_VAL(i) ELSE NUMBER_VAL(i * One)
-----------------------------------------------------------------------------
VARIABLES
    from, to,       \* the bounds, as the script wrote them
    inclusive,      \* ..= or ..
    numeric,        \* the compiler chose OP_FORPREP_NUM: the body makes calls
    iter, limit,    \* the registers R[A] and R[A + 1]
    at,             \* the next instruction
    count           \* the bodies begun

loopVars == <<from, to, inclusive, numeric, iter, limit, at, count>>
given == <<from, to, inclusive, numeric>>

BothInt(v, w) == v.kind = "int" /\ w.kind = "int"

\* Both bounds have values and leave room for the loop.
Narrows(v, w) ==
    /\ Whole(v.num) /\ Whole(w.num)
    /\ (MinInt + 1) * One <= v.num /\ v.num <= MaxInt * One
    /\ MinInt * One <= w.num /\ w.num < MaxInt * One

\* The bounds OP_FORPREP leaves as a double and an integer.
LeavesMixed(v, w) ==
    /\ w.kind = "int"
    /\ IF v.kind = "int" THEN v.num = MinInt * One /\ w.num # MaxInt * One
                         ELSE ~Narrows(v, w)

LoopInit ==
    /\ from \in Bounds /\ to \in Bounds
    /\ inclusive \in BOOLEAN /\ numeric \in BOOLEAN
    /\ iter = from /\ limit = to
    /\ at = "prep" /\ count = 0

\* OP_FORPREP_NUM
PrepareNumeric ==
    /\ at = "prep" /\ numeric
    /\ iter' = NUMBER_VAL(Round(iter.num - One))
    /\ limit' = NUMBER_VAL(limit.num)
    /\ at' = "loop"
    /\ UNCHANGED <<given, count>>

\* Mutant of PrepareInts: the largest integer is a limit like any other.
PrepareIntsUnguarded ==
    /\ BothInt(iter, limit)
    /\ iter' = int_or_number(iter.num \div One - 1)
    /\ UNCHANGED limit

\* OP_FORPREP of two integers
PrepareInts ==
    /\ BothInt(iter, limit)
    /\ IF limit.num = MaxInt * One
       THEN iter' = NUMBER_VAL(Round(iter.num - One)) /\ limit' = NUMBER_VAL(limit.num)
       ELSE iter' = int_or_number(iter.num \div One - 1) /\ UNCHANGED limit

\* OP_FORPREP of other numbers
PrepareOthers ==
    /\ ~BothInt(iter, limit)
    /\ IF Narrows(iter, limit)
       THEN iter' = INT_VAL(iter.num \div One - 1) /\ limit' = INT_VAL(limit.num \div One)
       ELSE iter' = NUMBER_VAL(Round(iter.num - One)) /\ UNCHANGED limit

Prepare ==
    /\ at = "prep" /\ ~numeric
    /\ PrepareInts \/ PrepareOthers
    /\ at' = "loop"
    /\ UNCHANGED <<given, count>>

\* Mutant of Past: .. and ..= exchanged.
PastSwapped(next) ==
    /\ (numeric \/ ~BothInt(iter, limit)) => limit.kind = "number"
    /\ IF inclusive THEN next >= limit.num ELSE next > limit.num

\* OP_FORLOOP, OP_FORLOOP_INC and the _NUM variants, which compare doubles
\* only.  A comparison with a NaN is false.
Past(next) ==
    /\ (numeric \/ ~BothInt(iter, limit)) => limit.kind = "number"
    /\ IF inclusive THEN next > limit.num ELSE next >= limit.num

\* AS_INT(iter) + 1 wraps around; AS_DOUBLE(iter) + 1.0 is rounded.
Successor(v) ==
    IF v.kind = "number" THEN NUMBER_VAL(Round(v.num + One))
    ELSE IF v.num = MaxInt * One THEN INT_VAL(MinInt)
    ELSE INT_VAL(v.num \div One + 1)

Loop ==
    /\ at = "loop" /\ count < MaxCount
    /\ iter' = Successor(iter)
    /\ IF Past(iter'.num) THEN at' = "done" /\ UNCHANGED count
                           ELSE at' = "body" /\ count' = count + 1
    /\ UNCHANGED <<given, limit>>

\* The body runs and OP_LOOP jumps back.
Body ==
    /\ at = "body" /\ at' = "loop"
    /\ UNCHANGED <<given, iter, limit, count>>

LoopNext == PrepareNumeric \/ Prepare \/ Loop \/ Body

LoopSpec == LoopInit /\ [][LoopNext]_loopVars
FairLoopSpec == LoopSpec /\ WF_loopVars(LoopNext)
-----------------------------------------------------------------------------
IsValue(v) == \/ v \in {INT_VAL(i) : i \in MinInt .. MaxInt}
              \/ v \in [kind : {"number"}, num : Double]

\* Every variable has its type; an integer is an int32_t.
LoopTypeOK ==
    /\ from \in Bounds /\ to \in Bounds
    /\ inclusive \in BOOLEAN /\ numeric \in BOOLEAN
    /\ IsValue(iter) /\ IsValue(limit)
    /\ at \in {"prep", "loop", "body", "done"} /\ count \in Nat

\* The n-th value of the range, and whether it is in it
Nth(n) == from.num + (n - 1) * One
InRange(d) == IF inclusive THEN d <= to.num ELSE d < to.num

\* The preparation leaves both bounds in one representation.
Matched == numeric \/ ~LeavesMixed(from, to)

\* The values of the range, and those before the first and after the last,
\* are doubles: nothing is rounded.
Exact ==
    /\ from.num - One \in Double
    /\ \A d \in from.num .. to.num + One : Whole(d - from.num) => d \in Double

\* Adding one to a double up to the limit makes it larger.
Advances ==
    \A d \in Double : Round(from.num - One) <= d /\ d <= to.num => d < Round(d + One)

\* The body sees no value beyond the limit, and the loop ends at one.  If nothing
\* is rounded, it sees the values of the range one after another, and when it
\* ends all of them, whatever the representation of the bounds.
Visits ==
    Matched =>
        /\ at = "body" => InRange(iter.num)
        /\ at = "done" => ~InRange(iter.num)
        /\ Exact => /\ at = "body" => iter.num = Nth(count)
                    /\ at = "done" => ~InRange(Nth(count + 1))

\* The loop never adds one to the largest int32_t, and never mixes the two
\* representations.
NoOverflow ==
    at = "loop" => /\ iter.kind = "int" => iter.num < MaxInt * One
                   /\ Matched => iter.kind = limit.kind

\* The loop ends, if adding one makes a difference.
Ends == Matched /\ Advances ~> at = "done"
=============================================================================
