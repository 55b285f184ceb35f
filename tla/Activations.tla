---------------------------- MODULE Activations ----------------------------
(***************************************************************************)
(* What function calls, captured variables and coroutines promise a        *)
(* script, without stacks: every activation has variables of its own, a    *)
(* captured variable is a cell that all closures share and that outlives   *)
(* the activation, a caller gets as many results as it asked for, and a    *)
(* coroutine that is resumed finds its activations as it left them.        *)
(***************************************************************************)
EXTENDS Naturals, Sequences

CONSTANTS
    Literal, Null, True, Err, Fn,   \* values
    Cell, None,                     \* cells, and what one not yet used holds
    Lists,          \* of values that host functions answer and yields hand over
    Arguments,      \* of calls
    Wanted          \* how many results a call can ask for

VARIABLES
    act,        \* the activations of each thread, innermost last: their
                \* variables and the number of results their caller wants
    cell,       \* what each cell holds, None before it is used
    asked,      \* the number of results the running coroutine's resumer wants
    ended,      \* whether the coroutine has ended
    running     \* the thread that runs, "host", or "between" two closures

vars == <<act, cell, asked, ended, running>>

\* A variable is a value, or a reference to a cell once it is captured.
ValueOf(x) == IF x \in [cell : Cell] THEN cell[x.cell] ELSE x

Active == running \in {"main", "co"} /\ act[running] # <<>>
Own == act[running][Len(act[running])].vars

\* The activations as with variables xs in the innermost one.
WithVars(as, xs) == [as EXCEPT ![Len(as)].vars = xs]
SetVars(xs) == act' = [act EXCEPT ![running] = WithVars(@, xs)]

\* Results of which n are wanted: cut, or filled up with null.
Fitted(results, n) == [i \in 1 .. n |-> IF i <= Len(results) THEN results[i] ELSE Null]

Init ==
    /\ act = [t \in {"main", "co"} |-> <<>>]
    /\ cell = [u \in Cell |-> None]
    /\ asked = 0 /\ ~ended /\ running = "host"

\* An error that comes alone is the second of several results.
Error(n) == IF n > 1 THEN <<Null, Err>> ELSE <<Err>>

\* n new variables, as the host function or the instruction returns them
Declare(values) ==
    /\ Active /\ SetVars(Own \o values)
    /\ UNCHANGED <<cell, asked, ended, running>>

Assign(i, v) ==
    /\ IF Own[i] \in [cell : Cell]
       THEN cell' = [cell EXCEPT ![Own[i].cell] = v] /\ UNCHANGED act
       ELSE SetVars([Own EXCEPT ![i] = v]) /\ UNCHANGED cell
    /\ UNCHANGED <<asked, ended, running>>

EndScope(n) == SetVars(SubSeq(Own, 1, n)) /\ UNCHANGED <<cell, asked, ended, running>>

\* A new closure captures the i-th variable: all closures that do share one
\* cell, which starts with the variable's value.
Capture(i, u) ==
    LET own == Append(Own, Fn)
    IN  /\ IF own[i] \in [cell : Cell]
           THEN own[i].cell = u /\ SetVars(own) /\ UNCHANGED cell
           ELSE /\ cell[u] = None
                /\ SetVars([own EXCEPT ![i] = [cell |-> u]])
                /\ cell' = [cell EXCEPT ![u] = own[i]]
        /\ UNCHANGED <<asked, ended, running>>

\* A closure reads or assigns the variable it captured.
Load(u) == cell[u] # None /\ Declare(<<cell[u]>>)
Store(u, v) == cell[u] # None /\ cell' = [cell EXCEPT ![u] = v] /\ UNCHANGED <<act, asked, ended, running>>

Call(args, n) ==
    /\ act' = [act EXCEPT ![running] = Append(@, [vars |-> <<Fn>> \o args, want |-> n])]
    /\ UNCHANGED <<cell, asked, ended, running>>

\* The values of the callee's variables i to j
Values(i, j) == [k \in 1 .. (j + 1 - i) |-> ValueOf(Own[i + k - 1])]

Return(i, j) ==
    LET as == act[running]
        callers == SubSeq(as, 1, Len(as) - 1)
    IN  /\ Len(as) > 1
        /\ act' = [act EXCEPT ![running] = WithVars(callers,
                    callers[Len(callers)].vars \o Fitted(Values(i, j), as[Len(as)].want))]
        /\ UNCHANGED <<cell, asked, ended, running>>

\* The main thread resumes the coroutine and asks for n results.
Resume(n) ==
    /\ running = "main" /\ running' = "co" /\ asked' = n /\ ~ended
    /\ act' = IF act["co"] = <<>>
              THEN [act EXCEPT !["co"] = <<[vars |-> <<Fn>>, want |-> 1]>>]
              ELSE act
    /\ UNCHANGED <<cell, ended>>

\* The coroutine hands results over and leaves its activations as they are.
HandOver(as, results) ==
    /\ act' = [main |-> WithVars(act["main"],
                    act["main"][Len(act["main"])].vars \o Fitted(results, asked)),
               co   |-> as]
    /\ asked' = 0 /\ UNCHANGED cell

\* What resume answers: the values handed over, or true if there are none.
Answer(values) == IF values = <<>> THEN <<True>> ELSE values

\* A yield hands its arguments over and, once resumed, answers n nulls.
Yield(args, n) ==
    ~ended' /\ HandOver(WithVars(act["co"], Own \o Fitted(<<>>, n)), Answer(args))

\* The coroutine's function returns, or an error ends it at any depth, for good.
Complete(i, j) == ended' /\ Len(act["co"]) = 1 /\ HandOver(<<>>, Answer(Values(i, j)))
Break == ended' /\ HandOver(<<>>, Error(asked))

\* The host runs a closure; it ends; the host's run ends, also by an error.
Run ==
    /\ running \in {"host", "between"}
    /\ act' = [act EXCEPT !["main"] = <<[vars |-> <<Fn>>, want |-> 1]>>]
    /\ running' = "main" /\ UNCHANGED <<cell, asked, ended>>

Finish ==
    /\ running = "main" /\ Len(act["main"]) = 1
    /\ act' = [act EXCEPT !["main"] = <<>>]
    /\ running' = "between" /\ UNCHANGED <<cell, asked, ended>>

End ==
    /\ running \in {"main", "between"}
    /\ act' = [act EXCEPT !["main"] = <<>>]
    /\ running' = "host" /\ UNCHANGED <<cell, asked, ended>>

\* A host function answers a list, or one value.
Host == \E n \in Wanted :
            \/ Declare(Fitted(Error(n), n))
            \/ \E xs \in Lists : Declare(Fitted(xs, n))

Inside ==
    \/ \E v \in Literal :
        \/ Declare(<<v>>)
        \/ \E i \in DOMAIN Own : Assign(i, v)
        \/ \E u \in Cell : Store(u, v)
    \/ \E u \in Cell : Load(u) \/ \E i \in 1 .. Len(Own) + 1 : Capture(i, u)
    \/ \E i \in DOMAIN Own : EndScope(i)

Ranges == {r \in (1 .. Len(Own) + 1) \X (0 .. Len(Own)) : r[1] <= r[2] + 1}

Same ==
    /\ Active /\ running' = running
    /\ \/ Inside \/ Host
       \/ \E args \in Arguments, n \in Wanted : Call(args, n)
       \/ \E r \in Ranges : Return(r[1], r[2])

Leave ==
    /\ running = "co" /\ running' = "main"
    /\ \/ \E n \in Wanted, xs \in Lists : Yield(xs, n)
       \/ \E r \in Ranges : Complete(r[1], r[2])
       \/ Break

Next == Run \/ Finish \/ End \/ Same \/ Leave \/ \E n \in Wanted : Resume(n)
Spec == Init /\ [][Next]_vars
=============================================================================
