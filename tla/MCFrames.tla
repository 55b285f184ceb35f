------------------------------ MODULE MCFrames ------------------------------
(* Instance of Frames for TLC. *)
EXTENDS Frames

MCNeeds == [run |-> {4}, called |-> {3}, co |-> {3}]

\* Below the top, a register that no frame uses and no upvalue points at is
\* written before it is read, so what earlier code left there makes no
\* difference; nor does which of the
\* two names of a block a stack has, while nothing has the other one.
Plain(p) == IF p = None THEN None ELSE <<p[1][1], p[2]>>

Captured(c, s) == \E k \in DOMAIN c.open : up[c.open[k]].location[2] = s

Normal(c) ==
    IF c = None THEN None
    ELSE <<c.top, c.open,
           [d \in DOMAIN c.frames |-> [c.frames[d] EXCEPT !.slots = @[2]]],
           [s \in DOMAIN c.stack |->
                IF s < c.top /\ ~LiveSlot(c, s) /\ ~Captured(c, s) THEN Null ELSE c.stack[s]]>>

View ==
    <<Normal(vm), Normal(caller), Normal(co), expected, state,
      [u \in Cell |-> IF up[u] = None THEN None ELSE <<Plain(up[u].location), up[u].closed>>],
      cache, host, StackExact, CacheExact>>
=============================================================================
