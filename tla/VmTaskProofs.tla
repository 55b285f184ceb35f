---------------------------- MODULE VmTaskProofs ----------------------------
(***************************************************************************)
(* For every set of tasks, spawned, joined and cancelled in any tree: no   *)
(* task object and no VM goes before the thread that uses it, and a report *)
(* is the final one.                                                       *)
(***************************************************************************)
EXTENDS VmTask, TLAPS

InScript == {"load", "run", "joining", "polling", "reading", "detach"}
WithVm == InScript \cup {"publish", "cancelling", "reaping"}

\* A thread runs for a task that vm.spawn handed out, and only for such a task.
Spawned ==
    \A t \in Task :
        /\ started[t] <=> pc[t] # "none"
        /\ started[t] => object[t] # "none"
        /\ t \in tracked \/ joined[t] \/ reported[t] # "none" => started[t]

\* The child VM is there while its thread is in it, its address is published
\* for a part of that time, and a request in that time reaches its flag.
ChildPhases ==
    \A t \in Task :
        /\ childVm[t] => pc[t] \in InScript
        /\ pc[t] \in WithVm => vmLive[t]
        /\ childVm[t] /\ cancelReq[t] => childCancel[t]

\* The outcome is decided before the child is detached and final afterwards.
OutcomePhases ==
    \A t \in Task :
        /\ pc[t] = "detach" => ended[t] # "running"
        /\ pc[t] \in {"cancelling", "reaping", "finish", "exit"} => ended[t] \in Outcomes
        /\ pc[t] = "exit" => result[t] = ended[t]

\* A VM waits for a task of its own heap that is still there.
Waits ==
    \A v \in VM :
        /\ pc[v] \in {"joining", "polling", "reading"} => target[v] \in Handles(v)
        /\ pc[v] \in {"joining", "reading"} => joined[target[v]]
        /\ pc[v] = "reading" => pc[target[v]] = "exit"

\* task->joined is set before pthread_join returns: until then the one thread
\* that may read the flag is inside that call.
JoinsEnd ==
    \A t \in Task :
        joined[t] => \/ pc[t] = "exit"
                     \/ /\ pc[owner[t]] = "joining"
                        /\ target[owner[t]] = t

\* A task that vm_tasks lists no more, or that vm_free has reaped, has ended.
Reaped ==
    \A t \in Task :
        /\ started[t]
        /\ \/ t \notin tracked
           \/ /\ pc[owner[t]] = "reaping"
              /\ t \notin todo[owner[t]]
        => pc[t] = "exit" /\ joined[t]

\* The inductive invariant: the four invariants of the runs (ChildPointerValid
\* follows from the phases) and what a step needs to know of the threads.
IInv ==
    /\ TypeOK
    /\ Spawned
    /\ ChildPhases
    /\ OutcomePhases
    /\ Waits
    /\ JoinsEnd
    /\ Reaped
    /\ ThreadOutlivedByTask
    /\ ReportIsFinal
-----------------------------------------------------------------------------
(***************************************************************************)
(* Natives a script calls.  In each lemma the parts of the invariant that  *)
(* carry over without help of another part come first.                     *)
(***************************************************************************)
LEMMA SpawnInv ==
    ASSUME IInv, NEW v \in VM, NEW t \in Task, Spawn(v, t)
    PROVE  IInv'
  <1>1. TypeOK'
    BY DEF IInv, TypeOK, Spawn, childVars
  <1>2. /\ Spawned' /\ OutcomePhases' /\ Waits'
        /\ Reaped' /\ ThreadOutlivedByTask'
    BY DEF IInv, TypeOK, Spawned, OutcomePhases, Waits, Handles, Reaped,
           ThreadOutlivedByTask, VM, Spawn, childVars
  <1>3. ChildPhases'
    BY DEF IInv, TypeOK, ChildPhases, InScript, WithVm, Spawned, Spawn, childVars
  <1>4. JoinsEnd'
    BY DEF IInv, TypeOK, JoinsEnd, Spawned, Spawn
  <1>5. ReportIsFinal'
    BY DEF IInv, TypeOK, ReportIsFinal, Spawned, Spawn, childVars
  <1>6. QED
    BY <1>1, <1>2, <1>3, <1>4, <1>5 DEF IInv

LEMMA SpawnFailsInv ==
    ASSUME IInv, NEW v \in VM, NEW t \in Task, SpawnFails(v, t)
    PROVE  IInv'
  <1>1. TypeOK'
    BY DEF IInv, TypeOK, SpawnFails, childVars
  <1>2. /\ Spawned' /\ ChildPhases' /\ OutcomePhases' /\ Waits'
        /\ Reaped' /\ ThreadOutlivedByTask' /\ ReportIsFinal'
    BY DEF IInv, TypeOK, Spawned, ChildPhases, OutcomePhases, Waits, Handles, Reaped,
           ThreadOutlivedByTask, ReportIsFinal, SpawnFails, childVars
  <1>3. JoinsEnd'
    BY DEF IInv, TypeOK, JoinsEnd, Spawned, SpawnFails
  <1>4. QED
    BY <1>1, <1>2, <1>3 DEF IInv

LEMMA CancelInv ==
    ASSUME IInv, NEW v \in VM, NEW t \in Task, Cancel(v, t)
    PROVE  IInv'
  <1>1. TypeOK'
    BY DEF IInv, TypeOK, Cancel, RequestCancel, taskVars
  <1>2. /\ Spawned' /\ ChildPhases' /\ OutcomePhases' /\ Waits'
        /\ JoinsEnd' /\ Reaped' /\ ThreadOutlivedByTask' /\ ReportIsFinal'
    BY DEF IInv, TypeOK, Spawned, ChildPhases, OutcomePhases, Waits, Handles,
           JoinsEnd, Reaped, ThreadOutlivedByTask, ReportIsFinal, Cancel,
           RequestCancel, taskVars
  <1>3. QED
    BY <1>1, <1>2 DEF IInv

LEMMA StartJoinInv ==
    ASSUME IInv, NEW v \in VM, NEW t \in Handles(v), pc[v] \in {"run", "polling"},
           StartJoin(v, t)
    PROVE  IInv'
  <1>1. TypeOK'
    BY DEF IInv, TypeOK, VM, StartJoin, childVars, Handles
  <1>2. /\ Spawned' /\ ChildPhases' /\ OutcomePhases' /\ JoinsEnd'
        /\ Reaped' /\ ThreadOutlivedByTask' /\ ReportIsFinal'
    BY DEF IInv, TypeOK, Spawned, ChildPhases, InScript, WithVm, OutcomePhases,
           JoinsEnd, Reaped, ThreadOutlivedByTask, ReportIsFinal, StartJoin,
           childVars, Handles
  <1>3. Waits'
    BY DEF IInv, TypeOK, Waits, Handles, JoinsEnd, StartJoin, NeedsJoin
  <1>4. QED
    BY <1>1, <1>2, <1>3 DEF IInv

LEMMA JoinedInv ==
    ASSUME IInv, NEW v \in VM, Joined(v)
    PROVE  IInv'
  <1>1. TypeOK'
    BY DEF IInv, TypeOK, Joined, taskVars, childVars
  <1>2. /\ Spawned' /\ ChildPhases' /\ OutcomePhases' /\ Waits'
        /\ JoinsEnd' /\ Reaped' /\ ThreadOutlivedByTask' /\ ReportIsFinal'
    BY DEF IInv, TypeOK, Spawned, ChildPhases, InScript, WithVm, OutcomePhases, Waits,
           Handles, JoinsEnd, Reaped, ThreadOutlivedByTask, ReportIsFinal, Joined,
           taskVars, childVars
  <1>3. QED
    BY <1>1, <1>2 DEF IInv

LEMMA PollInv ==
    ASSUME IInv, NEW v \in VM, NEW t \in Task, Poll(v, t)
    PROVE  IInv'
  <1>1. TypeOK'
    BY DEF IInv, TypeOK, VM, Poll, taskVars, childVars
  <1>2. /\ Spawned' /\ ChildPhases' /\ OutcomePhases' /\ Waits'
        /\ JoinsEnd' /\ Reaped' /\ ThreadOutlivedByTask' /\ ReportIsFinal'
    BY DEF IInv, TypeOK, Spawned, ChildPhases, InScript, WithVm, OutcomePhases, Waits,
           Handles, JoinsEnd, Reaped, ThreadOutlivedByTask, ReportIsFinal, Poll,
           taskVars, childVars
  <1>3. QED
    BY <1>1, <1>2 DEF IInv

LEMMA PollTimesOutInv ==
    ASSUME IInv, NEW v \in VM, PollTimesOut(v)
    PROVE  IInv'
  <1>1. TypeOK'
    BY DEF IInv, TypeOK, PollTimesOut, taskVars, childVars
  <1>2. /\ Spawned' /\ ChildPhases' /\ OutcomePhases' /\ Waits'
        /\ JoinsEnd' /\ Reaped' /\ ThreadOutlivedByTask' /\ ReportIsFinal'
    BY DEF IInv, TypeOK, Spawned, ChildPhases, InScript, WithVm, OutcomePhases, Waits,
           Handles, JoinsEnd, Reaped, ThreadOutlivedByTask, ReportIsFinal,
           PollTimesOut, taskVars, childVars
  <1>3. QED
    BY <1>1, <1>2 DEF IInv

LEMMA ReadResultInv ==
    ASSUME IInv, NEW v \in VM, ReadResult(v)
    PROVE  IInv'
  <1>1. TypeOK'
    BY DEF IInv, TypeOK, ReadResult, childVars
  <1>2. /\ ChildPhases' /\ OutcomePhases' /\ Waits'
        /\ JoinsEnd' /\ ThreadOutlivedByTask'
    BY DEF IInv, TypeOK, ChildPhases, InScript, WithVm, OutcomePhases, Waits, Handles,
           JoinsEnd, ThreadOutlivedByTask, ReadResult, childVars
  <1>3. Spawned'
    BY DEF IInv, TypeOK, Spawned, Waits, ReadResult
  <1>4. Reaped'
    BY DEF IInv, TypeOK, Reaped, Waits, ReadResult
  <1>5. ReportIsFinal'
    BY DEF IInv, TypeOK, ReportIsFinal, OutcomePhases, Waits, ReadResult, childVars
  <1>6. QED
    BY <1>1, <1>2, <1>3, <1>4, <1>5 DEF IInv

LEMMA CollectInv ==
    ASSUME IInv, NEW v \in VM, NEW t \in Task, Collect(v, t)
    PROVE  IInv'
  <1>1. TypeOK'
    BY DEF IInv, TypeOK, Collect, childVars
  <1>2. /\ Spawned' /\ ChildPhases' /\ OutcomePhases' /\ Waits'
        /\ JoinsEnd' /\ Reaped' /\ ReportIsFinal'
    BY DEF IInv, TypeOK, Spawned, ChildPhases, OutcomePhases, Waits, Handles,
           JoinsEnd, Reaped, ReportIsFinal, Collect, childVars
  <1>3. ThreadOutlivedByTask'
    BY DEF IInv, TypeOK, ThreadOutlivedByTask, Spawned, Reaped, Collect
  <1>4. QED
    BY <1>1, <1>2, <1>3 DEF IInv

-----------------------------------------------------------------------------
(***************************************************************************)
(* The thread of a task.                                                   *)
(***************************************************************************)
LEMMA InitChildInv ==
    ASSUME IInv, NEW t \in Task, InitChild(t)
    PROVE  IInv'
  <1>1. TypeOK'
    BY DEF IInv, TypeOK, InitChild, taskVars
  <1>2. /\ Spawned' /\ ChildPhases' /\ OutcomePhases' /\ Waits'
        /\ JoinsEnd' /\ Reaped' /\ ThreadOutlivedByTask' /\ ReportIsFinal'
    BY DEF IInv, TypeOK, Spawned, ChildPhases, InScript, OutcomePhases, Waits,
           Handles, JoinsEnd, Reaped, ThreadOutlivedByTask, ReportIsFinal, InitChild,
           taskVars
  <1>3. QED
    BY <1>1, <1>2 DEF IInv

LEMMA PublishInv ==
    ASSUME IInv, NEW t \in Task, Publish(t)
    PROVE  IInv'
  <1>1. TypeOK'
    BY DEF IInv, TypeOK, Publish, taskVars
  <1>2. /\ Spawned' /\ ChildPhases' /\ OutcomePhases' /\ Waits'
        /\ JoinsEnd' /\ Reaped' /\ ThreadOutlivedByTask' /\ ReportIsFinal'
    BY DEF IInv, TypeOK, Spawned, ChildPhases, InScript, WithVm, OutcomePhases, Waits,
           Handles, JoinsEnd, Reaped, ThreadOutlivedByTask, ReportIsFinal, VM,
           Publish, taskVars
  <1>3. QED
    BY <1>1, <1>2 DEF IInv

LEMMA LoadInv ==
    ASSUME IInv, NEW t \in Task, Load(t)
    PROVE  IInv'
  <1>1. TypeOK'
    BY DEF IInv, TypeOK, Load, taskVars, childVars
  <1>2. /\ Spawned' /\ ChildPhases' /\ OutcomePhases' /\ Waits'
        /\ JoinsEnd' /\ Reaped' /\ ThreadOutlivedByTask' /\ ReportIsFinal'
    BY DEF IInv, TypeOK, Spawned, ChildPhases, InScript, WithVm, OutcomePhases, Waits,
           Handles, JoinsEnd, Reaped, ThreadOutlivedByTask, ReportIsFinal, Load,
           taskVars, childVars
  <1>3. QED
    BY <1>1, <1>2 DEF IInv

LEMMA LoadFailsInv ==
    ASSUME IInv, NEW t \in Task, LoadFails(t)
    PROVE  IInv'
  <1>1. TypeOK'
    BY DEF IInv, TypeOK, LoadFails, taskVars
  <1>2. /\ Spawned' /\ ChildPhases' /\ OutcomePhases' /\ Waits'
        /\ JoinsEnd' /\ Reaped' /\ ThreadOutlivedByTask' /\ ReportIsFinal'
    BY DEF IInv, TypeOK, Spawned, ChildPhases, InScript, WithVm, OutcomePhases, Waits,
           Handles, JoinsEnd, Reaped, ThreadOutlivedByTask, ReportIsFinal, LoadFails,
           taskVars
  <1>3. QED
    BY <1>1, <1>2 DEF IInv

LEMMA ScriptEndsInv ==
    ASSUME IInv, NEW t \in Task, NEW how \in {"ok", "error"}, ScriptEnds(t, how)
    PROVE  IInv'
  <1>1. TypeOK'
    BY DEF IInv, TypeOK, Outcomes, ScriptEnds, taskVars
  <1>2. /\ Spawned' /\ ChildPhases' /\ OutcomePhases' /\ Waits'
        /\ JoinsEnd' /\ Reaped' /\ ThreadOutlivedByTask' /\ ReportIsFinal'
    BY DEF IInv, TypeOK, Spawned, ChildPhases, InScript, WithVm, OutcomePhases, Waits,
           Handles, JoinsEnd, Reaped, ThreadOutlivedByTask, ReportIsFinal, ScriptEnds,
           taskVars
  <1>3. QED
    BY <1>1, <1>2 DEF IInv

LEMMA DetachInv ==
    ASSUME IInv, NEW t \in Task, Detach(t)
    PROVE  IInv'
  <1>1. TypeOK'
    BY DEF IInv, TypeOK, Outcomes, Detach, Outcome, taskVars, Tracked
  <1>2. /\ Spawned' /\ ChildPhases' /\ OutcomePhases' /\ Waits'
        /\ JoinsEnd' /\ Reaped' /\ ThreadOutlivedByTask' /\ ReportIsFinal'
    BY DEF IInv, TypeOK, Spawned, ChildPhases, InScript, WithVm, OutcomePhases, Waits,
           Handles, JoinsEnd, Reaped, ThreadOutlivedByTask, ReportIsFinal, Outcomes,
           Detach, Outcome, taskVars
  <1>3. QED
    BY <1>1, <1>2 DEF IInv

LEMMA FinishInv ==
    ASSUME IInv, NEW t \in Task, Finish(t)
    PROVE  IInv'
  <1>1. TypeOK'
    BY DEF IInv, TypeOK, OutcomePhases, Finish, childVars
  <1>2. /\ Spawned' /\ ChildPhases' /\ OutcomePhases' /\ Waits'
        /\ JoinsEnd' /\ Reaped' /\ ThreadOutlivedByTask' /\ ReportIsFinal'
    BY DEF IInv, TypeOK, Spawned, ChildPhases, InScript, WithVm, OutcomePhases, Waits,
           Handles, JoinsEnd, Reaped, ThreadOutlivedByTask, ReportIsFinal, Finish,
           childVars
  <1>3. QED
    BY <1>1, <1>2 DEF IInv

-----------------------------------------------------------------------------
(***************************************************************************)
(* vm_free.                                                                *)
(***************************************************************************)
LEMMA HostFreesInv ==
    ASSUME IInv, HostFrees
    PROVE  IInv'
  <1>1. TypeOK'
    BY DEF IInv, TypeOK, HostFrees, taskVars, childVars, Tracked
  <1>2. /\ Spawned' /\ ChildPhases' /\ OutcomePhases' /\ Waits'
        /\ JoinsEnd' /\ Reaped' /\ ThreadOutlivedByTask' /\ ReportIsFinal'
    BY VmTaskAssumption DEF IInv, TypeOK, Spawned, ChildPhases, OutcomePhases, Waits,
                            Handles, JoinsEnd, Reaped, ThreadOutlivedByTask,
                            ReportIsFinal, HostFrees, taskVars, childVars
  <1>3. QED
    BY <1>1, <1>2 DEF IInv

LEMMA CancelTrackedInv ==
    ASSUME IInv, NEW v \in VM, NEW t \in Task, CancelTracked(v, t)
    PROVE  IInv'
  <1>1. TypeOK'
    BY DEF IInv, TypeOK, CancelTracked, RequestCancel, taskVars
  <1>2. /\ Spawned' /\ ChildPhases' /\ OutcomePhases' /\ Waits'
        /\ JoinsEnd' /\ Reaped' /\ ThreadOutlivedByTask' /\ ReportIsFinal'
    BY DEF IInv, TypeOK, Spawned, ChildPhases, OutcomePhases, Waits, Handles,
           JoinsEnd, Reaped, ThreadOutlivedByTask, ReportIsFinal, CancelTracked,
           RequestCancel, taskVars
  <1>3. QED
    BY <1>1, <1>2 DEF IInv

LEMMA AllCancelledInv ==
    ASSUME IInv, NEW v \in VM, AllCancelled(v)
    PROVE  IInv'
  <1>1. TypeOK'
    BY DEF IInv, TypeOK, AllCancelled, taskVars, childVars, Tracked
  <1>2. /\ Spawned' /\ ChildPhases' /\ OutcomePhases' /\ Waits'
        /\ JoinsEnd' /\ Reaped' /\ ThreadOutlivedByTask' /\ ReportIsFinal'
    BY DEF IInv, TypeOK, Spawned, ChildPhases, InScript, WithVm, OutcomePhases, Waits,
           Handles, JoinsEnd, Reaped, ThreadOutlivedByTask, ReportIsFinal,
           AllCancelled, taskVars, childVars, Tracked
  <1>3. QED
    BY <1>1, <1>2 DEF IInv

LEMMA ReapInv ==
    ASSUME IInv, NEW v \in VM, NEW t \in Task, Reap(v, t)
    PROVE  IInv'
  <1>1. TypeOK'
    BY DEF IInv, TypeOK, Reap, childVars
  <1>2. /\ Spawned' /\ ChildPhases' /\ OutcomePhases' /\ Waits'
        /\ JoinsEnd' /\ ThreadOutlivedByTask' /\ ReportIsFinal'
    BY DEF IInv, TypeOK, Spawned, ChildPhases, OutcomePhases, Waits, Handles,
           JoinsEnd, ThreadOutlivedByTask, ReportIsFinal, Reap, childVars
  <1>3. Reaped'
    BY DEF IInv, TypeOK, Reaped, JoinsEnd, Reap, NeedsJoin
  <1>4. QED
    BY <1>1, <1>2, <1>3 DEF IInv

LEMMA FreeVmInv ==
    ASSUME IInv, NEW v \in VM, FreeVm(v)
    PROVE  IInv'
  <1>1. TypeOK'
    BY DEF IInv, TypeOK, FreeVm
  <1>2. /\ Spawned' /\ ChildPhases' /\ OutcomePhases' /\ Waits'
        /\ JoinsEnd' /\ Reaped' /\ ReportIsFinal'
    BY VmTaskAssumption DEF IInv, TypeOK, Spawned, ChildPhases, InScript, WithVm,
                            OutcomePhases, Waits, Handles, JoinsEnd, Reaped,
                            ReportIsFinal, FreeVm, Tracked
  <1>3. ThreadOutlivedByTask'
    BY DEF IInv, TypeOK, ThreadOutlivedByTask, Spawned, Reaped, FreeVm
  <1>4. QED
    BY <1>1, <1>2, <1>3 DEF IInv
-----------------------------------------------------------------------------
LEMMA InitInv == Init => IInv
  <1>1. SUFFICES ASSUME Init PROVE IInv
    OBVIOUS
  <1>2. TypeOK /\ Spawned /\ ChildPhases /\ OutcomePhases
    BY <1>1, VmTaskAssumption
       DEF Init, TypeOK, VM, Outcomes, Spawned, ChildPhases, InScript, WithVm, OutcomePhases
  <1>3. /\ Waits /\ JoinsEnd /\ Reaped
        /\ ThreadOutlivedByTask /\ ReportIsFinal
    BY <1>1, VmTaskAssumption
       DEF Init, VM, Waits, JoinsEnd, Reaped, ThreadOutlivedByTask, ReportIsFinal
  <1>4. QED
    BY <1>2, <1>3 DEF IInv

LEMMA NextInv ==
    ASSUME IInv, [Next]_vars
    PROVE  IInv'
  <1>1. ASSUME NEW v \in VM, ScriptStep(v)
        PROVE  IInv'
    <2>1. PICK t \in Task : \/ Spawn(v, t) \/ SpawnFails(v, t) \/ Cancel(v, t)
                            \/ Join(v, t) \/ Poll(v, t) \/ TryJoin(v, t) \/ Collect(v, t)
      BY <1>1 DEF ScriptStep
    <2>2. Join(v, t) \/ TryJoin(v, t) => IInv'
      BY StartJoinInv DEF Join, TryJoin
    <2>3. QED
      BY <2>1, <2>2, SpawnInv, SpawnFailsInv, CancelInv, PollInv, CollectInv
  <1>2. ASSUME NEW v \in VM, NativeReturns(v)
        PROVE  IInv'
    <2>1. PollDone(v) => IInv'
      BY StartJoinInv DEF PollDone, IInv, Waits
    <2>2. QED
      BY <1>2, <2>1, JoinedInv, PollTimesOutInv, ReadResultInv DEF NativeReturns
  <1>3. ASSUME NEW v \in VM, FreeStep(v)
        PROVE  IInv'
    BY <1>3, CancelTrackedInv, ReapInv, AllCancelledInv, FreeVmInv DEF FreeStep
  <1>4. ASSUME NEW t \in Task, ThreadStep(t)
        PROVE  IInv'
    BY <1>4, InitChildInv, PublishInv, LoadInv, LoadFailsInv, DetachInv, FinishInv
       DEF ThreadStep
  <1>5. ASSUME NEW t \in Task,
               ObserveCancel(t) \/ ScriptEnds(t, "ok") \/ ScriptEnds(t, "error")
        PROVE  IInv'
    BY <1>5, ScriptEndsInv DEF ObserveCancel
  <1>6. CASE HostFrees
    BY <1>6, HostFreesInv
  <1>7. CASE UNCHANGED vars
    BY <1>7 DEF vars, IInv, TypeOK, Spawned, ChildPhases, OutcomePhases, Waits, Handles,
                JoinsEnd, Reaped, ThreadOutlivedByTask, ReportIsFinal
  <1>8. QED
    BY <1>1, <1>2, <1>3, <1>4, <1>5, <1>6, <1>7 DEF Next

LEMMA Invariance == Spec => []IInv
  <1>1. IInv /\ [Next]_vars => IInv'
    BY NextInv
  <1>2. QED
    BY <1>1, InitInv, PTL DEF Spec

\* A task object outlives its thread, and a VM every thread it started: what
\* vm_tasks lists no more has been joined, and vm_free joins the rest.
THEOREM ThreadsOutlived == Spec => []ThreadOutlivedByTask
  <1>1. IInv => ThreadOutlivedByTask
    BY DEF IInv
  <1>2. QED
    BY <1>1, Invariance, PTL

\* A request to cancel never writes into a child VM before vm_init or after
\* vm_free: its address is published in between and taken back before.
THEOREM ChildPointers == Spec => []ChildPointerValid
  <1>1. IInv => ChildPointerValid
    BY DEF IInv, ChildPhases, WithVm, ChildPointerValid
  <1>2. QED
    BY <1>1, Invariance, PTL

\* No request made while the child starts is lost between the two copies of
\* the flag.
THEOREM RequestsReachChildren == Spec => []CancelReachesChild
  <1>1. IInv => CancelReachesChild
    BY DEF IInv, ChildPhases, CancelReachesChild
  <1>2. QED
    BY <1>1, Invariance, PTL

\* What vm.join and vm.try_join return is the outcome of a thread that has
\* ended and been joined, whichever of them comes first and how often.
THEOREM ReportsFinal == Spec => []ReportIsFinal
  <1>1. IInv => ReportIsFinal
    BY DEF IInv
  <1>2. QED
    BY <1>1, Invariance, PTL
=============================================================================
