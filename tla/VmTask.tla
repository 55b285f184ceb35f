------------------------------- MODULE VmTask -------------------------------
(***************************************************************************)
(* vm.spawn, vm.join, vm.try_join, vm.cancel and vm_free over isolated VMs *)
(* (src/src/vm.c:1744-2206 and 2541-2568).                                 *)
(*                                                                         *)
(* Every VM runs on a thread of its own: Main on the host's, the child VM  *)
(* of task t on the thread that vm.spawn creates for t.  A VM and its      *)
(* thread are named by the task, so the processes are {Main} \cup Task.    *)
(* A child may spawn tasks in its turn.  The task object (ObjVMTask) lives *)
(* in the heap of the VM that spawned it and is shared by two threads; the *)
(* fields both use are read and written under task->lock, and every such   *)
(* locked section is one action here.                                      *)
(***************************************************************************)
CONSTANTS
    Task,       \* the task objects that may be created
    Main        \* the VM of the host

VM == {Main} \cup Task

ASSUME VmTaskAssumption == Main \notin Task

VARIABLES
    pc,             \* where the thread of each VM is
    target,         \* the task a thread waits for, polls or is about to read
    todo,           \* tasks left in the loop of vm_free a thread runs
    owner,          \* the VM whose heap holds the task object
    object,         \* whether the task object exists
    tracked,        \* vm_tasks of the owner lists the task
    started, joined, done, result,  \* the fields of ObjVMTask
    cancelReq,      \* task->cancel_requested
    childVm,        \* task->child_vm is not NULL
    vmLive,         \* the child VM (a local of run_isolated_path) is initialised
    childCancel,    \* child.cancel_requested
    ended,          \* how the script of the child ended
    reported        \* what join or try_join last returned to a script

vars == <<pc, target, todo, owner, object, tracked, started, joined, done,
          result, cancelReq, childVm, vmLive, childCancel, ended, reported>>

taskVars  == <<owner, object, tracked, started, joined, done, result>>
childVars == <<cancelReq, childVm, vmLive, childCancel, ended>>

Outcomes == {"ok", "error", "cancelled"}

\* The handles the script of VM v may still hold.
Handles(v) == {t \in Task : owner[t] = v /\ object[t] = "live" /\ started[t]}

Tracked(v) == {t \in tracked : owner[t] = v}

Init ==
    /\ pc = [v \in VM |-> IF v = Main THEN "run" ELSE "none"]
    /\ target = [v \in VM |-> Main]
    /\ todo = [v \in VM |-> {}]
    /\ owner = [t \in Task |-> Main]
    /\ object = [t \in Task |-> "none"]
    /\ tracked = {}
    /\ started = [t \in Task |-> FALSE]
    /\ joined = [t \in Task |-> FALSE]
    /\ done = [t \in Task |-> FALSE]
    /\ result = [t \in Task |-> "error"]
    /\ cancelReq = [t \in Task |-> FALSE]
    /\ childVm = [t \in Task |-> FALSE]
    /\ vmLive = [t \in Task |-> FALSE]
    /\ childCancel = [t \in Task |-> FALSE]
    /\ ended = [t \in Task |-> "running"]
    /\ reported = [t \in Task |-> "none"]
-----------------------------------------------------------------------------
(***************************************************************************)
(* Natives a script calls on its own thread.                               *)
(***************************************************************************)

\* native_vm_spawn: new_vm_task, vm_task_track, pthread_create.  The store of
\* task->started follows in the same thread, the only one that reads it.
Spawn(v, t) ==
    /\ pc[v] = "run" /\ object[t] = "none"
    /\ object' = [object EXCEPT ![t] = "live"]
    /\ owner' = [owner EXCEPT ![t] = v]
    /\ tracked' = tracked \cup {t}
    /\ started' = [started EXCEPT ![t] = TRUE]
    /\ pc' = [pc EXCEPT ![t] = "init"]
    /\ UNCHANGED <<target, todo, joined, done, result, childVars, reported>>

\* pthread_create fails (or the tracking list cannot grow): the task is left
\* untracked for the collector and the script gets an error, not the handle.
SpawnFails(v, t) ==
    /\ pc[v] = "run" /\ object[t] = "none"
    /\ object' = [object EXCEPT ![t] = "live"]
    /\ owner' = [owner EXCEPT ![t] = v]
    /\ UNCHANGED <<pc, target, todo, tracked, started, joined, done, result,
                   childVars, reported>>

\* Mutant of RequestCancel: the flag of the child VM is not set.
RequestFlagOnly(t) ==
    /\ cancelReq' = [cancelReq EXCEPT ![t] = TRUE]
    /\ UNCHANGED <<childCancel, childVm, vmLive, ended>>

\* vm_task_request_cancel
RequestCancel(t) ==
    /\ cancelReq' = [cancelReq EXCEPT ![t] = TRUE]
    /\ childCancel' = IF childVm[t] THEN [childCancel EXCEPT ![t] = TRUE]
                                    ELSE childCancel
    /\ UNCHANGED <<childVm, vmLive, ended>>

Cancel(v, t) ==
    /\ pc[v] = "run" /\ t \in Handles(v)
    /\ RequestCancel(t)
    /\ UNCHANGED <<pc, target, todo, taskVars, reported>>

\* Mutants of NeedsJoin: threads are not waited for, or cancelled ones are not.
NeverJoins(t) == FALSE
NeedsJoinUncancelled(t) == started[t] /\ ~joined[t] /\ ~cancelReq[t]

\* vm_task_join_if_needed decides under the lock whether to call pthread_join.
NeedsJoin(t) == started[t] /\ ~joined[t]

StartJoin(v, t) ==
    /\ target' = [target EXCEPT ![v] = t]
    /\ pc' = [pc EXCEPT ![v] = IF NeedsJoin(t) THEN "joining" ELSE "reading"]
    /\ joined' = [joined EXCEPT ![t] = joined[t] \/ NeedsJoin(t)]
    /\ UNCHANGED <<todo, owner, object, tracked, started, done, result,
                   childVars, reported>>

\* native_vm_join without a timeout.
Join(v, t) == pc[v] = "run" /\ t \in Handles(v) /\ StartJoin(v, t)

\* pthread_join returns when the thread has exited.
Joined(v) ==
    /\ pc[v] = "joining" /\ pc[target[v]] = "exit"
    /\ pc' = [pc EXCEPT ![v] = "reading"]
    /\ UNCHANGED <<target, todo, taskVars, childVars, reported>>

\* native_vm_join with a timeout: vm_task_is_done until done or too late.
Poll(v, t) ==
    /\ pc[v] = "run" /\ t \in Handles(v)
    /\ pc' = [pc EXCEPT ![v] = "polling"]
    /\ target' = [target EXCEPT ![v] = t]
    /\ UNCHANGED <<todo, taskVars, childVars, reported>>

PollDone(v) == pc[v] = "polling" /\ done[target[v]] /\ StartJoin(v, target[v])

PollTimesOut(v) ==
    /\ pc[v] = "polling" /\ ~done[target[v]]
    /\ pc' = [pc EXCEPT ![v] = "run"]
    /\ UNCHANGED <<target, todo, taskVars, childVars, reported>>

\* native_vm_try_join returns false, changing nothing, unless the task is done.
TryJoin(v, t) ==
    pc[v] = "run" /\ t \in Handles(v) /\ done[t] /\ StartJoin(v, t)

\* The end of join and try_join: vm_task_untrack, then the result.
ReadResult(v) ==
    /\ pc[v] = "reading"
    /\ LET t == target[v] IN
         /\ tracked' = tracked \ {t}
         /\ reported' = [reported EXCEPT ![t] = result[t]]
         /\ done' = [done EXCEPT ![t] = TRUE]
    /\ pc' = [pc EXCEPT ![v] = "run"]
    /\ UNCHANGED <<target, todo, owner, object, started, joined, result, childVars>>

\* The collector of VM v frees a task object that vm_tasks does not list and
\* the script dropped: vm_task_destroy joins the thread first, if it must.
Collect(v, t) ==
    /\ pc[v] = "run"
    /\ object[t] = "live" /\ owner[t] = v /\ t \notin tracked
    /\ NeedsJoin(t) => pc[t] = "exit"
    /\ joined' = [joined EXCEPT ![t] = joined[t] \/ NeedsJoin(t)]
    /\ object' = [object EXCEPT ![t] = "freed"]
    /\ UNCHANGED <<pc, target, todo, owner, tracked, started, done, result,
                   childVars, reported>>
-----------------------------------------------------------------------------
(***************************************************************************)
(* The thread of task t: run_isolated_path and vm_task_finish.             *)
(***************************************************************************)

\* vm_init and the first, unlocked, copy of the cancel flag.
InitChild(t) ==
    /\ pc[t] = "init"
    /\ vmLive' = [vmLive EXCEPT ![t] = TRUE]
    /\ childCancel' = [childCancel EXCEPT ![t] = cancelReq[t]]
    /\ pc' = [pc EXCEPT ![t] = "publish"]
    /\ UNCHANGED <<target, todo, taskVars, cancelReq, childVm, ended, reported>>

\* Mutant of Publish: a request between the two copies is lost.
PublishUncopied(t) ==
    /\ pc[t] = "publish"
    /\ childVm' = [childVm EXCEPT ![t] = TRUE]
    /\ pc' = [pc EXCEPT ![t] = "load"]
    /\ UNCHANGED <<target, todo, taskVars, cancelReq, childCancel, vmLive, ended, reported>>

\* Under the lock: child_vm is published and the flag is copied again.
Publish(t) ==
    /\ pc[t] = "publish"
    /\ childVm' = [childVm EXCEPT ![t] = TRUE]
    /\ childCancel' = [childCancel EXCEPT ![t] = @ \/ cancelReq[t]]
    /\ pc' = [pc EXCEPT ![t] = "load"]
    /\ UNCHANGED <<target, todo, taskVars, cancelReq, vmLive, ended, reported>>

\* The file is read and compiled, or its bytecode loaded, ...
Load(t) ==
    /\ pc[t] = "load"
    /\ pc' = [pc EXCEPT ![t] = "run"]
    /\ UNCHANGED <<target, todo, taskVars, childVars, reported>>

\* ... or that fails.
LoadFails(t) ==
    /\ pc[t] = "load"
    /\ ended' = [ended EXCEPT ![t] = "unloaded"]
    /\ pc' = [pc EXCEPT ![t] = "detach"]
    /\ UNCHANGED <<target, todo, taskVars, cancelReq, childVm, vmLive,
                   childCancel, reported>>

\* vm_run_function returns: the script ends or fails by itself.
ScriptEnds(t, how) ==
    /\ pc[t] = "run"
    /\ ended' = [ended EXCEPT ![t] = how]
    /\ pc' = [pc EXCEPT ![t] = "detach"]
    /\ UNCHANGED <<target, todo, taskVars, cancelReq, childVm, vmLive,
                   childCancel, reported>>

\* CHECK_LOOP_CANCEL: every 1024th backward jump looks at the flag.
ObserveCancel(t) == childCancel[t] /\ ScriptEnds(t, "error")

\* A load error is reported whether or not the task was cancelled, any other
\* end of a cancelled script is a CancelledError.
Outcome(t) ==
    IF ended[t] = "unloaded" THEN "error"
    ELSE IF cancelReq[t] \/ childCancel[t] THEN "cancelled" ELSE ended[t]

\* Mutant of Detach: task->child_vm is left behind.
DetachLate(t) ==
    /\ pc[t] = "detach"
    /\ ended' = [ended EXCEPT ![t] = Outcome(t)]
    /\ pc' = [pc EXCEPT ![t] = "cancelling"]
    /\ todo' = [todo EXCEPT ![t] = Tracked(t)]
    /\ UNCHANGED <<target, taskVars, cancelReq, childVm, vmLive, childCancel, reported>>

\* vm_task_detach_child, before vm_free of the child.
Detach(t) ==
    /\ pc[t] = "detach"
    /\ childVm' = [childVm EXCEPT ![t] = FALSE]
    /\ ended' = [ended EXCEPT ![t] = Outcome(t)]
    /\ pc' = [pc EXCEPT ![t] = "cancelling"]
    /\ todo' = [todo EXCEPT ![t] = Tracked(t)]
    /\ UNCHANGED <<target, taskVars, cancelReq, vmLive, childCancel, reported>>

\* vm_task_finish, after which the thread function returns.
Finish(t) ==
    /\ pc[t] = "finish"
    /\ result' = [result EXCEPT ![t] = ended[t]]
    /\ done' = [done EXCEPT ![t] = TRUE]
    /\ pc' = [pc EXCEPT ![t] = "exit"]
    /\ UNCHANGED <<target, todo, owner, object, tracked, started, joined,
                   childVars, reported>>
-----------------------------------------------------------------------------
(***************************************************************************)
(* vm_free of VM v: by the host for Main, by run_isolated_path for a child *)
(***************************************************************************)
HostFrees ==
    /\ pc[Main] = "run"
    /\ pc' = [pc EXCEPT ![Main] = "cancelling"]
    /\ todo' = [todo EXCEPT ![Main] = Tracked(Main)]
    /\ UNCHANGED <<target, taskVars, childVars, reported>>

\* Mutant of CancelTracked: vm_free waits for its tasks without stopping them.
CancelNothing(v, t) ==
    /\ pc[v] = "cancelling" /\ t \in todo[v]
    /\ todo' = [todo EXCEPT ![v] = @ \ {t}]
    /\ UNCHANGED <<pc, target, taskVars, childVars, reported>>

CancelTracked(v, t) ==
    /\ pc[v] = "cancelling" /\ t \in todo[v]
    /\ RequestCancel(t)
    /\ todo' = [todo EXCEPT ![v] = @ \ {t}]
    /\ UNCHANGED <<pc, target, taskVars, reported>>

AllCancelled(v) ==
    /\ pc[v] = "cancelling" /\ todo[v] = {}
    /\ pc' = [pc EXCEPT ![v] = "reaping"]
    /\ todo' = [todo EXCEPT ![v] = Tracked(v)]
    /\ UNCHANGED <<target, taskVars, childVars, reported>>

\* vm_task_join_if_needed of one listed task, which blocks the thread.
Reap(v, t) ==
    /\ pc[v] = "reaping" /\ t \in todo[v]
    /\ NeedsJoin(t) => pc[t] = "exit"
    /\ joined' = [joined EXCEPT ![t] = joined[t] \/ NeedsJoin(t)]
    /\ todo' = [todo EXCEPT ![v] = @ \ {t}]
    /\ UNCHANGED <<pc, target, owner, object, tracked, started, done, result,
                   childVars, reported>>

\* gc_free_all frees every task object of the heap; the VM is gone.
FreeVm(v) ==
    /\ pc[v] = "reaping" /\ todo[v] = {}
    /\ object' = [t \in Task |-> IF owner[t] = v /\ object[t] = "live"
                                 THEN "freed" ELSE object[t]]
    /\ tracked' = tracked \ Tracked(v)
    /\ vmLive' = [t \in Task |-> vmLive[t] /\ t # v]
    /\ pc' = [pc EXCEPT ![v] = IF v = Main THEN "exit" ELSE "finish"]
    /\ UNCHANGED <<target, todo, owner, started, joined, done, result,
                   cancelReq, childVm, childCancel, ended, reported>>
-----------------------------------------------------------------------------
ScriptStep(v) ==
    \E t \in Task : \/ Spawn(v, t) \/ SpawnFails(v, t) \/ Cancel(v, t)
                    \/ Join(v, t) \/ Poll(v, t) \/ TryJoin(v, t) \/ Collect(v, t)

NativeReturns(v) == Joined(v) \/ PollDone(v) \/ PollTimesOut(v) \/ ReadResult(v)

FreeStep(v) ==
    \/ \E t \in Task : CancelTracked(v, t) \/ Reap(v, t)
    \/ AllCancelled(v) \/ FreeVm(v)

ThreadStep(t) == InitChild(t) \/ Publish(t) \/ Load(t) \/ LoadFails(t) \/ Detach(t) \/ Finish(t)

Next ==
    \/ \E v \in VM : ScriptStep(v) \/ NativeReturns(v) \/ FreeStep(v)
    \/ \E t \in Task : \/ ThreadStep(t) \/ ObserveCancel(t)
                       \/ ScriptEnds(t, "ok") \/ ScriptEnds(t, "error")
    \/ HostFrees

Spec == Init /\ [][Next]_vars

(***************************************************************************)
(* The operating system runs every thread.  A script may compute for ever, *)
(* so ScriptStep and ScriptEnds have no fairness; but a script that runs   *)
(* for ever jumps backward for ever, between whatever natives it calls, so *)
(* it looks at the cancel flag again and again: strong fairness.           *)
(***************************************************************************)
Fairness ==
    /\ \A v \in VM : WF_vars(NativeReturns(v)) /\ WF_vars(FreeStep(v))
    /\ \A t \in Task : WF_vars(ThreadStep(t)) /\ SF_vars(ObserveCancel(t))

FairSpec == Spec /\ Fairness
-----------------------------------------------------------------------------
\* Every variable has its type.
TypeOK ==
    /\ pc \in [VM -> {"none", "init", "publish", "load", "run", "joining", "polling",
                      "reading", "detach", "cancelling", "reaping", "finish", "exit"}]
    /\ target \in [VM -> VM] /\ todo \in [VM -> SUBSET Task]
    /\ owner \in [Task -> VM] /\ object \in [Task -> {"none", "live", "freed"}]
    /\ tracked \subseteq Task
    /\ started \in [Task -> BOOLEAN] /\ joined \in [Task -> BOOLEAN]
    /\ done \in [Task -> BOOLEAN] /\ cancelReq \in [Task -> BOOLEAN]
    /\ childVm \in [Task -> BOOLEAN] /\ vmLive \in [Task -> BOOLEAN]
    /\ childCancel \in [Task -> BOOLEAN]
    /\ result \in [Task -> Outcomes]
    /\ ended \in [Task -> {"running", "unloaded"} \cup Outcomes]
    /\ reported \in [Task -> {"none"} \cup Outcomes]

\* A task object is not freed while its thread may still write to it, nor a VM
\* while a thread it started runs: neither the collector nor vm_free of the
\* spawning VM overtakes the worker (vm_tasks as a root, vm_task_destroy,
\* vm_free).
ThreadOutlivedByTask ==
    \A t \in Task :
        /\ object[t] = "freed" => pc[t] \in {"none", "exit"}
        /\ started[t] /\ pc[owner[t]] \in {"finish", "exit"} => pc[t] = "exit"

\* vm_task_request_cancel never writes into a child VM that is not there:
\* child_vm is published after vm_init and cleared before vm_free.
ChildPointerValid == \A t \in Task : childVm[t] => vmLive[t]

\* A cancel request that arrives at any moment of the start-up of the child
\* is seen by its VM (the flag is copied twice, the second time under lock).
CancelReachesChild ==
    \A t \in Task : childVm[t] /\ cancelReq[t] => childCancel[t]

\* join and try_join return the outcome the finished thread stored.
ReportIsFinal ==
    \A t \in Task : reported[t] # "none" =>
        /\ pc[t] = "exit" /\ joined[t]
        /\ reported[t] = ended[t]

\* A cancelled task ends, whatever its script does (vm.cancel, README.md:48),
\* unless it waits for ever for a child of its own that computes for ever:
\* vm.join looks at no flag (vm.c:1985).
CancelHonoured ==
    \A t \in Task : (started[t] /\ cancelReq[t]) ~> (pc[t] = "exit" \/ [](pc[t] = "joining"))

\* vm_free of the host VM returns, unless a task waits in that way.
TeardownReturns ==
    (pc[Main] = "cancelling") ~>
        (pc[Main] = "exit" \/ \E t \in Task : [](pc[t] = "joining"))
=============================================================================
