------------------------------- MODULE MCDag -------------------------------
(***************************************************************************)
(* Instances of DagScheduler for TLC.                                      *)
(***************************************************************************)
EXTENDS DagScheduler

NoPolicy == [aging_threshold_ms |-> 0, aging_boost_levels |-> 1]
Boost(levels) == [aging_threshold_ms |-> 1, aging_boost_levels |-> levels]
NoDeadline == [max_queue_wait_ms |-> 0, enable_quota_enforcement |-> TRUE]
Deadline(ms, on) == [max_queue_wait_ms |-> ms, enable_quota_enforcement |-> on]

Need(cpu, memory) ==
    [r \in Resource |-> CASE r = "cpu" -> cpu
                          [] r = "memory" -> memory
                          [] OTHER -> 0]

Submit(t, deps, priority, need) ==
    [task_id |-> t, dependencies |-> deps, priority |-> priority,
     resources |-> need, attempt |-> 0]

(* Every dependency list of at most two entries over the same or smaller   *)
(* identifiers: roots, chains, diamonds, duplicate edges, self edges.      *)
GraphSubmissions ==
    UNION { { Submit(t, deps, t % 4, Need(0, 0)) :
                deps \in UNION {[1..n -> 1..t] : n \in 0..2} } : t \in Task }

(* Pool: two units of each resource; tasks that need one or two, or more   *)
(* than there is, with every priority.                                     *)
PoolSubmissions ==
    { Submit(1, <<>>, 0, Need(1, 1)), Submit(1, <<>>, 1, Need(0, 2)),
      Submit(2, <<>>, 2, Need(1, 0)), Submit(2, <<1>>, 0, Need(1, 1)),
      Submit(3, <<>>, 3, Need(0, 2)), Submit(3, <<>>, 1, Need(3, 0)) }

TwoOfEach == [r \in Resource |-> 2]

GraphFairness == {NoPolicy}
GraphStarvation == {NoDeadline}
AgingFairness == {NoPolicy, Boost(2)}
AgingStarvation == {Deadline(1, TRUE), Deadline(1, FALSE)}

-----------------------------------------------------------------------------
(* What the comments of dag.rs say and the code does not do.               *)

(* "Task is waiting for dependencies to complete": a Pending task has a    *)
(* dependency that is not complete yet.                                    *)
PendingIsWaiting ==
    \A t \in Task : states[t] = "Pending" =>
        \E d \in Deps(t) : states[d] # "Completed"

(* "Cascades failure across dependent tasks": nothing that depends on a    *)
(* dead task is still waiting for it.                                      *)
DependentsOfDeadAreDead ==
    \A t \in Known : Deps(t) \cap Dead # {} => t \in Dead

(* "Track resource allocations for running tasks": the allocations held    *)
(* are those of the tasks that are Running.                                *)
AllocationsAreRunning ==
    Pooled => running_resources = {t \in Task : states[t] = "Running"}

(* "ordered by effective priority (desc) then task_id (asc)": of two tasks *)
(* that could run with equal effective priority, the smaller goes first.   *)
TiesGoToSmallerId ==
    [][\A t, u \in Runnable :
          /\ states'[t] = "Running"
          /\ t # u
          /\ AgedMetadata[t].effective_priority =
                 AgedMetadata[u].effective_priority
          => t < u]_vars

(* "Maximum boost is up to next level": aging lifts a task by at most one  *)
(* level above the priority it was submitted with.                         *)
BoostIsOneLevel ==
    \A t \in Known :
        metadata[t].effective_priority <= tasks[t].priority + 1

=============================================================================
