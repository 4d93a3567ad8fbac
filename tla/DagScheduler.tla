---------------------------- MODULE DagScheduler ----------------------------
(***************************************************************************)
(* The DAG scheduler of crates/scheduler/src/dag.rs.                       *)
(*                                                                         *)
(* Every public operation runs from beginning to end under one mutex, so   *)
(* each operation is one action.  An operation that returns an error       *)
(* leaves the state as it found it and is a disabled action here: this     *)
(* includes enqueue's undo paths, which restore the maps under the same    *)
(* lock.                                                                   *)
(*                                                                         *)
(* Data kept abstract: a task identifier is a natural number (the order of *)
(* the numbers is the order of the UUIDs, which the heap compares); a      *)
(* descriptor keeps the fields the scheduler reads; cpu shares are whole   *)
(* numbers; the metrics counters and the quota percentages, which no       *)
(* operation reads back, are left out.                                     *)
(***************************************************************************)
EXTENDS Integers, FiniteSets, Sequences, Functions, Totals

CONSTANTS
    Task,               \* task identifiers
    Submission,         \* the descriptors clients may enqueue
    Attempt,            \* the attempt numbers a requeue may carry
    FairnessPolicies,   \* values set_fairness_policy may install
    StarvationPolicies, \* values set_starvation_policy may install
    Pooled,             \* TRUE: built by with_resource_config
    Capacity,           \* the ResourceConfig: capacity per resource
    Word,               \* modulus of memory_mb and gpu_cores, 2^32 in the code
    MaxTime             \* bound on the wall clock

Priority == 0..3        \* Low, Normal, High, Critical
Low == 0
Normal == 1
Critical == 3

Resource == {"cpu", "memory", "gpu"}
WordSized == {"memory", "gpu"}      \* u32 fields; cpu_cores is a float

U8 == 256

Descriptor ==
    [task_id : Task, dependencies : Seq(Task), priority : Priority,
     resources : [Resource -> Nat], attempt : Nat]

TaskState ==
    {"Pending", "Ready", "Running", "Completed", "Failed", "DependencyFailed"}

ASSUME TaskAssumption == Task \subseteq Nat /\ IsFiniteSet(Task)
ASSUME SubmissionAssumption == Submission \subseteq Descriptor
ASSUME AttemptAssumption == Attempt \subseteq Nat
ASSUME PolicyAssumption ==
    /\ FairnessPolicies # {} /\ StarvationPolicies # {}
    /\ FairnessPolicies \subseteq
          [aging_threshold_ms : Nat, aging_boost_levels : 0..(U8 - 1)]
    /\ StarvationPolicies \subseteq
          [max_queue_wait_ms : Nat, enable_quota_enforcement : BOOLEAN]
ASSUME PoolAssumption ==
    /\ Pooled \in BOOLEAN
    /\ Capacity \in [Resource -> Nat]
    /\ Word \in Nat \ {0}
ASSUME TimeAssumption == MaxTime \in Nat

VARIABLES
    tasks,              \* the descriptor of each task (Blank when unknown)
    states,             \* the TaskState of each task, "Absent" when unknown
    successors,         \* for each task, the tasks that depend on it
    in_degree,          \* for each task, the dependency counter
    ready,              \* how many heap entries each task has
    metadata,           \* when it became ready, and its effective priority
    fairness_policy,
    starvation_policy,
    used,               \* ResourcePool: what is allocated, per resource
    running_resources,  \* the keys of the map of that name
    now                 \* SystemTime::now(), which may also step back

graphVars == <<tasks, successors, in_degree>>
policyVars == <<fairness_policy, starvation_policy>>
poolVars == <<used, running_resources>>
vars == <<tasks, states, successors, in_degree, ready, metadata,
          fairness_policy, starvation_policy, used, running_resources, now>>

-----------------------------------------------------------------------------
(* What the operations are made of.                                        *)

Blank(t) ==
    [task_id |-> t, dependencies |-> <<>>, priority |-> Low,
     resources |-> [r \in Resource |-> 0], attempt |-> 0]

Known == {t \in Task : states[t] # "Absent"}

Deps(t) == Range(tasks[t].dependencies)

Dead == {t \in Task : states[t] \in {"Failed", "DependencyFailed"}}

(* TaskMetadata::new *)
FreshMetadata(priority) ==
    [enqueued_at_ms |-> now, effective_priority |-> priority]

(* now.saturating_sub(enqueued_at_ms) *)
WaitingTime(m) ==
    IF now >= m.enqueued_at_ms THEN now - m.enqueued_at_ms ELSE 0

(* TaskMetadata::apply_aging.  The sum is a u8: without overflow checks it *)
(* wraps before it is capped at Critical.                                  *)
ApplyAging(m) ==
    LET boosted ==
          (m.effective_priority + fairness_policy.aging_boost_levels) % U8
    IN  IF /\ fairness_policy.aging_threshold_ms # 0
           /\ WaitingTime(m) >= fairness_policy.aging_threshold_ms
        THEN [m EXCEPT !.effective_priority =
                           IF boosted <= Critical THEN boosted ELSE Critical]
        ELSE m

(* Mutant of EnforceDeadline: Normal is assigned without the comparison.   *)
DeadlineAssignsNormal(m) ==
    IF /\ starvation_policy.enable_quota_enforcement
       /\ starvation_policy.max_queue_wait_ms > 0
       /\ WaitingTime(m) >= starvation_policy.max_queue_wait_ms
    THEN [m EXCEPT !.effective_priority = Normal]
    ELSE m

(* The deadline rule of dequeue: at least Normal after max_queue_wait_ms.  *)
EnforceDeadline(m) ==
    IF /\ starvation_policy.enable_quota_enforcement
       /\ starvation_policy.max_queue_wait_ms > 0
       /\ WaitingTime(m) >= starvation_policy.max_queue_wait_ms
       /\ m.effective_priority < Normal
    THEN [m EXCEPT !.effective_priority = Normal]
    ELSE m

(* The first loop of dequeue, over every heap entry, the stale ones too.   *)
AgedMetadata ==
    [t \in Task |-> IF ready[t] > 0
                    THEN EnforceDeadline(ApplyAging(metadata[t]))
                    ELSE metadata[t]]

(* u32 additions of ResourcePool::can_fit and allocate.                    *)
PoolSum(r, request) ==
    IF r \in WordSized THEN (used[r] + request[r]) % Word
                       ELSE used[r] + request[r]

(* Mutant of CanFit: memory is not compared.                               *)
CanFitNoMemory(request) ==
    \A r \in Resource \ {"memory"} : PoolSum(r, request) <= Capacity[r]

CanFit(request) == \A r \in Resource : PoolSum(r, request) <= Capacity[r]

Allocated(request) == [r \in Resource |-> PoolSum(r, request)]

(* ResourcePool::release: subtraction that stops at zero.                  *)
Released(request) ==
    [r \in Resource |-> IF used[r] >= request[r] THEN used[r] - request[r]
                                                 ELSE 0]

(* The resource part of complete and fail: give back what                  *)
(* running_resources holds for the task, if anything.  The mutant forgets  *)
(* to.                                                                     *)
ReleaseForgotten(t) == UNCHANGED poolVars

ReleaseRunning(t) ==
    IF t \in running_resources
    THEN /\ used' = Released(tasks[t].resources)
         /\ running_resources' = running_resources \ {t}
    ELSE UNCHANGED poolVars

(* detect_cycle finds a gray node: some tasks that all depend on each      *)
(* other.                                                                  *)
DetectCycle(graph) ==
    \E S \in SUBSET Task :
        /\ S # {}
        /\ \A t \in S : Range(graph[t].dependencies) \cap S # {}

(* The breadth-first search of fail: everything Pending or Ready that is   *)
(* reachable from t over successors through such tasks only.               *)
Cascadable(t) == {u \in Task \ {t} : states[u] \in {"Pending", "Ready"}}

CascadeClosed(C, t) ==
    \A v \in C \cup {t} : successors[v] \cap Cascadable(t) \subseteq C

(* Mutants of Cascade: only the direct dependents; the dependencies in     *)
(* place of the dependents.                                                *)
CascadeOneLevel(t) == successors[t] \cap Cascadable(t)
CascadeUpstream(t) == Deps(t) \cap Cascadable(t)

Cascade(t) ==
    {u \in Cascadable(t) :
        \A C \in SUBSET Task : CascadeClosed(C, t) => u \in C}

(* ReadyEntry::cmp under BinaryHeap::pop: u comes out before t.            *)
PopsBefore(m, u, t) ==
    \/ m[u].effective_priority > m[t].effective_priority
    \/ /\ m[u].effective_priority = m[t].effective_priority
       /\ u > t

(* What the pop loop of dequeue may return.                                *)
Runnable ==
    {t \in Task : /\ ready[t] > 0
                  /\ states[t] = "Ready"
                  /\ ~Pooled \/ CanFit(tasks[t].resources)}

(* The states from which complete, fail and requeue take a task, each with *)
(* a mutant that forgets one of the checks.                                *)
CompletableTwice(t) == states[t] \in {"Running", "Completed"}
Completable(t) == states[t] = "Running"

FailableAlways(t) == t \in Known
Failable(t) == states[t] \in {"Running", "Ready", "Pending"}

RequeueableReady(t) == states[t] \in {"Running", "Ready"}
Requeueable(t) == states[t] = "Running"

(* The successors whose counter reaches zero when t completes; the mutant  *)
(* unblocks a task when the first of its dependencies completes.           *)
UnblockedEarly(t) == {u \in successors[t] : states[u] = "Pending"}
Unblocked(t) ==
    {u \in successors[t] : in_degree[u] = 1 /\ states[u] = "Pending"}

-----------------------------------------------------------------------------
(* The operations.                                                         *)

Init ==
    /\ tasks = [t \in Task |-> Blank(t)]
    /\ states = [t \in Task |-> "Absent"]
    /\ successors = [t \in Task |-> {}]
    /\ in_degree = [t \in Task |-> 0]
    /\ ready = [t \in Task |-> 0]
    /\ metadata = [t \in Task |->
                      [enqueued_at_ms |-> 0, effective_priority |-> Low]]
    /\ fairness_policy \in FairnessPolicies
    /\ starvation_policy \in StarvationPolicies
    /\ used = [r \in Resource |-> 0]
    /\ running_resources = {}
    /\ now = 0

(* DagScheduler::enqueue: a new identifier, known dependencies, no cycle.  *)
Enqueue(d) ==
    LET t == d.task_id
        roots == Len(d.dependencies) = 0
        graph == [tasks EXCEPT ![t] = d]
    IN  /\ t \notin Known
        /\ Range(d.dependencies) \subseteq Known \cup {t}
        /\ ~DetectCycle(graph)
        /\ tasks' = graph
        /\ successors' = [u \in Task |-> IF u \in Range(d.dependencies)
                                         THEN successors[u] \cup {t}
                                         ELSE successors[u]]
        /\ in_degree' = [in_degree EXCEPT ![t] = Len(d.dependencies)]
        /\ states' = [states EXCEPT ![t] = IF roots THEN "Ready" ELSE "Pending"]
        /\ metadata' = [metadata EXCEPT ![t] = FreshMetadata(d.priority)]
        /\ ready' = [ready EXCEPT ![t] = IF roots THEN @ + 1 ELSE @]
        /\ UNCHANGED <<policyVars, poolVars, now>>

(* DagScheduler::complete: count every successor down, and make the ones   *)
(* that reach zero while Pending ready, with a fresh aging window.         *)
Complete(t) ==
    LET unblocked == Unblocked(t)
    IN  /\ Completable(t)
        /\ ReleaseRunning(t)
        /\ in_degree' = [u \in Task |-> IF u \in successors[t]
                                        THEN in_degree[u] - 1
                                        ELSE in_degree[u]]
        /\ states' = [u \in Task |-> IF u = t THEN "Completed"
                                     ELSE IF u \in unblocked THEN "Ready"
                                     ELSE states[u]]
        /\ metadata' = [u \in Task |-> IF u \in unblocked
                                       THEN FreshMetadata(tasks[u].priority)
                                       ELSE metadata[u]]
        /\ ready' = [u \in Task |-> IF u \in unblocked THEN ready[u] + 1
                                                       ELSE ready[u]]
        /\ UNCHANGED <<tasks, successors, policyVars, now>>

(* DagScheduler::fail, and Queue::discard which is the same call.          *)
Fail(t) ==
    /\ Failable(t)
    /\ states' = [u \in Task |-> IF u = t THEN "Failed"
                                 ELSE IF u \in Cascade(t)
                                 THEN "DependencyFailed"
                                 ELSE states[u]]
    /\ IF states[t] = "Running" THEN ReleaseRunning(t)
                                ELSE UNCHANGED poolVars
    /\ UNCHANGED <<graphVars, ready, metadata, policyVars, now>>

(* Queue::dequeue that hands out task t: the first entry of the aged heap  *)
(* that is Ready and fits.  The entries popped before it are dropped when  *)
(* stale and pushed back when they do not fit.                             *)
Dequeue(t) ==
    LET aged == AgedMetadata
    IN  /\ t \in Runnable
        /\ \A u \in Runnable \ {t} : PopsBefore(aged, t, u)
        /\ states' = [states EXCEPT ![t] = "Running"]
        /\ ready' = [u \in Task |->
                        IF u = t THEN ready[t] - 1
                        ELSE IF states[u] # "Ready" /\ PopsBefore(aged, u, t)
                        THEN 0
                        ELSE ready[u]]
        /\ metadata' = [aged EXCEPT ![t].effective_priority =
                                        tasks[t].priority]
        /\ IF Pooled
           THEN /\ used' = Allocated(tasks[t].resources)
                /\ running_resources' = running_resources \cup {t}
           ELSE UNCHANGED poolVars
        /\ UNCHANGED <<graphVars, policyVars, now>>

(* Queue::dequeue that returns None: it has aged every entry and dropped   *)
(* the stale ones.                                                         *)
DequeueNone ==
    /\ Runnable = {}
    /\ metadata' = AgedMetadata
    /\ ready' = [t \in Task |-> IF states[t] = "Ready" THEN ready[t] ELSE 0]
    /\ UNCHANGED <<graphVars, states, policyVars, poolVars, now>>

(* Queue::requeue of a Running task: back to the heap with a new attempt.  *)
Requeue(t, attempt) ==
    /\ Requeueable(t)
    /\ tasks' = [tasks EXCEPT ![t].attempt = attempt]
    /\ states' = [states EXCEPT ![t] = "Ready"]
    /\ metadata' = [metadata EXCEPT ![t] = FreshMetadata(tasks[t].priority)]
    /\ ready' = [ready EXCEPT ![t] = @ + 1]
    /\ UNCHANGED <<successors, in_degree, policyVars, poolVars, now>>

(* Queue::requeue of any other known task only overwrites its attempt.     *)
RequeueIgnored(t, attempt) ==
    /\ t \in Known
    /\ ~Requeueable(t)
    /\ tasks' = [tasks EXCEPT ![t].attempt = attempt]
    /\ UNCHANGED <<states, successors, in_degree, ready, metadata,
                   policyVars, poolVars, now>>

SetFairnessPolicy(p) ==
    /\ fairness_policy' = p
    /\ UNCHANGED <<graphVars, states, ready, metadata, starvation_policy,
                   poolVars, now>>

SetStarvationPolicy(p) ==
    /\ starvation_policy' = p
    /\ UNCHANGED <<graphVars, states, ready, metadata, fairness_policy,
                   poolVars, now>>

(* The wall clock is read by the operations and moves between them.  It is *)
(* not monotonic: it can be set back.                                      *)
Clock ==
    /\ now' \in 0..MaxTime
    /\ UNCHANGED <<graphVars, states, ready, metadata, policyVars, poolVars>>

Next ==
    \/ \E d \in Submission : Enqueue(d)
    \/ \E t \in Task : Complete(t)
    \/ \E t \in Task : Fail(t)
    \/ \E t \in Task : Dequeue(t)
    \/ DequeueNone
    \/ \E t \in Task, a \in Attempt : Requeue(t, a)
    \/ \E t \in Task, a \in Attempt : RequeueIgnored(t, a)
    \/ \E p \in FairnessPolicies : SetFairnessPolicy(p)
    \/ \E p \in StarvationPolicies : SetStarvationPolicy(p)
    \/ Clock

Spec == Init /\ [][Next]_vars

-----------------------------------------------------------------------------
(* Properties of every execution.                                          *)

(* Types of the scheduler's maps.  in_degree being a natural number is a   *)
(* claim: complete decrements an unsigned counter without a check, and an  *)
(* underflow would panic with the mutex held.                              *)
TypeOK ==
    /\ tasks \in [Task -> Descriptor]
    /\ states \in [Task -> TaskState \cup {"Absent"}]
    /\ successors \in [Task -> SUBSET Task]
    /\ in_degree \in [Task -> Nat]
    /\ ready \in [Task -> Nat]
    /\ metadata \in [Task -> [enqueued_at_ms : Nat,
                              effective_priority : Priority]]
    /\ fairness_policy \in FairnessPolicies
    /\ starvation_policy \in StarvationPolicies
    /\ used \in [Resource -> Nat]
    /\ running_resources \in SUBSET Task
    /\ now \in 0..MaxTime

(* Hard invariant 1 of dag.rs, "No task runs before its dependencies       *)
(* complete": whatever is ready, running or done has only completed        *)
(* dependencies, whatever fails, is requeued or is enqueued late.          *)
DepsCompleteFirst ==
    \A t \in Task : states[t] \in {"Ready", "Running", "Completed"} =>
        \A d \in Deps(t) : states[d] = "Completed"

(* The heap and the state map agree: a Ready task has exactly one entry,   *)
(* so it is never lost and never handed out twice; entries of tasks that   *)
(* failed while Ready may stay, at most one each; nobody else has one.     *)
HeapMatchesReady ==
    \A t \in Task :
        /\ states[t] = "Ready" => ready[t] = 1
        /\ states[t] \in {"Absent", "Pending", "Running", "Completed"} =>
               ready[t] = 0
        /\ ready[t] <= 1

(* fail blames nobody without cause: a task is DependencyFailed only when  *)
(* one of its dependencies has failed.                                     *)
DependencyFailedHasCause ==
    \A t \in Task : states[t] = "DependencyFailed" => Deps(t) \cap Dead # {}

(* What the running tasks were granted of r.                               *)
Needs(r) == [t \in Task |-> tasks[t].resources[r]]
RunningLoad(r) == Total(Needs(r), {t \in Task : states[t] = "Running"})

(* ResourcePool never holds more than its configuration, and never less    *)
(* than the running tasks were granted: dequeue does not overcommit, and   *)
(* no release gives back what another task still uses.                     *)
NoOvercommit ==
    Pooled => \A r \in Resource : /\ RunningLoad(r) <= used[r]
                                  /\ used[r] <= Capacity[r]

(* Aging and deadlines only ever promote: a task's effective priority is   *)
(* never below the priority it was submitted with ("Boost priority by      *)
(* configured levels, capped at Critical").                                *)
NeverDemoted ==
    \A t \in Known :
        metadata[t].effective_priority \in tasks[t].priority..Critical

(* fail cascades completely: in the step in which a task dies, every task  *)
(* that already depends on it and has not died is doomed with it, at any   *)
(* depth; no dependent is left Pending or Ready behind a dead task.        *)
FailureCascades ==
    [][\A t \in Task : \A u \in Known :
          /\ t \in Deps(u)
          /\ t \notin Dead
          /\ t \in Dead'
          => u \in Dead']_vars

(* Terminal states are final: no requeue, late completion or cascade moves *)
(* a task out of Completed, Failed or DependencyFailed.                    *)
TerminalIsFinal ==
    [][\A t \in Task :
          states[t] \in {"Completed", "Failed", "DependencyFailed"} =>
              states'[t] = states[t]]_vars

=============================================================================
