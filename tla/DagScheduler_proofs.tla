------------------------ MODULE DagScheduler_proofs ------------------------
(***************************************************************************)
(* Proofs about DagScheduler, for every set of tasks, every set of         *)
(* submissions and every policy.                                           *)
(*                                                                         *)
(* The safety argument of the scheduler rests on its counters: in_degree   *)
(* is never smaller than the number of dependencies that have not          *)
(* completed (it may be larger, which only delays a task).  Hence a        *)
(* counter that reaches zero means that nothing is missing, and a counter  *)
(* that is decremented is positive.                                        *)
(***************************************************************************)
EXTENDS DagBatch, Totals_proofs, FiniteSetTheorems, TLAPS

Incomplete(t) == {d \in Deps(t) : states[d] # "Completed"}

(* successors is the reverse of the dependency lists of the known tasks.   *)
EdgesMatch ==
    \A t, u \in Task :
        u \in successors[t] <=> (states[u] # "Absent" /\ t \in Deps(u))

DepsKnown ==
    \A t \in Task : states[t] # "Absent" =>
        \A d \in Deps(t) : states[d] # "Absent"

InDegreeCovers ==
    \A t \in Task : states[t] # "Absent" =>
        Cardinality(Incomplete(t)) <= in_degree[t]

IInv ==
    /\ TypeOK
    /\ EdgesMatch
    /\ DepsKnown
    /\ InDegreeCovers
    /\ DepsCompleteFirst
    /\ HeapMatchesReady

-----------------------------------------------------------------------------
(* Facts about the operators.                                              *)

(* A list names at most as many tasks as it is long, and an empty list     *)
(* names none: what makes dependencies.len() an upper bound.               *)
LEMMA RangeOfSeq ==
    ASSUME NEW S, NEW s \in Seq(S)
    PROVE  /\ IsFiniteSet(Range(s))
           /\ Range(s) \subseteq S
           /\ Cardinality(Range(s)) <= Len(s)
           /\ Len(s) = 0 => Range(s) = {}
<1>1. Len(s) \in Nat /\ DOMAIN s = 1..Len(s) /\ s \in [1..Len(s) -> Range(s)]
  BY DEF Range
<1>2. s \in Surjection(1..Len(s), Range(s))
  BY <1>1 DEF Surjection, Range
<1>3. IsFiniteSet(1..Len(s)) /\ Cardinality(1..Len(s)) = Len(s)
  BY <1>1, FS_Interval, SMTT(30)
<1>4. IsFiniteSet(Range(s)) /\ Cardinality(Range(s)) <= Len(s)
  BY <1>2, <1>3, FS_Surjection
<1>5. Range(s) \subseteq S
  BY <1>1 DEF Range
<1>6. Len(s) = 0 => Range(s) = {}
  BY <1>1 DEF Range
<1> QED
  BY <1>4, <1>5, <1>6

(* The incomplete dependencies of a task are finitely many tasks.          *)
LEMMA IncompleteFinite ==
    ASSUME TypeOK, NEW t \in Task
    PROVE  /\ Deps(t) \subseteq Task
           /\ IsFiniteSet(Deps(t))
           /\ IsFiniteSet(Incomplete(t))
           /\ Cardinality(Incomplete(t)) \in Nat
<1>1. tasks[t].dependencies \in Seq(Task)
  BY DEF TypeOK, Descriptor
<1>2. IsFiniteSet(Deps(t)) /\ Deps(t) \subseteq Task
  BY <1>1, RangeOfSeq DEF Deps
<1>3. Incomplete(t) \in SUBSET Deps(t)
  BY DEF Incomplete
<1>4. IsFiniteSet(Incomplete(t))
  BY <1>2, <1>3, FS_Subset
<1> QED
  BY <1>2, <1>4, FS_CardinalityType

(* Aging keeps metadata well typed: priorities stay between Low and        *)
(* Critical, whatever the boost.                                           *)
LEMMA AgedMetadataType ==
    ASSUME TypeOK
    PROVE  AgedMetadata \in [Task -> [enqueued_at_ms : Nat,
                                      effective_priority : Priority]]
<1> DEFINE M == [enqueued_at_ms : Nat, effective_priority : Priority]
<1>1. ASSUME NEW m \in M
      PROVE  ApplyAging(m) \in M
  <2>0. fairness_policy \in
            [aging_threshold_ms : Nat, aging_boost_levels : 0..(U8 - 1)]
    BY PolicyAssumption DEF TypeOK
  <2>1. fairness_policy.aging_boost_levels \in Nat
    BY <2>0 DEF U8
  <2>2. (m.effective_priority + fairness_policy.aging_boost_levels) % U8 \in Nat
    BY <2>1 DEF Priority, U8
  <2> QED
    BY <2>2 DEF ApplyAging, Priority, Critical
<1>2. ASSUME NEW m \in M
      PROVE  EnforceDeadline(m) \in M
  BY DEF EnforceDeadline, Priority, Normal
<1>3. \A t \in Task : metadata[t] \in M
  BY DEF TypeOK
<1> QED
  BY <1>1, <1>2, <1>3 DEF AgedMetadata

(* Pool arithmetic stays in the naturals.                                  *)
LEMMA PoolType ==
    ASSUME TypeOK, NEW request \in [Resource -> Nat]
    PROVE  /\ Allocated(request) \in [Resource -> Nat]
           /\ Released(request) \in [Resource -> Nat]
<1>1. \A r \in Resource : used[r] \in Nat /\ request[r] \in Nat
  BY DEF TypeOK
<1>2. \A r \in Resource : (used[r] + request[r]) % Word \in Nat
  BY <1>1, PoolAssumption
<1>3. Allocated(request) \in [Resource -> Nat]
  BY <1>1, <1>2 DEF Allocated, PoolSum
<1> QED
  BY <1>1, <1>3 DEF Released

LEMMA ReleaseRunningType ==
    ASSUME TypeOK, NEW t \in Task, ReleaseRunning(t)
    PROVE  used' \in [Resource -> Nat] /\ running_resources' \in SUBSET Task
<1>1. tasks[t].resources \in [Resource -> Nat]
  BY DEF TypeOK, Descriptor
<1> QED
  BY <1>1, PoolType DEF ReleaseRunning, TypeOK, poolVars

(* A step that leaves the graph, the counters and the set of completed     *)
(* tasks alone, and makes nobody newly ready, keeps everything the         *)
(* invariant says about dependencies.                                      *)
LEMMA GraphUntouched ==
    ASSUME IInv,
           successors' = successors,
           in_degree' = in_degree,
           \A t \in Task :
               /\ tasks'[t].dependencies = tasks[t].dependencies
               /\ states'[t] = "Absent" <=> states[t] = "Absent"
               /\ states'[t] = "Completed" <=> states[t] = "Completed"
               /\ states'[t] \in {"Ready", "Running"} =>
                      states[t] \in {"Ready", "Running"}
    PROVE  EdgesMatch' /\ DepsKnown' /\ InDegreeCovers' /\ DepsCompleteFirst'
<1>1. \A t \in Task : Deps(t)' = Deps(t) /\ Deps(t) \subseteq Task
  BY IncompleteFinite DEF Deps, IInv
<1>2. \A t \in Task : Incomplete(t)' = Incomplete(t)
  BY <1>1 DEF Incomplete
<1>3. EdgesMatch' /\ DepsKnown' /\ InDegreeCovers'
  BY <1>1, <1>2 DEF IInv, EdgesMatch, DepsKnown, InDegreeCovers
<1>4. DepsCompleteFirst'
  BY <1>1 DEF IInv, DepsCompleteFirst
<1> QED
  BY <1>3, <1>4

-----------------------------------------------------------------------------
(* The invariant holds initially.                                          *)
LEMMA InitIInv == Init => IInv
<1> SUFFICES ASSUME Init PROVE IInv
  OBVIOUS
<1>1. \A t \in Task : Blank(t) \in Descriptor
  BY DEF Blank, Descriptor, Priority, Low
<1>2. TypeOK
  BY <1>1, TimeAssumption DEF Init, TypeOK, TaskState, Priority, Low
<1>3. \A t \in Task : Deps(t) = {}
  BY DEF Init, Deps, Blank, Range
<1> QED
  BY <1>2, <1>3 DEF Init, IInv, EdgesMatch, DepsKnown, InDegreeCovers,
                    DepsCompleteFirst, HeapMatchesReady

(* enqueue: the counter starts at the length of the list, so it covers the *)
(* distinct incomplete dependencies; nobody's dependencies change.         *)
LEMMA EnqueueIInv ==
    ASSUME IInv, NEW d \in Submission, Enqueue(d)
    PROVE  IInv'
<1> DEFINE t == d.task_id
<1>1. /\ d \in Descriptor /\ t \in Task /\ states[t] = "Absent"
      /\ d.dependencies \in Seq(Task) /\ Len(d.dependencies) \in Nat
      /\ d.priority \in Priority
  BY SubmissionAssumption DEF Enqueue, Known, Descriptor
<1>2. now \in Nat
  BY TimeAssumption DEF IInv, TypeOK
<1>3. TypeOK'
  BY <1>1, <1>2, SMTT(30) DEF IInv, TypeOK, Enqueue, FreshMetadata, TaskState,
                    policyVars, poolVars
<1>4. /\ \A u \in Task : u # t => Deps(u)' = Deps(u)
      /\ Deps(t)' = Range(d.dependencies)
      /\ \A u \in Task : Deps(u)' \subseteq Task
  <2>1. \A u \in Task : Deps(u) \subseteq Task
    BY IncompleteFinite DEF IInv
  <2>2. /\ \A u \in Task : u # t => Deps(u)' = Deps(u)
        /\ Deps(t)' = Range(d.dependencies)
    BY <1>1 DEF IInv, TypeOK, Enqueue, Deps
  <2> QED
    BY <2>1, <2>2, <1>1, RangeOfSeq
<1>5. /\ \A u \in Task : u # t => states'[u] = states[u]
      /\ states'[t] = (IF Len(d.dependencies) = 0 THEN "Ready" ELSE "Pending")
  BY <1>1 DEF IInv, TypeOK, Enqueue
<1>6. \A u \in Task : states[u] # "Absent" => t \notin Deps(u)
  BY <1>1 DEF IInv, DepsKnown
<1>7. t \notin Range(d.dependencies) /\ Range(d.dependencies) \subseteq Known
  <2>1. ~DetectCycle([tasks EXCEPT ![t] = d])
    BY DEF Enqueue
  <2>2. [tasks EXCEPT ![t] = d][t] = d
    BY <1>1 DEF IInv, TypeOK
  <2>3. ASSUME t \in Range(d.dependencies)
        PROVE  FALSE
    <3>1. {t} \in SUBSET Task /\ {t} # {}
      BY <1>1
    <3>2. \A u \in {t} :
              Range([tasks EXCEPT ![t] = d][u].dependencies) \cap {t} # {}
      BY <2>2, <2>3
    <3> QED
      BY <2>1, <3>1, <3>2 DEF DetectCycle
  <2> QED
    BY <2>3 DEF Enqueue
<1>8. EdgesMatch'
  <2> SUFFICES ASSUME NEW v \in Task, NEW u \in Task
               PROVE  u \in successors'[v] <=>
                          (states'[u] # "Absent" /\ v \in Deps(u)')
    BY DEF EdgesMatch
  <2>1. successors'[v] = IF v \in Range(d.dependencies)
                         THEN successors[v] \cup {t} ELSE successors[v]
    BY DEF Enqueue
  <2>2. u \in successors[v] <=> (states[u] # "Absent" /\ v \in Deps(u))
    BY DEF IInv, EdgesMatch
  <2>3. CASE u = t
    BY <2>1, <2>2, <2>3, <1>1, <1>4, <1>5
  <2>4. CASE u # t
    BY <2>1, <2>2, <2>4, <1>4, <1>5
  <2> QED
    BY <2>3, <2>4
<1>9. DepsKnown'
  BY <1>4, <1>5, <1>7 DEF IInv, DepsKnown, Known
<1>10. InDegreeCovers'
  <2> SUFFICES ASSUME NEW u \in Task, states'[u] # "Absent"
               PROVE  Cardinality(Incomplete(u)') <= in_degree'[u]
    BY DEF InDegreeCovers
  <2>1. CASE u = t
    <3>1. Incomplete(t)' \in SUBSET Range(d.dependencies)
      BY <1>4 DEF Incomplete
    <3>2. /\ IsFiniteSet(Range(d.dependencies))
          /\ Cardinality(Range(d.dependencies)) <= Len(d.dependencies)
      BY <1>1, RangeOfSeq
    <3>3. /\ Cardinality(Incomplete(t)') <= Cardinality(Range(d.dependencies))
          /\ Cardinality(Incomplete(t)') \in Nat
          /\ Cardinality(Range(d.dependencies)) \in Nat
      BY <3>1, <3>2, FS_Subset, FS_CardinalityType
    <3>4. in_degree'[t] = Len(d.dependencies)
      BY <1>1 DEF Enqueue, IInv, TypeOK
    <3> QED
      BY <2>1, <3>2, <3>3, <3>4, <1>1
  <2>2. CASE u # t
    <3>1. Incomplete(u)' = Incomplete(u)
      BY <2>2, <1>1, <1>4, <1>5, <1>6 DEF Incomplete
    <3>2. in_degree'[u] = in_degree[u] /\ states[u] # "Absent"
      BY <2>2, <1>1, <1>5 DEF Enqueue, IInv, TypeOK
    <3> QED
      BY <3>1, <3>2 DEF IInv, InDegreeCovers
  <2> QED
    BY <2>1, <2>2
<1>11. DepsCompleteFirst'
  <2>1. Len(d.dependencies) = 0 => Range(d.dependencies) = {}
    BY <1>1, RangeOfSeq
  <2> QED
    BY <2>1, <1>1, <1>4, <1>5, <1>6 DEF IInv, DepsCompleteFirst
<1>12. HeapMatchesReady'
  <2>1. ready' = [ready EXCEPT ![t] = IF Len(d.dependencies) = 0
                                      THEN @ + 1 ELSE @]
    BY DEF Enqueue
  <2> QED
    BY <2>1, <1>1, <1>5 DEF IInv, TypeOK, HeapMatchesReady
<1> QED
  BY <1>3, <1>8, <1>9, <1>10, <1>11, <1>12 DEF IInv

(* complete: t is incomplete for each of its successors, so each counter   *)
(* is positive, and where it reaches zero t was the last one missing.      *)
LEMMA CompleteIInv ==
    ASSUME IInv, NEW t \in Task, Complete(t)
    PROVE  IInv'
<1>1. states[t] = "Running" /\ t \notin Deps(t) /\ t \notin successors[t]
  BY DEF Complete, Completable, IInv, DepsCompleteFirst, EdgesMatch
<1>2. \A u \in Task : Deps(u)' = Deps(u) /\ Deps(u) \subseteq Task
  BY IncompleteFinite DEF Complete, Deps, IInv
<1>3. \A u \in Task :
          states'[u] = IF u = t THEN "Completed"
                       ELSE IF u \in Unblocked(t) THEN "Ready"
                       ELSE states[u]
  BY DEF Complete
<1>4. ASSUME NEW u \in Task, u \in successors[t]
      PROVE  /\ states[u] # "Absent" /\ t \in Incomplete(u)
             /\ Incomplete(u)' = Incomplete(u) \ {t}
             /\ Cardinality(Incomplete(u)') = Cardinality(Incomplete(u)) - 1
             /\ Cardinality(Incomplete(u)') \in Nat
             /\ Cardinality(Incomplete(u)') <= in_degree[u] - 1
  <2>1. states[u] # "Absent" /\ t \in Incomplete(u)
    BY <1>1, <1>4 DEF IInv, EdgesMatch, Incomplete
  <2>2. Incomplete(u)' = Incomplete(u) \ {t}
    BY <1>1, <1>2, <1>3 DEF Incomplete, Unblocked
  <2>3. IsFiniteSet(Incomplete(u)) /\ Cardinality(Incomplete(u)) \in Nat
    BY IncompleteFinite DEF IInv
  <2>4. /\ IsFiniteSet(Incomplete(u)')
        /\ Cardinality(Incomplete(u)') = Cardinality(Incomplete(u)) - 1
    BY <2>1, <2>2, <2>3, FS_RemoveElement
  <2>5. Cardinality(Incomplete(u)') \in Nat
    BY <2>4, FS_CardinalityType
  <2>6. Cardinality(Incomplete(u)) <= in_degree[u]
    BY <2>1 DEF IInv, InDegreeCovers
  <2>7. in_degree[u] \in Nat
    BY DEF IInv, TypeOK
  <2> QED
    BY <2>1, <2>2, <2>3, <2>4, <2>5, <2>6, <2>7
<1>5. \A u \in Task : in_degree'[u] = IF u \in successors[t]
                                      THEN in_degree[u] - 1 ELSE in_degree[u]
  BY DEF Complete
<1>6. in_degree' \in [Task -> Nat]
  <2>1. \A u \in Task : in_degree[u] \in Nat
    BY DEF IInv, TypeOK
  <2>2. \A u \in successors[t] : in_degree[u] - 1 \in Nat
    BY <1>4, <2>1 DEF IInv, TypeOK
  <2> QED
    BY <2>1, <2>2 DEF Complete
<1>7. TypeOK'
  <2>1. now \in Nat
    BY TimeAssumption DEF IInv, TypeOK
  <2>2. metadata' \in [Task -> [enqueued_at_ms : Nat,
                                effective_priority : Priority]]
    <3>1. \A u \in Task : tasks[u].priority \in Priority
      BY DEF IInv, TypeOK, Descriptor
    <3>2. \A u \in Task : FreshMetadata(tasks[u].priority) \in
              [enqueued_at_ms : Nat, effective_priority : Priority]
      BY <2>1, <3>1 DEF FreshMetadata
    <3> QED
      BY <3>2 DEF Complete, IInv, TypeOK
  <2>3. used' \in [Resource -> Nat] /\ running_resources' \in SUBSET Task
    BY ReleaseRunningType DEF Complete, IInv
  <2>4. states' \in [Task -> TaskState \cup {"Absent"}]
    BY DEF Complete, IInv, TypeOK, TaskState
  <2>5. ready' \in [Task -> Nat]
    BY DEF Complete, IInv, TypeOK
  <2> QED
    BY <1>6, <2>2, <2>3, <2>4, <2>5 DEF Complete, IInv, TypeOK, policyVars
<1>8. EdgesMatch' /\ DepsKnown'
  <2>1. \A u \in Task : states'[u] = "Absent" <=> states[u] = "Absent"
    BY <1>1, <1>3 DEF Unblocked
  <2>2. successors' = successors
    BY DEF Complete
  <2> QED
    BY <1>2, <2>1, <2>2 DEF IInv, EdgesMatch, DepsKnown
<1>9. ASSUME NEW u \in Task, states[u] # "Absent", u \notin successors[t]
      PROVE  Incomplete(u)' = Incomplete(u)
  <2>1. t \notin Deps(u)
    BY <1>9 DEF IInv, EdgesMatch
  <2> QED
    BY <2>1, <1>2, <1>3 DEF Incomplete, Unblocked
<1>10. InDegreeCovers'
  <2> SUFFICES ASSUME NEW u \in Task, states'[u] # "Absent"
               PROVE  Cardinality(Incomplete(u)') <= in_degree'[u]
    BY DEF InDegreeCovers
  <2>1. CASE u \in successors[t]
    BY <2>1, <1>4, <1>5
  <2>2. CASE u \notin successors[t]
    <3>1. states[u] # "Absent"
      BY <1>1, <1>3 DEF Unblocked
    <3> QED
      BY <3>1, <2>2, <1>5, <1>9 DEF IInv, InDegreeCovers
  <2> QED
    BY <2>1, <2>2
<1>11. DepsCompleteFirst'
  <2> SUFFICES ASSUME NEW u \in Task,
                      states'[u] \in {"Ready", "Running", "Completed"},
                      NEW d \in Deps(u)
               PROVE  states'[d] = "Completed"
    BY <1>2 DEF DepsCompleteFirst
  <2>0. d \in Task
    BY <1>2
  <2>1. CASE u \in Unblocked(t)
    <3>1. u \in successors[t] /\ in_degree[u] = 1
      BY <2>1 DEF Unblocked
    <3>2. Cardinality(Incomplete(u)') = 0 /\ Incomplete(u)' = Incomplete(u) \ {t}
      BY <3>1, <1>4
    <3>3. Incomplete(u)' = {}
      <4>1. IsFiniteSet(Incomplete(u)')
        BY <3>2, IncompleteFinite, FS_RemoveElement, SMTT(30) DEF IInv
      <4> QED
        BY <3>2, <4>1, FS_EmptySet
    <3> QED
      BY <3>3, <2>0, <1>2 DEF Incomplete
  <2>2. CASE u \notin Unblocked(t)
    <3>1. states[u] \in {"Ready", "Running", "Completed"}
      BY <2>2, <1>1, <1>3
    <3>2. states[d] = "Completed"
      BY <3>1 DEF IInv, DepsCompleteFirst
    <3> QED
      BY <3>2, <2>0, <1>3 DEF Unblocked
  <2> QED
    BY <2>1, <2>2
<1>12. HeapMatchesReady'
  <2>1. \A u \in Task : ready'[u] = IF u \in Unblocked(t) THEN ready[u] + 1
                                                           ELSE ready[u]
    BY DEF Complete
  <2>2. \A u \in Unblocked(t) : states[u] = "Pending"
    BY DEF Unblocked
  <2> QED
    BY <2>1, <2>2, <1>1, <1>3 DEF IInv, TypeOK, HeapMatchesReady
<1> QED
  BY <1>7, <1>8, <1>10, <1>11, <1>12 DEF IInv

(* fail: the dead were not complete, and nobody becomes ready.             *)
LEMMA FailIInv ==
    ASSUME IInv, NEW t \in Task, Fail(t)
    PROVE  IInv'
<1>1. \A u \in Task :
          states'[u] = IF u = t THEN "Failed"
                       ELSE IF u \in Cascade(t) THEN "DependencyFailed"
                       ELSE states[u]
  BY DEF Fail
<1>2. /\ states[t] \in {"Running", "Ready", "Pending"}
      /\ \A u \in Cascade(t) : states[u] \in {"Pending", "Ready"}
  BY DEF Fail, Failable, Cascade, Cascadable
<1>3. used' \in [Resource -> Nat] /\ running_resources' \in SUBSET Task
  <2>1. CASE states[t] = "Running"
    BY <2>1, ReleaseRunningType DEF Fail, IInv
  <2>2. CASE states[t] # "Running"
    BY <2>2 DEF Fail, IInv, TypeOK, poolVars
  <2> QED
    BY <2>1, <2>2
<1>4. states' \in [Task -> TaskState \cup {"Absent"}]
  BY DEF Fail, IInv, TypeOK, TaskState
<1>5. TypeOK'
  BY <1>3, <1>4 DEF Fail, IInv, TypeOK, graphVars, policyVars
<1>6. EdgesMatch' /\ DepsKnown' /\ InDegreeCovers' /\ DepsCompleteFirst'
  BY <1>1, <1>2, GraphUntouched DEF Fail, graphVars
<1>7. HeapMatchesReady'
  BY <1>1, <1>2 DEF Fail, IInv, TypeOK, HeapMatchesReady
<1> QED
  BY <1>5, <1>6, <1>7 DEF IInv

(* dequeue hands out a Ready task and removes its only entry.              *)
LEMMA DequeueIInv ==
    ASSUME IInv, NEW t \in Task, Dequeue(t)
    PROVE  IInv'
<1>1. /\ states[t] = "Ready" /\ ready[t] = 1
      /\ \A u \in Task : states'[u] = IF u = t THEN "Running" ELSE states[u]
  BY DEF Dequeue, Runnable, IInv, TypeOK, HeapMatchesReady
<1>2. \A u \in Task : /\ u = t => ready'[u] = 0
                      /\ u # t /\ states[u] = "Ready" => ready'[u] = ready[u]
                      /\ u # t => ready'[u] \in {0, ready[u]}
  BY <1>1 DEF Dequeue
<1>3. \A u \in Task : ready[u] \in Nat /\ ready'[u] \in Nat
  BY <1>2 DEF IInv, TypeOK
<1>4. TypeOK'
  <2>1. metadata' \in [Task -> [enqueued_at_ms : Nat,
                                effective_priority : Priority]]
    <3>1. tasks[t].priority \in Priority
      BY DEF IInv, TypeOK, Descriptor
    <3> QED
      BY <3>1, AgedMetadataType DEF Dequeue, IInv
  <2>2. used' \in [Resource -> Nat] /\ running_resources' \in SUBSET Task
    <3>1. tasks[t].resources \in [Resource -> Nat]
      BY DEF IInv, TypeOK, Descriptor
    <3>2. Allocated(tasks[t].resources) \in [Resource -> Nat]
      BY <3>1, PoolType DEF IInv
    <3>3. CASE Pooled
      BY <3>2, <3>3 DEF Dequeue, IInv, TypeOK
    <3>4. CASE ~Pooled
      BY <3>4 DEF Dequeue, IInv, TypeOK, poolVars
    <3> QED
      BY <3>3, <3>4
  <2>3. states' \in [Task -> TaskState \cup {"Absent"}]
    BY DEF Dequeue, IInv, TypeOK, TaskState
  <2>4. ready' \in [Task -> Nat]
    BY <1>3 DEF Dequeue
  <2> QED
    BY <2>1, <2>2, <2>3, <2>4 DEF Dequeue, IInv, TypeOK, graphVars, policyVars
<1>5. EdgesMatch' /\ DepsKnown' /\ InDegreeCovers' /\ DepsCompleteFirst'
  BY <1>1, GraphUntouched DEF Dequeue, graphVars
<1>6. HeapMatchesReady'
  BY <1>1, <1>2, <1>3 DEF IInv, HeapMatchesReady
<1> QED
  BY <1>4, <1>5, <1>6 DEF IInv

LEMMA DequeueNoneIInv ==
    ASSUME IInv, DequeueNone
    PROVE  IInv'
<1>1. TypeOK'
  BY AgedMetadataType
  DEF DequeueNone, IInv, TypeOK, graphVars, policyVars, poolVars
<1>2. EdgesMatch' /\ DepsKnown' /\ InDegreeCovers' /\ DepsCompleteFirst'
  BY GraphUntouched DEF DequeueNone, graphVars
<1>3. HeapMatchesReady'
  BY DEF DequeueNone, IInv, TypeOK, HeapMatchesReady
<1> QED
  BY <1>1, <1>2, <1>3 DEF IInv

(* requeue puts one entry back for a task that had none.                   *)
LEMMA RequeueIInv ==
    ASSUME IInv, NEW t \in Task, NEW a \in Attempt,
           Requeue(t, a) \/ RequeueIgnored(t, a)
    PROVE  IInv'
<1>1. \A u \in Task : tasks'[u] \in Descriptor /\
                      tasks'[u].dependencies = tasks[u].dependencies
  <2>1. tasks' = [tasks EXCEPT ![t].attempt = a] /\ a \in Nat
    BY AttemptAssumption DEF Requeue, RequeueIgnored
  <2>2. \A u \in Task : tasks'[u] = IF u = t THEN [tasks[t] EXCEPT !.attempt = a]
                                            ELSE tasks[u]
    BY <2>1 DEF IInv, TypeOK
  <2>3. tasks[t] \in Descriptor /\ \A u \in Task : tasks[u] \in Descriptor
    BY DEF IInv, TypeOK
  <2>4. /\ [tasks[t] EXCEPT !.attempt = a] \in Descriptor
        /\ [tasks[t] EXCEPT !.attempt = a].dependencies = tasks[t].dependencies
    BY <2>1, <2>3 DEF Descriptor
  <2> QED
    BY <2>2, <2>3, <2>4
<1>2. tasks' \in [Task -> Descriptor]
  <2>1. tasks' = [tasks EXCEPT ![t].attempt = a]
    BY DEF Requeue, RequeueIgnored
  <2> QED
    BY <1>1, <2>1 DEF IInv, TypeOK
<1>3. CASE Requeue(t, a)
  <2>1. /\ states[t] = "Running"
        /\ \A u \in Task : states'[u] = IF u = t THEN "Ready" ELSE states[u]
    BY <1>3 DEF Requeue, Requeueable, IInv, TypeOK
  <2>2. metadata' \in [Task -> [enqueued_at_ms : Nat,
                                effective_priority : Priority]]
    <3>1. tasks[t].priority \in Priority /\ now \in Nat
      BY TimeAssumption DEF IInv, TypeOK, Descriptor
    <3> QED
      BY <1>3, <3>1 DEF Requeue, FreshMetadata, IInv, TypeOK
  <2>3. TypeOK'
    BY <1>2, <1>3, <2>2
    DEF Requeue, IInv, TypeOK, TaskState, policyVars, poolVars
  <2>4. EdgesMatch' /\ DepsKnown' /\ InDegreeCovers' /\ DepsCompleteFirst'
    BY <1>1, <1>3, <2>1, GraphUntouched DEF Requeue
  <2>5. HeapMatchesReady'
    BY <1>3, <2>1 DEF Requeue, IInv, TypeOK, HeapMatchesReady
  <2> QED
    BY <2>3, <2>4, <2>5 DEF IInv
<1>4. CASE RequeueIgnored(t, a)
  <2>1. TypeOK'
    BY <1>2, <1>4 DEF RequeueIgnored, IInv, TypeOK, policyVars, poolVars
  <2>2. EdgesMatch' /\ DepsKnown' /\ InDegreeCovers' /\ DepsCompleteFirst'
    BY <1>1, <1>4, GraphUntouched DEF RequeueIgnored
  <2>3. HeapMatchesReady'
    BY <1>4 DEF RequeueIgnored, IInv, HeapMatchesReady
  <2> QED
    BY <2>1, <2>2, <2>3 DEF IInv
<1> QED
  BY <1>3, <1>4

(* Policies, the clock and stuttering do not touch what the invariant      *)
(* relates.                                                                *)
LEMMA EnvironmentIInv ==
    ASSUME IInv,
           \/ \E p \in FairnessPolicies : SetFairnessPolicy(p)
           \/ \E p \in StarvationPolicies : SetStarvationPolicy(p)
           \/ Clock
           \/ UNCHANGED vars
    PROVE  IInv'
<1>1. /\ tasks' = tasks /\ states' = states /\ successors' = successors
      /\ in_degree' = in_degree /\ ready' = ready
  BY DEF SetFairnessPolicy, SetStarvationPolicy, Clock, vars, graphVars
<1>2. TypeOK'
  BY DEF SetFairnessPolicy, SetStarvationPolicy, Clock, vars, graphVars,
         policyVars, poolVars, IInv, TypeOK
<1>3. EdgesMatch' /\ DepsKnown' /\ InDegreeCovers' /\ DepsCompleteFirst'
  BY <1>1, GraphUntouched
<1>4. HeapMatchesReady'
  BY <1>1 DEF IInv, HeapMatchesReady
<1> QED
  BY <1>2, <1>3, <1>4 DEF IInv

LEMMA NextIInv == IInv /\ [Next]_vars => IInv'
<1> SUFFICES ASSUME IInv, [Next]_vars PROVE IInv'
  OBVIOUS
<1>1. ASSUME NEW d \in Submission, Enqueue(d) PROVE IInv'
  BY <1>1, EnqueueIInv
<1>2. ASSUME NEW t \in Task, Complete(t) PROVE IInv'
  BY <1>2, CompleteIInv
<1>3. ASSUME NEW t \in Task, Fail(t) PROVE IInv'
  BY <1>3, FailIInv
<1>4. ASSUME NEW t \in Task, Dequeue(t) PROVE IInv'
  BY <1>4, DequeueIInv
<1>5. CASE DequeueNone
  BY <1>5, DequeueNoneIInv
<1>6. ASSUME NEW t \in Task, NEW a \in Attempt,
             Requeue(t, a) \/ RequeueIgnored(t, a)
      PROVE  IInv'
  BY <1>6, RequeueIInv
<1>7. CASE \/ \E p \in FairnessPolicies : SetFairnessPolicy(p)
           \/ \E p \in StarvationPolicies : SetStarvationPolicy(p)
           \/ Clock
           \/ UNCHANGED vars
  BY <1>7, EnvironmentIInv
<1> QED
  BY <1>1, <1>2, <1>3, <1>4, <1>5, <1>6, <1>7 DEF Next

(* The inductive invariant holds in every reachable state.                 *)
THEOREM Invariance == Spec => []IInv
BY InitIInv, NextIInv, PTL DEF Spec

-----------------------------------------------------------------------------
(* What follows from it.                                                   *)

(* Every map keeps its type; in particular complete never decrements a     *)
(* counter that is zero.                                                   *)
THEOREM TypeCorrect == Spec => []TypeOK
<1>1. IInv => TypeOK
  BY DEF IInv
<1> QED
  BY <1>1, Invariance, PTL

(* No task becomes ready, runs or completes before all its dependencies    *)
(* have completed.                                                         *)
THEOREM DependenciesFirst == Spec => []DepsCompleteFirst
<1>1. IInv => DepsCompleteFirst
  BY DEF IInv
<1> QED
  BY <1>1, Invariance, PTL

(* Every ready task has exactly one entry in the heap, and only ready or   *)
(* dead tasks have one.                                                    *)
THEOREM HeapConsistent == Spec => []HeapMatchesReady
<1>1. IInv => HeapMatchesReady
  BY DEF IInv
<1> QED
  BY <1>1, Invariance, PTL

-----------------------------------------------------------------------------
(* Steps, and the failure cascade.                                         *)

DeadState == {"Failed", "DependencyFailed"}

(* Terminal tasks stay as they are and known tasks keep their              *)
(* dependencies, and only fail makes a task die.                           *)
LEMMA StepEffects ==
    ASSUME IInv, [Next]_vars
    PROVE  /\ \A t \in Task :
                  states[t] \in {"Completed", "Failed", "DependencyFailed"} =>
                      states'[t] = states[t]
           /\ \A t \in Task :
                  states[t] # "Absent" =>
                      states'[t] # "Absent" /\ Deps(t)' = Deps(t)
           /\ \/ \E v \in Task : Fail(v)
              \/ \A t \in Task : states'[t] \in DeadState =>
                                     states'[t] = states[t]
<1>1. ASSUME NEW d \in Submission, Enqueue(d)
      PROVE  \A t \in Task :
                 states[t] # "Absent" =>
                     states'[t] = states[t] /\ Deps(t)' = Deps(t)
  BY <1>1, SubmissionAssumption DEF Enqueue, Known, IInv, TypeOK, Deps
<1>2. ASSUME NEW d \in Submission, Enqueue(d)
      PROVE  \A t \in Task : states[t] = "Absent" =>
                 states'[t] \in {"Absent", "Ready", "Pending"}
  BY <1>2, SubmissionAssumption DEF Enqueue, Known, IInv, TypeOK
<1>3. ASSUME NEW t \in Task, NEW a \in Attempt,
             Requeue(t, a) \/ RequeueIgnored(t, a)
      PROVE  \A u \in Task :
                 /\ tasks'[u].dependencies = tasks[u].dependencies
                 /\ states'[u] # states[u] =>
                        states[u] = "Running" /\ states'[u] = "Ready"
  <2>1. tasks' = [tasks EXCEPT ![t].attempt = a]
    BY <1>3 DEF Requeue, RequeueIgnored
  <2>2. \A u \in Task : tasks'[u] = IF u = t THEN [tasks[t] EXCEPT !.attempt = a]
                                            ELSE tasks[u]
    BY <2>1 DEF IInv, TypeOK
  <2>3. tasks[t] \in Descriptor
    BY DEF IInv, TypeOK
  <2>4. [tasks[t] EXCEPT !.attempt = a].dependencies = tasks[t].dependencies
    BY <2>3 DEF Descriptor
  <2> QED
    BY <1>3, <2>2, <2>4 DEF Requeue, RequeueIgnored, Requeueable, IInv, TypeOK
<1>4. ASSUME NEW t \in Task, Complete(t) \/ Fail(t) \/ Dequeue(t)
      PROVE  tasks' = tasks
  BY <1>4 DEF Complete, Fail, Dequeue, graphVars
<1>5. ASSUME NEW t \in Task, Complete(t)
      PROVE  \A u \in Task : states'[u] # states[u] =>
                 /\ states[u] \in {"Running", "Pending"}
                 /\ states'[u] \in {"Completed", "Ready"}
  BY <1>5 DEF Complete, Completable, Unblocked
<1>6. ASSUME NEW t \in Task, Fail(t)
      PROVE  \A u \in Task : states'[u] # states[u] =>
                 /\ states[u] \in {"Running", "Pending", "Ready"}
                 /\ states'[u] \in DeadState
  BY <1>6 DEF Fail, Failable, Cascade, Cascadable, DeadState
<1>7. ASSUME NEW t \in Task, Dequeue(t)
      PROVE  \A u \in Task : states'[u] # states[u] =>
                 states[u] = "Ready" /\ states'[u] = "Running"
  BY <1>7 DEF Dequeue, Runnable, IInv, TypeOK
<1>8. ASSUME \/ DequeueNone \/ Clock \/ UNCHANGED vars
             \/ \E p \in FairnessPolicies : SetFairnessPolicy(p)
             \/ \E p \in StarvationPolicies : SetStarvationPolicy(p)
      PROVE  states' = states /\ tasks' = tasks
  BY <1>8 DEF DequeueNone, Clock, SetFairnessPolicy, SetStarvationPolicy,
              vars, graphVars
<1>9. CASE \E d \in Submission : Enqueue(d)
  BY <1>1, <1>2, <1>9 DEF DeadState
<1>10. CASE \E t \in Task : Complete(t)
  BY <1>4, <1>5, <1>10 DEF DeadState, Deps
<1>11. CASE \E t \in Task : Fail(t)
  BY <1>4, <1>6, <1>11 DEF DeadState, Deps
<1>12. CASE \E t \in Task : Dequeue(t)
  BY <1>4, <1>7, <1>12 DEF DeadState, Deps
<1>13. CASE \E t \in Task, a \in Attempt :
                Requeue(t, a) \/ RequeueIgnored(t, a)
  BY <1>3, <1>13 DEF DeadState, Deps
<1>14. CASE \/ DequeueNone \/ Clock \/ UNCHANGED vars
            \/ \E p \in FairnessPolicies : SetFairnessPolicy(p)
            \/ \E p \in StarvationPolicies : SetStarvationPolicy(p)
  BY <1>8, <1>14 DEF Deps
<1> QED
  BY <1>9, <1>10, <1>11, <1>12, <1>13, <1>14 DEF Next

(* No operation takes a task out of a terminal state.                      *)
THEOREM TerminalStatesFinal == Spec => TerminalIsFinal
<1>1. IInv /\ [Next]_vars =>
          [\A t \in Task :
              states[t] \in {"Completed", "Failed", "DependencyFailed"} =>
                  states'[t] = states[t]]_vars
  BY StepEffects
<1> QED
  BY <1>1, Invariance, PTL DEF Spec, TerminalIsFinal

(* fail(t) leaves no dependent of the dead behind, at any depth: Cascade   *)
(* is closed under successors, and no dependent was running or complete.   *)
LEMMA FailCascades ==
    ASSUME IInv, NEW f \in Task, Fail(f),
           NEW t \in Task, NEW u \in Known,
           t \in Deps(u), t \notin Dead, t \in Dead'
    PROVE  u \in Dead'
<1>1. u \in Task /\ states[u] # "Absent" /\ u \in successors[t]
  BY DEF Known, IInv, EdgesMatch
<1>2. \A v \in Task :
          states'[v] = IF v = f THEN "Failed"
                       ELSE IF v \in Cascade(f) THEN "DependencyFailed"
                       ELSE states[v]
  BY DEF Fail
<1>3. t = f \/ t \in Cascade(f)
  BY <1>2 DEF Dead
<1>4. states[t] \in {"Running", "Ready", "Pending"}
  BY <1>3 DEF Fail, Failable, Cascade, Cascadable
<1>5. states[u] \notin {"Ready", "Running", "Completed"}
  BY <1>1, <1>4 DEF IInv, DepsCompleteFirst
<1>6. CASE states[u] \in DeadState \/ u = f
  BY <1>1, <1>2, <1>6 DEF Dead, DeadState, Cascade, Cascadable
<1>7. CASE states[u] = "Pending" /\ u # f
  <2>1. u \in Cascadable(f)
    BY <1>1, <1>7 DEF Cascadable
  <2>2. ASSUME NEW C \in SUBSET Task, CascadeClosed(C, f)
        PROVE  u \in C
    <3>1. t \in C \cup {f}
      BY <1>3, <2>2 DEF Cascade
    <3> QED
      BY <1>1, <2>1, <2>2, <3>1 DEF CascadeClosed
  <2>3. u \in Cascade(f)
    BY <2>1, <2>2 DEF Cascade
  <2> QED
    BY <1>1, <1>2, <2>3 DEF Dead
<1> QED
  BY <1>1, <1>5, <1>6, <1>7 DEF IInv, TypeOK, TaskState, DeadState

(* In the step in which a task dies, everything that depends on it dies.   *)
THEOREM CascadeComplete == Spec => FailureCascades
<1>1. IInv /\ [Next]_vars =>
          [\A t \in Task : \A u \in Known :
              /\ t \in Deps(u)
              /\ t \notin Dead
              /\ t \in Dead'
              => u \in Dead']_vars
  <2> SUFFICES ASSUME IInv, [Next]_vars,
                      NEW t \in Task, NEW u \in Known,
                      t \in Deps(u), t \notin Dead, t \in Dead'
               PROVE  u \in Dead'
    OBVIOUS
  <2>1. \E v \in Task : Fail(v)
    BY StepEffects DEF Dead, DeadState
  <2> QED
    BY <2>1, FailCascades
<1> QED
  BY <1>1, Invariance, PTL DEF Spec, FailureCascades

(* fail(t) marks nobody without cause: Cascade is the least closed set, so *)
(* each of its members has a predecessor in it, or t itself.               *)
LEMMA CascadeHasCause ==
    ASSUME IInv, NEW f \in Task, Fail(f), NEW u \in Cascade(f)
    PROVE  \E v \in Deps(u) : v = f \/ v \in Cascade(f)
<1> SUFFICES ASSUME \A v \in Deps(u) : v # f /\ v \notin Cascade(f)
             PROVE  FALSE
  OBVIOUS
<1> DEFINE C == Cascade(f) \ {u}
<1>1. CascadeClosed(C, f)
  <2> SUFFICES ASSUME NEW v \in C \cup {f},
                      NEW w \in successors[v] \cap Cascadable(f)
               PROVE  w \in C
    BY DEF CascadeClosed
  <2>1. v \in Task /\ w \in Task
    BY DEF Cascade, Cascadable
  <2>2. w \in Cascade(f)
    <3>1. ASSUME NEW D \in SUBSET Task, CascadeClosed(D, f)
          PROVE  w \in D
      <4>1. v \in D \cup {f}
        BY <3>1 DEF Cascade
      <4> QED
        BY <3>1, <4>1 DEF CascadeClosed
    <3> QED
      BY <3>1 DEF Cascade
  <2>3. v \in Deps(w)
    BY <2>1 DEF IInv, EdgesMatch
  <2>4. w # u
    BY <2>3
  <2> QED
    BY <2>2, <2>4
<1>2. C \in SUBSET Task
  BY DEF Cascade, Cascadable
<1> QED
  BY <1>1, <1>2 DEF Cascade

(* A task is DependencyFailed only when one of its dependencies is dead.   *)
THEOREM CascadeSound == Spec => []DependencyFailedHasCause
<1>1. Init => DependencyFailedHasCause
  BY DEF Init, DependencyFailedHasCause
<1>2. IInv /\ DependencyFailedHasCause /\ [Next]_vars =>
          DependencyFailedHasCause'
  <2> SUFFICES ASSUME IInv, DependencyFailedHasCause, [Next]_vars,
                      NEW u \in Task, states'[u] = "DependencyFailed"
               PROVE  Deps(u)' \cap Dead' # {}
    BY DEF DependencyFailedHasCause
  <2>1. CASE states[u] = "DependencyFailed"
    <3>1. PICK d \in Deps(u) : d \in Dead
      BY <2>1 DEF DependencyFailedHasCause
    <3>2. d \in Dead'
      BY <3>1, StepEffects DEF Dead
    <3> QED
      BY <2>1, <3>1, <3>2, StepEffects
  <2>2. CASE states[u] # "DependencyFailed"
    <3>1. PICK f \in Task : Fail(f)
      BY <2>2, StepEffects DEF DeadState
    <3>2. \A v \in Task :
              states'[v] = IF v = f THEN "Failed"
                           ELSE IF v \in Cascade(f) THEN "DependencyFailed"
                           ELSE states[v]
      BY <3>1 DEF Fail
    <3>3. u \in Cascade(f)
      BY <2>2, <3>2
    <3>4. PICK v \in Deps(u) : v = f \/ v \in Cascade(f)
      BY <3>1, <3>3, CascadeHasCause
    <3>5. v \in Dead'
      BY <3>2, <3>4 DEF Dead, Cascade, Cascadable
    <3>6. Deps(u)' = Deps(u)
      BY <3>1 DEF Fail, graphVars, Deps
    <3> QED
      BY <3>4, <3>5, <3>6
  <2> QED
    BY <2>1, <2>2
<1> QED
  BY <1>1, <1>2, Invariance, PTL DEF Spec

-----------------------------------------------------------------------------
(* Aging.                                                                  *)

(* The boosts that cannot wrap a u8 added to a priority.                   *)
BoostsFit ==
    \A p \in FairnessPolicies : p.aging_boost_levels + Critical < U8

LEMMA AgingPromotes ==
    ASSUME TypeOK, BoostsFit, NEW t \in Task
    PROVE  /\ AgedMetadata[t].effective_priority >=
                  metadata[t].effective_priority
           /\ AgedMetadata[t].effective_priority \in Priority
           /\ metadata[t].effective_priority \in Priority
<1> DEFINE MD == [enqueued_at_ms : Nat, effective_priority : Priority]
<1>1. metadata[t] \in MD
  BY DEF TypeOK
<1>2. ASSUME NEW m \in MD
      PROVE  /\ ApplyAging(m) \in MD
             /\ ApplyAging(m).effective_priority >= m.effective_priority
  <2>1. fairness_policy \in
            [aging_threshold_ms : Nat, aging_boost_levels : 0..(U8 - 1)]
    BY PolicyAssumption DEF TypeOK
  <2>2. /\ fairness_policy.aging_boost_levels \in Nat
        /\ fairness_policy.aging_boost_levels + Critical < U8
    BY <2>1 DEF U8, BoostsFit, TypeOK
  <2>3. (m.effective_priority + fairness_policy.aging_boost_levels) % U8 =
            m.effective_priority + fairness_policy.aging_boost_levels
    BY <2>2 DEF Priority, U8, Critical
  <2> QED
    BY <2>2, <2>3 DEF ApplyAging, Priority, Critical
<1>3. ASSUME NEW m \in MD
      PROVE  /\ EnforceDeadline(m) \in MD
             /\ EnforceDeadline(m).effective_priority >= m.effective_priority
  BY DEF EnforceDeadline, Priority, Normal
<1>4. AgedMetadata[t] = IF ready[t] > 0
                        THEN EnforceDeadline(ApplyAging(metadata[t]))
                        ELSE metadata[t]
  BY DEF AgedMetadata
<1>5. /\ ApplyAging(metadata[t]) \in MD
      /\ ApplyAging(metadata[t]).effective_priority >=
             metadata[t].effective_priority
  BY <1>1, <1>2
<1>6. /\ EnforceDeadline(ApplyAging(metadata[t])) \in MD
      /\ EnforceDeadline(ApplyAging(metadata[t])).effective_priority >=
             ApplyAging(metadata[t]).effective_priority
  BY <1>3, <1>5
<1> QED
  BY <1>1, <1>4, <1>5, <1>6 DEF Priority

(* With boosts that fit, no aging, deadline, retry or policy change ever   *)
(* lowers a task below the priority it was submitted with.                 *)
THEOREM AgingOnlyPromotes ==
    ASSUME BoostsFit
    PROVE  Spec => []NeverDemoted
<1>1. Init => NeverDemoted
  BY DEF Init, NeverDemoted, Known
<1>2. IInv /\ NeverDemoted /\ [Next]_vars => NeverDemoted'
  <2> SUFFICES ASSUME IInv, NeverDemoted, [Next]_vars,
                      NEW u \in Task, states'[u] # "Absent"
               PROVE  metadata'[u].effective_priority \in
                          tasks'[u].priority..Critical
    BY DEF NeverDemoted, Known
  <2>0. /\ tasks[u] \in Descriptor /\ tasks[u].priority \in Priority
        /\ metadata[u].effective_priority \in Priority
        /\ states[u] # "Absent" => metadata[u].effective_priority \in
                                        tasks[u].priority..Critical
    BY DEF IInv, TypeOK, Descriptor, NeverDemoted, Known
  <2>1. ASSUME NEW d \in Submission, Enqueue(d)
        PROVE  metadata'[u].effective_priority \in
                   tasks'[u].priority..Critical
    <3>1. d \in Descriptor /\ d.task_id \in Task /\ d.priority \in Priority
      BY SubmissionAssumption DEF Descriptor
    <3>2. CASE u = d.task_id
      BY <2>1, <3>1, <3>2 DEF Enqueue, FreshMetadata, IInv, TypeOK, Priority,
                              Critical
    <3>3. CASE u # d.task_id
      BY <2>0, <2>1, <3>1, <3>3 DEF Enqueue, IInv, TypeOK
    <3> QED
      BY <3>2, <3>3
  <2>2. ASSUME NEW t \in Task, Complete(t)
        PROVE  metadata'[u].effective_priority \in
                   tasks'[u].priority..Critical
    BY <2>0, <2>2 DEF Complete, Completable, FreshMetadata, Unblocked,
                      Priority, Critical
  <2>3. ASSUME NEW t \in Task, Fail(t)
        PROVE  metadata'[u].effective_priority \in
                   tasks'[u].priority..Critical
    BY <2>0, <2>3 DEF Fail, Failable, Cascade, Cascadable, graphVars
  <2>4. /\ AgedMetadata[u].effective_priority >=
                metadata[u].effective_priority
        /\ AgedMetadata[u].effective_priority \in Priority
    BY AgingPromotes DEF IInv
  <2>5. ASSUME NEW t \in Task, Dequeue(t)
        PROVE  metadata'[u].effective_priority \in
                   tasks'[u].priority..Critical
    <3>1. states[u] # "Absent" /\ tasks' = tasks
      BY <2>5 DEF Dequeue, Runnable, graphVars, IInv, TypeOK
    <3>2. metadata' = [AgedMetadata EXCEPT ![t].effective_priority =
                                               tasks[t].priority]
      BY <2>5 DEF Dequeue
    <3>3. AgedMetadata \in [Task -> [enqueued_at_ms : Nat,
                                     effective_priority : Priority]]
      BY AgedMetadataType DEF IInv
    <3>4. CASE u = t
      BY <2>0, <3>1, <3>2, <3>3, <3>4 DEF Priority, Critical
    <3>5. CASE u # t
      BY <2>0, <2>4, <3>1, <3>2, <3>3, <3>5 DEF Priority, Critical
    <3> QED
      BY <3>4, <3>5
  <2>6. CASE DequeueNone
    BY <2>0, <2>4, <2>6 DEF DequeueNone, graphVars, Priority, Critical
  <2>7. ASSUME NEW t \in Task, NEW a \in Attempt,
               Requeue(t, a) \/ RequeueIgnored(t, a)
        PROVE  metadata'[u].effective_priority \in
                   tasks'[u].priority..Critical
    <3>1. tasks' = [tasks EXCEPT ![t].attempt = a]
      BY <2>7 DEF Requeue, RequeueIgnored
    <3>2. tasks'[u].priority = tasks[u].priority
      BY <2>0, <3>1 DEF IInv, TypeOK, Descriptor
    <3>3. CASE Requeue(t, a)
      BY <2>0, <3>2, <3>3 DEF Requeue, Requeueable, FreshMetadata, IInv,
                              TypeOK, Priority, Critical
    <3>4. CASE RequeueIgnored(t, a)
      BY <2>0, <3>2, <3>4 DEF RequeueIgnored
    <3> QED
      BY <2>7, <3>3, <3>4
  <2>8. CASE \/ \E p \in FairnessPolicies : SetFairnessPolicy(p)
             \/ \E p \in StarvationPolicies : SetStarvationPolicy(p)
             \/ Clock
             \/ UNCHANGED vars
    BY <2>0, <2>8 DEF SetFairnessPolicy, SetStarvationPolicy, Clock, vars,
                      graphVars
  <2> QED
    BY <2>1, <2>2, <2>3, <2>5, <2>6, <2>7, <2>8 DEF Next
<1> QED
  BY <1>1, <1>2, Invariance, PTL DEF Spec

-----------------------------------------------------------------------------
(* The resource pool.                                                      *)

(* The requests whose addition to a full pool cannot wrap a u32.           *)
RequestsFit ==
    \A d \in Submission, r \in WordSized : Capacity[r] + d.resources[r] < Word

Running == {t \in Task : states[t] = "Running"}

(* What running_resources says is held of r.                               *)
HeldLoad(r) == Total(Needs(r), running_resources)

GrantsFit ==
    \A t \in Known, r \in WordSized :
        Capacity[r] + tasks[t].resources[r] < Word

(* Every running task is in running_resources, and the pool holds at least *)
(* what that map says.  It may hold more: a task that is requeued and      *)
(* handed out again is counted twice and given back once.                  *)
PoolInv ==
    Pooled => /\ Running \subseteq running_resources
              /\ running_resources \subseteq Known
              /\ \A r \in Resource : /\ HeldLoad(r) <= used[r]
                                     /\ used[r] <= Capacity[r]

LEMMA PoolTypes ==
    ASSUME TypeOK, NEW r \in Resource
    PROVE  /\ \A t \in Task : tasks[t].resources \in [Resource -> Nat]
           /\ \A t \in Task : tasks[t].resources[r] \in Nat
           /\ Needs(r) \in [Task -> Nat]
           /\ \A t \in Task : Needs(r)[t] = tasks[t].resources[r]
           /\ used[r] \in Nat /\ Capacity[r] \in Nat
           /\ \A S \in SUBSET Task : IsFiniteSet(S)
<1>1. \A t \in Task : tasks[t].resources \in [Resource -> Nat]
  BY DEF TypeOK, Descriptor
<1>2. \A t \in Task : tasks[t].resources[r] \in Nat
  BY <1>1
<1>3. used[r] \in Nat /\ Capacity[r] \in Nat
  BY PoolAssumption DEF TypeOK
<1>4. \A S \in SUBSET Task : IsFiniteSet(S)
  BY TaskAssumption, FS_Subset
<1> QED
  BY <1>1, <1>2, <1>3, <1>4 DEF Needs

(* A step that keeps the pool, and the requests of the tasks in it.        *)
LEMMA PoolUntouched ==
    ASSUME TypeOK, PoolInv, UNCHANGED poolVars,
           \A t \in running_resources :
               /\ tasks'[t].resources = tasks[t].resources
               /\ states[t] # "Absent" => states'[t] # "Absent",
           \A t \in Task : states'[t] = "Running" => states[t] = "Running"
    PROVE  PoolInv'
<1> SUFFICES ASSUME Pooled PROVE PoolInv'
  BY DEF PoolInv
<1>1. used' = used /\ running_resources' = running_resources
  BY DEF poolVars
<1>2. running_resources \subseteq Task
  BY DEF TypeOK
<1>3. ASSUME NEW r \in Resource
      PROVE  HeldLoad(r)' = HeldLoad(r)
  <2>1. \A t \in running_resources : Needs(r)'[t] = Needs(r)[t]
    BY <1>2 DEF Needs
  <2>2. Total(Needs(r)', running_resources) = Total(Needs(r), running_resources)
    BY <2>1, TotalSame
  <2> QED
    BY <1>1, <2>2 DEF HeldLoad
<1>4. Running' \subseteq running_resources' /\ running_resources' \subseteq Known'
  BY <1>1, <1>2 DEF PoolInv, Running, Known
<1> QED
  BY <1>1, <1>3, <1>4 DEF PoolInv

(* release: the task gives back at most what the pool holds for it.        *)
LEMMA PoolRelease ==
    ASSUME TypeOK, PoolInv, NEW t \in Task, ReleaseRunning(t), tasks' = tasks,
           states[t] = "Running",
           \A u \in Task : /\ states[u] # "Absent" => states'[u] # "Absent"
                           /\ states'[u] = "Running" =>
                                  states[u] = "Running" /\ u # t
    PROVE  PoolInv'
<1> SUFFICES ASSUME Pooled PROVE PoolInv'
  BY DEF PoolInv
<1>1. t \in running_resources /\ running_resources \subseteq Task
  BY DEF PoolInv, Running, TypeOK
<1>2. /\ used' = Released(tasks[t].resources)
      /\ running_resources' = running_resources \ {t}
  BY <1>1 DEF ReleaseRunning
<1>3. Running' \subseteq running_resources' /\ running_resources' \subseteq Known'
  BY <1>2 DEF PoolInv, Running, Known
<1>4. ASSUME NEW r \in Resource
      PROVE  HeldLoad(r)' <= used'[r] /\ used'[r] <= Capacity[r]
  <2> DEFINE rest == running_resources \ {t}
  <2>1. /\ tasks[t].resources[r] \in Nat /\ used[r] \in Nat
        /\ Capacity[r] \in Nat /\ Needs(r)[t] = tasks[t].resources[r]
        /\ \A u \in Task : Needs(r)[u] \in Nat
    BY PoolTypes
  <2>2. IsFiniteSet(rest) /\ t \notin rest /\ rest \cup {t} = running_resources
    BY <1>1, PoolTypes
  <2>3. Total(Needs(r), rest) \in Nat
    BY <1>1, <2>1, <2>2, TotalType
  <2>4. Total(Needs(r), rest \cup {t}) =
            Total(Needs(r), rest) + Needs(r)[t]
    BY <1>1, <2>1, <2>2, TotalAdd
  <2>5. HeldLoad(r) = Total(Needs(r), rest) + tasks[t].resources[r]
    BY <2>1, <2>2, <2>4 DEF HeldLoad
  <2>6. HeldLoad(r)' = Total(Needs(r), rest)
    BY <1>2 DEF HeldLoad, Needs
  <2>7. HeldLoad(r) <= used[r] /\ used[r] <= Capacity[r]
    BY DEF PoolInv
  <2>8. used'[r] = used[r] - tasks[t].resources[r]
    BY <1>2, <2>1, <2>3, <2>5, <2>7 DEF Released
  <2> HIDE DEF rest
  <2> QED
    BY <2>1, <2>3, <2>5, <2>6, <2>7, <2>8
<1> QED
  BY <1>3, <1>4 DEF PoolInv

(* A request that fits is added without wrapping.                          *)
LEMMA GrantIsAdded ==
    ASSUME TypeOK, Pooled, PoolInv, GrantsFit, NEW t \in Task, Dequeue(t),
           NEW r \in Resource
    PROVE  used'[r] = used[r] + tasks[t].resources[r]
<1>1. used' = Allocated(tasks[t].resources) /\ t \in Known
  BY DEF Dequeue, Runnable, Known
<1>2. /\ tasks[t].resources[r] \in Nat /\ used[r] \in Nat
      /\ Capacity[r] \in Nat /\ used[r] <= Capacity[r]
  BY PoolTypes DEF PoolInv
<1>3. CASE r \in WordSized
  <2>1. Capacity[r] + tasks[t].resources[r] < Word
    BY <1>1, <1>3 DEF GrantsFit
  <2>2. Word \in Nat \ {0}
    BY PoolAssumption
  <2>3. used[r] + tasks[t].resources[r] \in 0..(Word - 1)
    BY <1>2, <2>1, <2>2
  <2> QED
    BY <1>1, <1>3, <2>2, <2>3 DEF Allocated, PoolSum
<1>4. CASE r \notin WordSized
  BY <1>1, <1>4 DEF Allocated, PoolSum
<1> QED
  BY <1>3, <1>4

(* allocate: what is added fits, without wrapping.                         *)
LEMMA PoolAllocate ==
    ASSUME TypeOK, PoolInv, GrantsFit, NEW t \in Task, Dequeue(t)
    PROVE  PoolInv'
<1> SUFFICES ASSUME Pooled PROVE PoolInv'
  BY DEF PoolInv
<1>1. /\ used' = Allocated(tasks[t].resources)
      /\ running_resources' = running_resources \cup {t}
      /\ tasks' = tasks /\ states' = [states EXCEPT ![t] = "Running"]
      /\ states[t] = "Ready" /\ CanFit(tasks[t].resources)
  BY DEF Dequeue, Runnable, graphVars
<1>2. running_resources \subseteq Task /\ t \in Known
  BY <1>1 DEF TypeOK, Known
<1>3. Running' \subseteq running_resources' /\ running_resources' \subseteq Known'
  BY <1>1, <1>2 DEF PoolInv, Running, Known, TypeOK
<1>4. ASSUME NEW r \in Resource
      PROVE  HeldLoad(r)' <= used'[r] /\ used'[r] <= Capacity[r]
  <2> DEFINE rest == running_resources \ {t}
  <2>1. /\ tasks[t].resources[r] \in Nat /\ used[r] \in Nat
        /\ Capacity[r] \in Nat /\ Needs(r)[t] = tasks[t].resources[r]
        /\ \A u \in Task : Needs(r)[u] \in Nat
    BY PoolTypes
  <2>2. /\ IsFiniteSet(rest) /\ t \notin rest /\ IsFiniteSet(running_resources)
        /\ rest \cup {t} = running_resources \cup {t}
    BY <1>2, PoolTypes
  <2>3. /\ Total(Needs(r), rest) <= HeldLoad(r)
        /\ Total(Needs(r), rest) \in Nat
    BY <1>2, <2>1, <2>2, TotalMonotone DEF HeldLoad
  <2>4. HeldLoad(r) \in Nat
    BY <1>2, <2>1, <2>2, TotalType DEF HeldLoad
  <2>5. Total(Needs(r), rest \cup {t}) =
            Total(Needs(r), rest) + Needs(r)[t]
    BY <1>2, <2>1, <2>2, TotalAdd
  <2>6. HeldLoad(r)' = Total(Needs(r), rest) + tasks[t].resources[r]
    BY <1>1, <2>1, <2>2, <2>5 DEF HeldLoad, Needs
  <2>7. HeldLoad(r) <= used[r] /\ used[r] <= Capacity[r]
    BY DEF PoolInv
  <2>8. used'[r] <= Capacity[r]
    BY <1>1 DEF Allocated, CanFit
  <2>9. used'[r] = used[r] + tasks[t].resources[r]
    BY GrantIsAdded
  <2> HIDE DEF rest
  <2> QED
    BY <2>1, <2>3, <2>4, <2>6, <2>7, <2>8, <2>9
<1> QED
  BY <1>3, <1>4 DEF PoolInv

(* Known tasks keep the request they were submitted with.                  *)
LEMMA RequestsKept ==
    ASSUME IInv, RequestsFit, GrantsFit, [Next]_vars
    PROVE  /\ GrantsFit'
           /\ \A t \in Known : /\ tasks'[t].resources = tasks[t].resources
                               /\ t \in Known'
<1>1. ASSUME NEW d \in Submission, Enqueue(d)
      PROVE  /\ GrantsFit'
             /\ \A t \in Known : tasks'[t] = tasks[t]
  <2>1. d.task_id \in Task /\ d.task_id \notin Known
    BY <1>1, SubmissionAssumption DEF Enqueue, Descriptor
  <2>2. /\ tasks' = [tasks EXCEPT ![d.task_id] = d]
        /\ \A t \in Known' : t \in Known \/ t = d.task_id
    BY <1>1, <2>1 DEF Enqueue, Known, IInv, TypeOK
  <2>3. /\ tasks'[d.task_id] = d
        /\ \A t \in Known : tasks'[t] = tasks[t]
    BY <2>1, <2>2 DEF Known, IInv, TypeOK
  <2> QED
    BY <2>2, <2>3 DEF GrantsFit, RequestsFit
<1>2. ASSUME NEW t \in Task, NEW a \in Attempt,
             Requeue(t, a) \/ RequeueIgnored(t, a)
      PROVE  \A u \in Task : tasks'[u].resources = tasks[u].resources
  <2>1. tasks' = [tasks EXCEPT ![t].attempt = a]
    BY <1>2 DEF Requeue, RequeueIgnored
  <2>2. \A u \in Task : tasks'[u] = IF u = t THEN [tasks[t] EXCEPT !.attempt = a]
                                            ELSE tasks[u]
    BY <2>1 DEF IInv, TypeOK
  <2>3. tasks[t] \in Descriptor
    BY DEF IInv, TypeOK
  <2>4. [tasks[t] EXCEPT !.attempt = a].resources = tasks[t].resources
    BY <2>3 DEF Descriptor
  <2> QED
    BY <2>2, <2>4
<1>3. ASSUME \/ \E t \in Task : Complete(t) \/ Fail(t) \/ Dequeue(t)
             \/ DequeueNone \/ Clock \/ UNCHANGED vars
             \/ \E p \in FairnessPolicies : SetFairnessPolicy(p)
             \/ \E p \in StarvationPolicies : SetStarvationPolicy(p)
      PROVE  tasks' = tasks
  BY <1>3 DEF Complete, Fail, Dequeue, DequeueNone, Clock, SetFairnessPolicy,
              SetStarvationPolicy, vars, graphVars
<1>4. \A t \in Known : t \in Known'
  BY StepEffects DEF Known
<1>5. CASE \E d \in Submission : Enqueue(d)
  BY <1>1, <1>4, <1>5
<1>6. CASE ~ \E d \in Submission : Enqueue(d)
  <2>1. \A t \in Task : tasks'[t].resources = tasks[t].resources
    BY <1>2, <1>3, <1>6 DEF Next
  <2>2. \A t \in Known' : t \in Known
    <3> SUFFICES ASSUME NEW t \in Task, states'[t] # "Absent",
                        states[t] = "Absent"
                 PROVE  FALSE
      BY DEF Known
    <3>1. ASSUME NEW u \in Task, Complete(u) PROVE FALSE
      BY <3>1 DEF Complete, Completable, Unblocked
    <3>2. ASSUME NEW u \in Task, Fail(u) PROVE FALSE
      BY <3>2 DEF Fail, Failable, Cascade, Cascadable
    <3>3. ASSUME NEW u \in Task, Dequeue(u) PROVE FALSE
      BY <3>3 DEF Dequeue, Runnable, IInv, TypeOK
    <3>4. ASSUME NEW u \in Task, NEW a \in Attempt, Requeue(u, a) PROVE FALSE
      BY <3>4 DEF Requeue, Requeueable, IInv, TypeOK
    <3>5. CASE states' = states
      BY <3>5
    <3> QED
      BY <1>6, <3>1, <3>2, <3>3, <3>4, <3>5
      DEF Next, RequeueIgnored, DequeueNone, Clock, SetFairnessPolicy,
          SetStarvationPolicy, vars
  <2> QED
    BY <1>4, <2>1, <2>2 DEF GrantsFit, Known
<1> QED
  BY <1>5, <1>6

(* Nothing is held at the start.                                           *)
LEMMA InitPool == Init => GrantsFit /\ PoolInv
<1> SUFFICES ASSUME Init PROVE GrantsFit /\ PoolInv
  OBVIOUS
<1>1. Known = {} /\ Running = {} /\ running_resources = {}
  BY DEF Init, Known, Running
<1>2. \A r \in Resource : HeldLoad(r) = 0
  BY <1>1, TotalEmpty DEF HeldLoad
<1>3. \A r \in Resource : used[r] = 0 /\ Capacity[r] \in Nat
  BY PoolAssumption DEF Init
<1> QED
  BY <1>1, <1>2, <1>3 DEF GrantsFit, PoolInv

(* With requests that fit, every step keeps the pool within its bounds.    *)
LEMMA NextPool ==
    ASSUME RequestsFit
    PROVE  IInv /\ GrantsFit /\ PoolInv /\ [Next]_vars => GrantsFit' /\ PoolInv'
<1> SUFFICES ASSUME IInv, GrantsFit, PoolInv, [Next]_vars
             PROVE  GrantsFit' /\ PoolInv'
  OBVIOUS
<1>0. TypeOK
  BY DEF IInv
<1>1. GrantsFit' /\ \A t \in Known :
                       /\ tasks'[t].resources = tasks[t].resources
                       /\ t \in Known'
  BY RequestsKept
<1>2. ASSUME NEW t \in Task, Complete(t) PROVE PoolInv'
  <2>1. /\ ReleaseRunning(t) /\ tasks' = tasks /\ states[t] = "Running"
        /\ \A u \in Task : states'[u] = "Running" =>
                               states[u] = "Running" /\ u # t
    BY <1>2 DEF Complete, Completable
  <2>2. \A u \in Task : states[u] # "Absent" => states'[u] # "Absent"
    BY <1>1 DEF Known
  <2> QED
    BY <1>0, <2>1, <2>2, PoolRelease
<1>3. ASSUME NEW t \in Task, Fail(t), states[t] = "Running" PROVE PoolInv'
  <2>1. /\ ReleaseRunning(t) /\ tasks' = tasks
        /\ \A u \in Task : states'[u] = "Running" =>
                               states[u] = "Running" /\ u # t
    BY <1>3 DEF Fail, graphVars
  <2>2. \A u \in Task : states[u] # "Absent" => states'[u] # "Absent"
    BY <1>1 DEF Known
  <2> QED
    BY <1>0, <1>3, <2>1, <2>2, PoolRelease
<1>4. ASSUME NEW t \in Task, Dequeue(t) PROVE PoolInv'
  BY <1>0, <1>4, PoolAllocate
<1>5. ASSUME UNCHANGED poolVars,
             \A t \in Task : states'[t] = "Running" => states[t] = "Running"
      PROVE  PoolInv'
  <2>1. CASE ~Pooled
    BY <2>1 DEF PoolInv
  <2>2. CASE Pooled
    <3>1. \A t \in running_resources : t \in Known
      BY <2>2 DEF PoolInv
    <3>2. \A t \in running_resources :
              /\ tasks'[t].resources = tasks[t].resources
              /\ states[t] # "Absent" => states'[t] # "Absent"
      BY <1>1, <3>1 DEF Known
    <3> QED
      BY <1>0, <1>5, <3>2, PoolUntouched
  <2> QED
    BY <2>1, <2>2
<1>6. ASSUME NEW d \in Submission, Enqueue(d) PROVE PoolInv'
  <2>1. /\ UNCHANGED poolVars
        /\ \A t \in Task : states'[t] = "Running" => states[t] = "Running"
    BY <1>6, SubmissionAssumption DEF Enqueue, IInv, TypeOK
  <2> QED
    BY <1>5, <2>1
<1>7. ASSUME NEW t \in Task, Fail(t), states[t] # "Running" PROVE PoolInv'
  BY <1>5, <1>7 DEF Fail
<1>8. ASSUME NEW t \in Task, NEW a \in Attempt,
             Requeue(t, a) \/ RequeueIgnored(t, a)
      PROVE  PoolInv'
  BY <1>5, <1>8 DEF Requeue, RequeueIgnored, IInv, TypeOK
<1>9. CASE \/ DequeueNone \/ Clock \/ UNCHANGED vars
           \/ \E p \in FairnessPolicies : SetFairnessPolicy(p)
           \/ \E p \in StarvationPolicies : SetStarvationPolicy(p)
  <2>1. UNCHANGED poolVars /\ states' = states
    BY <1>9 DEF DequeueNone, Clock, SetFairnessPolicy, SetStarvationPolicy,
                vars, poolVars
  <2>2. \A t \in Task : states'[t] = "Running" => states[t] = "Running"
    BY <2>1
  <2> QED
    BY <1>1, <1>5, <2>1, <2>2
<1> QED
  BY <1>1, <1>2, <1>3, <1>4, <1>6, <1>7, <1>8, <1>9 DEF Next

(* With requests that fit, the pool never holds more than it has, nor less *)
(* than the running tasks were granted: dequeue does not overcommit.       *)
THEOREM PoolNeverOvercommitted ==
    ASSUME RequestsFit
    PROVE  Spec => []NoOvercommit
<1>1. IInv /\ PoolInv => NoOvercommit
  <2> SUFFICES ASSUME IInv, PoolInv, Pooled, NEW r \in Resource
               PROVE  RunningLoad(r) <= used[r] /\ used[r] <= Capacity[r]
    BY DEF NoOvercommit
  <2>1. TypeOK /\ running_resources \subseteq Task
    BY DEF IInv, TypeOK
  <2>2. Running \in SUBSET running_resources
    BY DEF PoolInv
  <2>3. /\ IsFiniteSet(running_resources) /\ used[r] \in Nat
        /\ \A t \in running_resources : Needs(r)[t] \in Nat
    BY <2>1, PoolTypes
  <2>4. HeldLoad(r) \in Nat
    BY <2>3, TotalType DEF HeldLoad
  <2>5. /\ Total(Needs(r), Running) <= HeldLoad(r)
        /\ Total(Needs(r), Running) \in Nat
    BY <2>2, <2>3, TotalMonotone DEF HeldLoad
  <2>6. RunningLoad(r) = Total(Needs(r), Running)
    BY DEF RunningLoad, Running
  <2>7. HeldLoad(r) <= used[r] /\ used[r] <= Capacity[r]
    BY DEF PoolInv
  <2> QED
    BY <2>3, <2>4, <2>5, <2>6, <2>7
<1> QED
  BY <1>1, InitPool, NextPool, Invariance, PTL DEF Spec

-----------------------------------------------------------------------------
(* The counters of a graph that is loaded before it runs.                  *)

(* No submission lists a dependency twice: the length of a list is then    *)
(* the number of the tasks on it.                                          *)
DistinctDeps ==
    \A d \in Submission : \A i, j \in DOMAIN d.dependencies :
        d.dependencies[i] = d.dependencies[j] => i = j

(* A driver's step is a step of the scheduler.                             *)
LEMMA BatchIsNext == [BatchNext]_vars => [Next]_vars
BY DEF BatchNext, Poll, Finish, Discard, Retry, Next

LEMMA BatchInvariance == BatchSpec => []IInv
BY InitIInv, NextIInv, BatchIsNext, PTL DEF BatchSpec

LEMMA CountsAreIncomplete ==
    InDegreeCountsIncomplete <=>
        \A t \in Task : states[t] # "Absent" =>
            in_degree[t] = Cardinality(Incomplete(t))
BY DEF InDegreeCountsIncomplete, Known, Incomplete

(* While the graph is loaded nothing is complete: the new task misses all  *)
(* of its dependencies.                                                    *)
LEMMA EnqueueCounts ==
    ASSUME IInv, DistinctDeps, Loading, NEW d \in Submission, Enqueue(d),
           InDegreeCountsIncomplete
    PROVE  \A u \in Task : states'[u] # "Absent" =>
               in_degree'[u] = Cardinality(Incomplete(u)')
<1> DEFINE t == d.task_id
           deps == Range(d.dependencies)
<1>1. /\ d \in Descriptor /\ t \in Task /\ states[t] = "Absent"
      /\ d.dependencies \in Seq(Task) /\ Len(d.dependencies) \in Nat
  BY SubmissionAssumption DEF Enqueue, Known, Descriptor
<1>2. /\ \A u \in Task : u # t => Deps(u)' = Deps(u)
      /\ Deps(t)' = deps
  BY <1>1 DEF IInv, TypeOK, Enqueue, Deps
<1>3. /\ \A u \in Task : u # t => states'[u] = states[u]
      /\ states'[t] \in {"Ready", "Pending"}
      /\ \A u \in Task : in_degree'[u] = IF u = t THEN Len(d.dependencies)
                                                  ELSE in_degree[u]
  BY <1>1 DEF IInv, TypeOK, Enqueue
<1>4. \A u \in Task : states'[u] # "Completed"
  BY <1>3 DEF Loading
<1>5. deps \subseteq Task /\ IsFiniteSet(deps)
  BY <1>1, RangeOfSeq
<1>6. Incomplete(t)' = deps
  BY <1>2, <1>4, <1>5 DEF Incomplete
<1>7. Cardinality(deps) = Len(d.dependencies)
  <2>1. DOMAIN d.dependencies = 1..Len(d.dependencies)
    BY <1>1
  <2>2. d.dependencies \in [1..Len(d.dependencies) -> deps]
    BY <1>1, <2>1 DEF Range
  <2>3. d.dependencies \in Injection(1..Len(d.dependencies), deps)
    BY <2>1, <2>2 DEF Injection, IsInjective, DistinctDeps
  <2>4. d.dependencies \in Surjection(1..Len(d.dependencies), deps)
    BY <2>1, <2>2 DEF Surjection, Range
  <2>5. /\ IsFiniteSet(1..Len(d.dependencies))
        /\ Cardinality(1..Len(d.dependencies)) = Len(d.dependencies)
    BY <1>1, FS_Interval, SMTT(30)
  <2> QED
    BY <2>3, <2>4, <2>5, FS_Surjection
<1>8. in_degree'[t] = Cardinality(Incomplete(t)')
  BY <1>1, <1>3, <1>6, <1>7
<1>9. ASSUME NEW u \in Task, u # t, states'[u] # "Absent"
      PROVE  in_degree'[u] = Cardinality(Incomplete(u)')
  <2>1. states[u] # "Absent"
    BY <1>3, <1>9
  <2>2. t \notin Deps(u)
    BY <1>1, <2>1 DEF IInv, DepsKnown
  <2>3. Deps(u) \subseteq Task
    BY IncompleteFinite DEF IInv
  <2>4. Incomplete(u)' = Incomplete(u)
    BY <1>2, <1>3, <1>9, <2>2, <2>3 DEF Incomplete
  <2>5. in_degree[u] = Cardinality(Incomplete(u))
    BY <2>1, CountsAreIncomplete
  <2> QED
    BY <1>3, <1>9, <2>4, <2>5
<1> QED
  BY <1>8, <1>9

(* complete takes t off the missing dependencies of its successors, and    *)
(* off nobody else's.                                                      *)
LEMMA CompleteCounts ==
    ASSUME IInv, NEW t \in Task, Complete(t), InDegreeCountsIncomplete
    PROVE  \A u \in Task : states'[u] # "Absent" =>
               in_degree'[u] = Cardinality(Incomplete(u)')
<1>1. states[t] = "Running"
  BY DEF Complete, Completable
<1>2. \A u \in Task : Deps(u)' = Deps(u) /\ Deps(u) \subseteq Task
  BY IncompleteFinite DEF Complete, Deps, IInv
<1>3. \A u \in Task :
          states'[u] = IF u = t THEN "Completed"
                       ELSE IF u \in Unblocked(t) THEN "Ready"
                       ELSE states[u]
  BY DEF Complete
<1>4. \A u \in Task : in_degree'[u] = IF u \in successors[t]
                                      THEN in_degree[u] - 1 ELSE in_degree[u]
  BY DEF Complete
<1>5. \A u \in Task : Incomplete(u)' = Incomplete(u) \ {t}
  BY <1>1, <1>2, <1>3 DEF Incomplete, Unblocked
<1> SUFFICES ASSUME NEW u \in Task, states'[u] # "Absent"
             PROVE  in_degree'[u] = Cardinality(Incomplete(u)')
  OBVIOUS
<1>6. states[u] # "Absent"
  BY <1>1, <1>3 DEF Unblocked
<1>7. t \in Incomplete(u) <=> u \in successors[t]
  BY <1>1, <1>6 DEF IInv, EdgesMatch, Incomplete
<1>8. in_degree[u] = Cardinality(Incomplete(u)) /\ IsFiniteSet(Incomplete(u))
  BY <1>6, CountsAreIncomplete, IncompleteFinite DEF IInv
<1>9. Cardinality(Incomplete(u) \ {t}) =
          IF t \in Incomplete(u) THEN Cardinality(Incomplete(u)) - 1
                                 ELSE Cardinality(Incomplete(u))
  BY <1>8, FS_RemoveElement
<1> QED
  BY <1>4, <1>5, <1>7, <1>8, <1>9

(* The other operations complete nothing and count nothing.                *)
LEMMA OthersCount ==
    ASSUME IInv, InDegreeCountsIncomplete,
           \/ \E t \in Task : Fail(t) \/ Dequeue(t)
           \/ \E t \in Task, a \in Attempt : Requeue(t, a)
           \/ DequeueNone
           \/ UNCHANGED vars
    PROVE  \A u \in Task : states'[u] # "Absent" =>
               in_degree'[u] = Cardinality(Incomplete(u)')
<1>1. in_degree' = in_degree
  BY DEF Fail, Dequeue, Requeue, DequeueNone, vars, graphVars
<1>2. /\ \A t \in Task : states'[t] = "Completed" <=> states[t] = "Completed"
      /\ \A t \in Task : states'[t] = "Absent" <=> states[t] = "Absent"
  <2>1. ASSUME NEW f \in Task, Fail(f)
        PROVE  \A t \in Task : states'[t] = states[t] \/
                   {states[t], states'[t]} \cap {"Completed", "Absent"} = {}
    BY <2>1 DEF Fail, Failable, Cascade, Cascadable
  <2>2. ASSUME NEW f \in Task, Dequeue(f)
        PROVE  \A t \in Task : states'[t] = states[t] \/
                   {states[t], states'[t]} \cap {"Completed", "Absent"} = {}
    BY <2>2 DEF Dequeue, Runnable, IInv, TypeOK
  <2>3. ASSUME NEW f \in Task, NEW a \in Attempt, Requeue(f, a)
        PROVE  \A t \in Task : states'[t] = states[t] \/
                   {states[t], states'[t]} \cap {"Completed", "Absent"} = {}
    BY <2>3 DEF Requeue, Requeueable, IInv, TypeOK
  <2>4. CASE DequeueNone \/ UNCHANGED vars
    BY <2>4 DEF DequeueNone, vars
  <2> QED
    BY <2>1, <2>2, <2>3, <2>4
<1>3. \A t \in Task : Deps(t)' = Deps(t) /\ Deps(t) \subseteq Task
  <2>1. \A t \in Task : tasks'[t].dependencies = tasks[t].dependencies
    <3>1. ASSUME NEW f \in Task, NEW a \in Attempt, Requeue(f, a)
          PROVE  \A t \in Task : tasks'[t].dependencies = tasks[t].dependencies
      <4>1. \A t \in Task : tasks[t] \in Descriptor
        BY DEF IInv, TypeOK
      <4>2. [tasks[f] EXCEPT !.attempt = a].dependencies = tasks[f].dependencies
        BY <4>1 DEF Descriptor
      <4>3. \A t \in Task :
                tasks'[t] = IF t = f THEN [tasks[f] EXCEPT !.attempt = a]
                                     ELSE tasks[t]
        BY <3>1 DEF Requeue, IInv, TypeOK
      <4> QED
        BY <4>2, <4>3
    <3>2. CASE \/ \E t \in Task : Fail(t) \/ Dequeue(t)
               \/ DequeueNone \/ UNCHANGED vars
      BY <3>2 DEF Fail, Dequeue, DequeueNone, vars, graphVars
    <3> QED
      BY <3>1, <3>2
  <2> QED
    BY <2>1, IncompleteFinite DEF Deps, IInv
<1>4. \A t \in Task : Incomplete(t)' = Incomplete(t)
  BY <1>2, <1>3 DEF Incomplete
<1> QED
  BY <1>1, <1>2, <1>4, CountsAreIncomplete

(* In a graph without duplicate edges that is loaded before it runs, every *)
(* counter is exactly the number of dependencies still missing.            *)
THEOREM CountersExact ==
    ASSUME DistinctDeps
    PROVE  BatchSpec => []InDegreeCountsIncomplete
<1>1. Init => InDegreeCountsIncomplete
  BY DEF Init, InDegreeCountsIncomplete, Known
<1>2. IInv /\ InDegreeCountsIncomplete /\ [BatchNext]_vars =>
          InDegreeCountsIncomplete'
  <2> SUFFICES ASSUME IInv, InDegreeCountsIncomplete, [BatchNext]_vars
               PROVE  \A u \in Task : states'[u] # "Absent" =>
                          in_degree'[u] = Cardinality(Incomplete(u)')
    BY DEF InDegreeCountsIncomplete, Known, Incomplete
  <2>1. CASE Loading /\ \E d \in Submission : Enqueue(d)
    BY <2>1, EnqueueCounts
  <2>2. CASE \E t \in Task : Complete(t)
    BY <2>2, CompleteCounts
  <2>3. CASE \/ \E t \in Task : Fail(t) \/ Dequeue(t)
             \/ \E t \in Task, a \in Attempt : Requeue(t, a)
             \/ DequeueNone
             \/ UNCHANGED vars
    BY <2>3, OthersCount
  <2> QED
    BY <2>1, <2>2, <2>3 DEF BatchNext, Poll, Finish, Discard, Retry
<1> QED
  BY <1>1, <1>2, BatchInvariance, PTL DEF BatchSpec

-----------------------------------------------------------------------------
(* The pool of a batch, to the unit.                                       *)

(* Tasks are submitted with attempt 0, and unknown ones have none.         *)
FirstAttempts == \A d \in Submission : d.attempt = 0
NoAttempts == \A t \in Task : states[t] = "Absent" => tasks[t].attempt = 0

LEMMA AccountTypes ==
    ASSUME TypeOK, NEW r \in Resource
    PROVE  /\ \A t \in Task : /\ Needs(r)[t] = tasks[t].resources[r]
                              /\ Leaks(r)[t] = tasks[t].attempt * Needs(r)[t]
                              /\ Needs(r)[t] \in Nat /\ Leaks(r)[t] \in Nat
           /\ IsFiniteSet(Task) /\ IsFiniteSet(Running) /\ Running \subseteq Task
           /\ RunningLoad(r) = Total(Needs(r), Running)
           /\ RunningLoad(r) \in Nat /\ Leaked(r) \in Nat /\ used[r] \in Nat
<1>1. \A t \in Task : /\ Needs(r)[t] = tasks[t].resources[r]
                      /\ Needs(r)[t] \in Nat
  BY PoolTypes
<1>2. \A t \in Task : Leaks(r)[t] = tasks[t].attempt * Needs(r)[t]
  BY <1>1 DEF Leaks
<1>3. \A t \in Task : Leaks(r)[t] \in Nat
  <2>1. \A t \in Task : tasks[t].attempt \in Nat
    BY DEF TypeOK, Descriptor
  <2> QED
    BY <1>1, <1>2, <2>1
<1>4. IsFiniteSet(Task) /\ IsFiniteSet(Running) /\ Running \subseteq Task
  BY TaskAssumption, FS_Subset DEF Running
<1>5. RunningLoad(r) = Total(Needs(r), Running)
  BY DEF RunningLoad, Running
<1>6. RunningLoad(r) \in Nat /\ Leaked(r) \in Nat /\ used[r] \in Nat
  BY <1>1, <1>3, <1>4, <1>5, TotalType, PoolTypes DEF Leaked
<1> QED
  BY <1>1, <1>2, <1>3, <1>4, <1>5, <1>6

(* Steps after which the same tasks run, and nothing new is asked for.     *)
LEMMA AccountsUntouched ==
    ASSUME TypeOK, PoolAccounts, used' = used, Running' = Running,
           \A t \in Running : tasks'[t].resources = tasks[t].resources,
           \A t \in Task : \/ tasks'[t] = tasks[t]
                           \/ tasks[t].attempt = 0 /\ tasks'[t].attempt = 0,
           TypeOK'
    PROVE  PoolAccounts'
<1> SUFFICES ASSUME Pooled, NEW r \in Resource
             PROVE  used'[r] = RunningLoad(r)' + Leaked(r)'
  BY DEF PoolAccounts
<1>1. Total(Needs(r)', Running) = Total(Needs(r), Running)
  <2>1. \A t \in Running : Needs(r)'[t] = Needs(r)[t]
    BY DEF Needs, Running
  <2> QED
    BY <2>1, TotalSame
<1>2. Total(Leaks(r)', Task) = Total(Leaks(r), Task)
  <2>1. ASSUME NEW t \in Task PROVE Leaks(r)'[t] = Leaks(r)[t]
    <3>1. CASE tasks'[t] = tasks[t]
      BY <3>1 DEF Leaks
    <3>2. CASE tasks[t].attempt = 0 /\ tasks'[t].attempt = 0
      <4>1. tasks[t].resources[r] \in Nat /\ tasks'[t].resources[r] \in Nat
        BY DEF TypeOK, Descriptor
      <4>2. Leaks(r)[t] = 0 /\ Leaks(r)'[t] = 0
        BY <3>2, <4>1 DEF Leaks
      <4> QED
        BY <4>2
    <3> QED
      BY <3>1, <3>2
  <2> QED
    BY <2>1, TotalSame
<1> QED
  BY <1>1, <1>2 DEF PoolAccounts, RunningLoad, Running, Leaked

(* complete and fail of a running task give back one grant.                *)
LEMMA AccountsRelease ==
    ASSUME TypeOK, PoolInv, PoolAccounts, NEW t \in Task, ReleaseRunning(t),
           tasks' = tasks, states[t] = "Running", Running' = Running \ {t}
    PROVE  PoolAccounts'
<1> SUFFICES ASSUME Pooled, NEW r \in Resource
             PROVE  used'[r] = RunningLoad(r)' + Leaked(r)'
  BY DEF PoolAccounts
<1> DEFINE rest == Running \ {t}
<1>1. used' = Released(tasks[t].resources)
  BY DEF PoolInv, Running, ReleaseRunning
<1>2. IsFiniteSet(rest) /\ t \notin rest /\ rest \cup {t} = Running
  BY AccountTypes, FS_Subset DEF Running
<1>3. RunningLoad(r) = Total(Needs(r), rest) + Needs(r)[t]
  <2>1. \A u \in rest \cup {t} : Needs(r)[u] \in Nat
    BY <1>2, AccountTypes
  <2>2. Total(Needs(r), rest \cup {t}) = Total(Needs(r), rest) + Needs(r)[t]
    BY <1>2, <2>1, TotalAdd
  <2>3. RunningLoad(r) = Total(Needs(r), Running)
    BY AccountTypes
  <2> QED
    BY <1>2, <2>2, <2>3, Zenon
<1>4. RunningLoad(r)' = Total(Needs(r), rest) /\ Leaked(r)' = Leaked(r)
  BY DEF RunningLoad, Running, Needs, Leaked, Leaks
<1>5. /\ Total(Needs(r), rest) \in Nat /\ Leaked(r) \in Nat
      /\ Needs(r)[t] \in Nat /\ used[r] \in Nat
  BY <1>2, AccountTypes, TotalType
<1>6. used[r] = RunningLoad(r) + Leaked(r)
  BY DEF PoolAccounts
<1>7. used'[r] = IF used[r] >= Needs(r)[t] THEN used[r] - Needs(r)[t] ELSE 0
  BY <1>1, AccountTypes DEF Released
<1> HIDE DEF rest
<1> QED
  BY <1>3, <1>4, <1>5, <1>6, <1>7

(* dequeue grants the task its request.                                    *)
LEMMA AccountsAllocate ==
    ASSUME TypeOK, GrantsFit, PoolInv, PoolAccounts, NEW t \in Task, Dequeue(t)
    PROVE  PoolAccounts'
<1> SUFFICES ASSUME Pooled, NEW r \in Resource
             PROVE  used'[r] = RunningLoad(r)' + Leaked(r)'
  BY DEF PoolAccounts
<1>1. tasks' = tasks /\ states' = [states EXCEPT ![t] = "Running"] /\ states[t] = "Ready"
  BY DEF Dequeue, Runnable, graphVars
<1>2. Running' = Running \cup {t} /\ t \notin Running
  BY <1>1 DEF Running, TypeOK
<1>3. Total(Needs(r), Running \cup {t}) = RunningLoad(r) + Needs(r)[t]
  <2>1. \A u \in Running \cup {t} : Needs(r)[u] \in Nat
    BY AccountTypes
  <2>2. Total(Needs(r), Running \cup {t}) = Total(Needs(r), Running) + Needs(r)[t]
    <3>1. IsFiniteSet(Running)
      BY AccountTypes
    <3> QED
      BY <1>2, <2>1, <3>1, TotalAdd
  <2>3. RunningLoad(r) = Total(Needs(r), Running)
    BY AccountTypes
  <2> QED
    BY <2>2, <2>3, Zenon
<1>4. RunningLoad(r)' = RunningLoad(r) + Needs(r)[t] /\ Leaked(r)' = Leaked(r)
  BY <1>1, <1>2, <1>3 DEF RunningLoad, Running, Needs, Leaked, Leaks
<1>5. used'[r] = used[r] + Needs(r)[t]
  BY GrantIsAdded, AccountTypes
<1>6. used[r] = RunningLoad(r) + Leaked(r)
  BY DEF PoolAccounts
<1>7. /\ RunningLoad(r) \in Nat /\ Leaked(r) \in Nat
      /\ Needs(r)[t] \in Nat
  BY AccountTypes
<1> QED
  BY <1>4, <1>5, <1>6, <1>7

(* requeue takes the task out of Running and gives nothing back.           *)
LEMMA AccountsRetry ==
    ASSUME TypeOK, TypeOK', PoolAccounts, NEW t \in Task, NEW a \in Attempt,
           Retry(t, a)
    PROVE  PoolAccounts'
<1> SUFFICES ASSUME Pooled, NEW r \in Resource
             PROVE  used'[r] = RunningLoad(r)' + Leaked(r)'
  BY DEF PoolAccounts
<1> DEFINE rest == Running \ {t}
<1>1. /\ a = tasks[t].attempt + 1 /\ tasks' = [tasks EXCEPT ![t].attempt = a]
      /\ states[t] = "Running" /\ states' = [states EXCEPT ![t] = "Ready"]
      /\ used' = used
  BY DEF Retry, Requeue, Requeueable, poolVars
<1>2. \A u \in Task : tasks'[u].resources = tasks[u].resources
  <2>1. \A u \in Task : tasks'[u] = IF u = t THEN [tasks[t] EXCEPT !.attempt = a]
                                            ELSE tasks[u]
    BY <1>1 DEF TypeOK
  <2>2. [tasks[t] EXCEPT !.attempt = a].resources = tasks[t].resources
    BY DEF TypeOK, Descriptor
  <2> QED
    BY <2>1, <2>2
<1>3. tasks'[t].attempt = tasks[t].attempt + 1 /\ \A u \in Task \ {t} : tasks'[u] = tasks[u]
  <2>1. tasks[t] \in Descriptor /\ tasks \in [Task -> Descriptor]
    BY DEF TypeOK
  <2>2. tasks'[t] = [tasks[t] EXCEPT !.attempt = a]
    BY <1>1, <2>1
  <2>3. tasks'[t].attempt = a
    BY <2>1, <2>2 DEF Descriptor
  <2> QED
    BY <1>1, <2>1, <2>3
<1>4. Running' = rest
  BY <1>1 DEF Running, TypeOK
<1>5. IsFiniteSet(rest) /\ t \notin rest /\ rest \cup {t} = Running
  BY <1>1, AccountTypes, FS_Subset DEF Running
<1>6. RunningLoad(r) = Total(Needs(r), rest) + Needs(r)[t]
  <2>1. \A u \in rest \cup {t} : Needs(r)[u] \in Nat
    BY <1>5, AccountTypes
  <2>2. Total(Needs(r), rest \cup {t}) = Total(Needs(r), rest) + Needs(r)[t]
    BY <1>5, <2>1, TotalAdd
  <2>3. RunningLoad(r) = Total(Needs(r), Running)
    BY AccountTypes
  <2> QED
    BY <1>5, <2>2, <2>3, Zenon
<1>7. Needs(r)' = Needs(r)
  BY <1>2 DEF Needs
<1>8. RunningLoad(r)' = Total(Needs(r), rest)
  BY <1>4, <1>7 DEF RunningLoad, Running
<1>9. Leaked(r)' = Leaked(r) + Needs(r)[t]
  <2>1. \A u \in Task : /\ Leaks(r)[u] = tasks[u].attempt * Needs(r)[u]
                        /\ Leaks(r)[u] \in Nat /\ Needs(r)[u] \in Nat
    BY AccountTypes
  <2>2. \A u \in Task : Leaks(r)'[u] = tasks'[u].attempt * Needs(r)[u]
    BY <1>2 DEF Leaks, Needs
  <2>3. Leaks(r)'[t] = Leaks(r)[t] + Needs(r)[t]
    <3>1. tasks[t].attempt \in Nat
      BY DEF TypeOK, Descriptor
    <3>2. (tasks[t].attempt + 1) * Needs(r)[t] =
              tasks[t].attempt * Needs(r)[t] + Needs(r)[t]
      BY <2>1, <3>1
    <3> QED
      BY <1>3, <2>1, <2>2, <3>2
  <2>4. \A u \in Task \ {t} : Leaks(r)[u] = Leaks(r)'[u]
    BY <1>3, <2>1, <2>2
  <2>5. \A u \in Task : Leaks(r)'[u] \in Nat
    BY <2>1, <2>3, <2>4
  <2>6. Total(Leaks(r)', Task) + Leaks(r)[t] = Total(Leaks(r), Task) + Leaks(r)'[t]
    BY <2>1, <2>4, <2>5, AccountTypes, TotalChange
  <2>7. /\ Total(Leaks(r)', Task) \in Nat /\ Total(Leaks(r), Task) \in Nat
        /\ Leaks(r)[t] \in Nat /\ Needs(r)[t] \in Nat
    BY <2>1, <2>5, AccountTypes, TotalType
  <2> QED
    BY <2>3, <2>6, <2>7 DEF Leaked
<1>10. used[r] = RunningLoad(r) + Leaked(r)
  BY DEF PoolAccounts
<1>11. /\ Total(Needs(r), rest) \in Nat /\ Leaked(r) \in Nat
       /\ Needs(r)[t] \in Nat
  BY <1>5, AccountTypes, TotalType
<1> HIDE DEF rest
<1> QED
  BY <1>1, <1>6, <1>8, <1>9, <1>10, <1>11

(* With requests that fit, and first attempts submitted, the pool of a     *)
(* loaded graph holds what its running tasks were granted and what retries *)
(* leaked: every other operation balances, and a retry leaks one grant.    *)
THEOREM LeaksAreExact ==
    ASSUME RequestsFit, FirstAttempts
    PROVE  BatchSpec => []PoolAccounts
<1> DEFINE Accounts == GrantsFit /\ PoolInv /\ NoAttempts /\ PoolAccounts
<1>1. Init => Accounts
  <2> SUFFICES ASSUME Init PROVE NoAttempts /\ PoolAccounts
    BY InitPool
  <2>1. NoAttempts /\ TypeOK
    BY InitIInv DEF Init, NoAttempts, Blank, IInv
  <2>2. ASSUME NEW r \in Resource PROVE used[r] = RunningLoad(r) + Leaked(r)
    <3>1. Running = {} /\ used[r] = 0
      BY DEF Init, Running
    <3>2. RunningLoad(r) = 0
      BY <3>1, TotalEmpty DEF RunningLoad, Running
    <3>3. \A t \in Task : Leaks(r)[t] = 0
      BY DEF Init, Blank, Leaks
    <3>4. Leaked(r) = 0
      BY <3>3, TotalOfZeros DEF Leaked
    <3> QED
      BY <3>1, <3>2, <3>4
  <2> QED
    BY <2>1, <2>2 DEF PoolAccounts
<1>2. IInv /\ Accounts /\ [BatchNext]_vars => Accounts'
  <2> SUFFICES ASSUME IInv, GrantsFit, PoolInv, NoAttempts, PoolAccounts,
                      [BatchNext]_vars
               PROVE  NoAttempts' /\ PoolAccounts'
    BY BatchIsNext, NextPool
  <2>0. TypeOK /\ TypeOK'
    BY NextIInv, BatchIsNext DEF IInv
  <2>1. \A t \in Task : states[t] # "Absent" => states'[t] # "Absent"
    BY BatchIsNext, RequestsKept DEF Known
  <2>2. CASE \E d \in Submission : Enqueue(d)
    <3>1. PICK d \in Submission : Enqueue(d)
      BY <2>2
    <3>2. PICK t \in Task : t = d.task_id
      BY SubmissionAssumption DEF Descriptor
    <3>3. /\ states[t] = "Absent" /\ tasks' = [tasks EXCEPT ![t] = d]
          /\ used' = used
          /\ \E s \in {"Ready", "Pending"} : states' = [states EXCEPT ![t] = s]
      BY <3>1, <3>2 DEF Enqueue, Known, poolVars
    <3>4. tasks'[t] = d /\ \A u \in Task \ {t} : tasks'[u] = tasks[u]
      BY <2>0, <3>3 DEF TypeOK
    <3>5. tasks[t].attempt = 0 /\ tasks'[t].attempt = 0
      BY <3>3, <3>4 DEF NoAttempts, FirstAttempts
    <3>6. Running' = Running /\ t \notin Running
      BY <2>0, <3>3 DEF Running, TypeOK
    <3>7. \A u \in Running : tasks'[u].resources = tasks[u].resources
      BY <3>4, <3>6 DEF Running
    <3>8. NoAttempts'
      BY <2>1, <3>4, <3>5 DEF NoAttempts
    <3>9. PoolAccounts'
      BY <2>0, <3>3, <3>4, <3>5, <3>6, <3>7, AccountsUntouched
    <3> QED
      BY <3>8, <3>9
  <2>3. ASSUME tasks' = tasks
        PROVE  NoAttempts'
    BY <2>1, <2>3 DEF NoAttempts
  <2>4. ASSUME tasks' = tasks, used' = used, Running' = Running
        PROVE  PoolAccounts'
    BY <2>0, <2>4, AccountsUntouched
  <2>5. ASSUME NEW t \in Task, Dequeue(t)
        PROVE  NoAttempts' /\ PoolAccounts'
    <3>1. tasks' = tasks
      BY <2>5 DEF Dequeue, graphVars
    <3> QED
      BY <2>0, <2>3, <2>5, <3>1, AccountsAllocate
  <2>6. ASSUME NEW t \in Task, Complete(t)
        PROVE  NoAttempts' /\ PoolAccounts'
    <3>1. tasks' = tasks /\ ReleaseRunning(t) /\ states[t] = "Running"
      BY <2>6 DEF Complete, Completable
    <3>2. Running' = Running \ {t}
      BY <2>6 DEF Complete, Completable, Unblocked, Running
    <3> QED
      BY <2>0, <2>3, <3>1, <3>2, AccountsRelease
  <2>7. ASSUME NEW t \in Task, Fail(t)
        PROVE  NoAttempts' /\ PoolAccounts'
    <3>1. tasks' = tasks
      BY <2>7 DEF Fail, graphVars
    <3>2. \A u \in Cascade(t) : states[u] # "Running"
      BY DEF Cascade, Cascadable
    <3>3. Running' = Running \ {t}
      BY <2>7, <3>2 DEF Fail, Running
    <3>4. CASE states[t] = "Running"
      BY <2>0, <2>3, <2>7, <3>1, <3>3, <3>4, AccountsRelease DEF Fail
    <3>5. CASE states[t] # "Running"
      <4>1. used' = used /\ Running' = Running
        BY <2>7, <3>3, <3>5 DEF Fail, poolVars, Running
      <4> QED
        BY <2>3, <2>4, <3>1, <4>1
    <3> QED
      BY <3>4, <3>5
  <2>8. ASSUME NEW t \in Task, NEW a \in Attempt, Retry(t, a)
        PROVE  NoAttempts' /\ PoolAccounts'
    <3>1. /\ tasks' = [tasks EXCEPT ![t].attempt = a]
          /\ states[t] = "Running" /\ states' = [states EXCEPT ![t] = "Ready"]
      BY <2>8 DEF Retry, Requeue, Requeueable
    <3>2. NoAttempts'
      BY <2>0, <3>1 DEF NoAttempts, TypeOK
    <3> QED
      BY <2>0, <2>8, <3>2, AccountsRetry
  <2>9. CASE DequeueNone \/ UNCHANGED vars
    <3>1. tasks' = tasks /\ used' = used /\ Running' = Running
      BY <2>9 DEF DequeueNone, vars, graphVars, poolVars, Running
    <3> QED
      BY <2>3, <2>4, <3>1
  <2> QED
    BY <2>2, <2>5, <2>6, <2>7, <2>8, <2>9 DEF BatchNext, Poll, Finish, Discard
<1> QED
  BY <1>1, <1>2, BatchInvariance, PTL DEF BatchSpec

=============================================================================
