------------------------------ MODULE DagBatch ------------------------------
(***************************************************************************)
(* DagScheduler driven the way crates/scheduler/src/soak_test.rs and the   *)
(* tests of dag.rs drive it: the graph is enqueued before any of its tasks *)
(* starts, and workers then poll dequeue and report each outcome.          *)
(***************************************************************************)
EXTENDS DagScheduler

(* Nothing has been handed out or failed yet.                              *)
Loading == \A t \in Task : states[t] \in {"Absent", "Pending", "Ready"}

Terminal == {"Completed", "Failed", "DependencyFailed"}

(* A worker that is handed nothing keeps polling; one that runs a task     *)
(* reports its end, or asks for its next attempt, whatever the task holds  *)
(* of the pool.  attempt therefore counts the retries of a task.           *)
Poll == \E t \in Task : Dequeue(t)
Finish(t) == Complete(t) \/ (states[t] = "Running" /\ Fail(t))
Discard(t) == states[t] # "Running" /\ Fail(t)
Retry(t, a) ==
    /\ a = tasks[t].attempt + 1
    /\ Requeue(t, a)

BatchNext ==
    \/ Loading /\ \E d \in Submission : Enqueue(d)
    \/ Poll
    \/ DequeueNone
    \/ \E t \in Task : Finish(t)
    \/ \E t \in Task : Discard(t)
    \/ \E t \in Task, a \in Attempt : Retry(t, a)

(* worker_loop polls for ever, and every execution ends.                   *)
BatchSpec ==
    /\ Init /\ [][BatchNext]_vars
    /\ WF_vars(Poll)
    /\ \A t \in Task : WF_vars(Finish(t))

(* "count of incomplete dependencies", the comment on in_degree: when the  *)
(* graph is loaded first, the counter is exact for every known task,       *)
(* through every completion, failure and retry.                            *)
InDegreeCountsIncomplete ==
    \A t \in Known :
        in_degree[t] = Cardinality({d \in Deps(t) : states[d] # "Completed"})

(* What the retries have leaked of r: requeue takes a task out of Running  *)
(* without a release, and the next dequeue allocates its request again.    *)
Leaks(r) == [t \in Task |-> tasks[t].attempt * tasks[t].resources[r]]
Leaked(r) == Total(Leaks(r), Task)

(* The pool holds what its running tasks were granted and what retries     *)
(* leaked, to the unit: complete and fail give back one grant of the task  *)
(* that ends and nothing else, a task that is failed while it waits gives  *)
(* nothing back, and each requeue costs the pool one grant for ever.       *)
PoolAccounts ==
    Pooled => \A r \in Resource : used[r] = RunningLoad(r) + Leaked(r)

(* Nothing runs, and each task that waits for the pool asks for more than  *)
(* the leaks have left of it: no worker will be handed a task again.       *)
StarvedByLeaks ==
    LET waiting == {t \in Task : states[t] = "Ready"}
    IN  /\ \A t \in Task : states[t] # "Running"
        /\ waiting # {}
        /\ \A t \in waiting : \E r \in Resource :
               Leaked(r) + tasks[t].resources[r] > Capacity[r]

(* A loaded graph is worked off unless leaks starve it: every task that    *)
(* was enqueued ends Completed, Failed or DependencyFailed, however the    *)
(* tasks compete for the pool and whatever fails, and the one thing that   *)
(* can stop the batch is a pool eaten up by the grants of retried tasks.   *)
BatchSettles ==
    \A t \in Task :
        t \in Known ~> states[t] \in Terminal \/ StarvedByLeaks

(* The plain claim, which the leaks refute.                                *)
BatchAlwaysSettles ==
    \A t \in Task : t \in Known ~> states[t] \in Terminal

=============================================================================
