--------------------------- MODULE WorkerRuntime ---------------------------
(***************************************************************************)
(* Worker runtimes (crates/worker/src/worker_runtime.rs) sharing a lease   *)
(* store (InMemoryLeaseStore) and a queue (StubScheduler), which is how    *)
(* the coordinator deploys them.                                           *)
(*                                                                         *)
(* Each runtime has a main loop, one heartbeat task per execution, a       *)
(* reaper loop, and may be asked to cancel tasks.  All of them are         *)
(* asynchronous: every await on the store is a point where the others      *)
(* run, so the store's get and update are separate steps, as are the       *)
(* contains_key and insert of InMemoryLeaseStore::insert.                  *)
(*                                                                         *)
(* External: the process that executes (any outcome at any time), the      *)
(* ResourceMonitor (may refuse; the deployed one keeps no state), and the  *)
(* event sink (events are not stored; a failing sink is a fault).          *)
(***************************************************************************)
EXTENDS Naturals, Sequences, FiniteSets, Lease, RetryHandler, StubScheduler

CONSTANTS
    Worker,
    Task,
    NoTask,       \* what an idle runtime works on
    Policy,       \* RetryPolicy: max_attempts and retryable_exit_codes
    ExitCodes,    \* non-zero exit codes a process may end with
    Cancellable,  \* tasks clients may ask a runtime to cancel
    Refusals,     \* TRUE: the ResourceMonitor may refuse an allocation
    Faults,       \* TRUE: calls to the store, queue, sink or OS may fail
    Crashes,      \* how many runtimes may crash
    MaxSubmits,   \* bound: how often a client enqueues the same task
    MaxQueue      \* bound: length of the queue

ASSUME WorkerAssumption == IsFiniteSet(Worker) /\ "none" \notin Worker
ASSUME TaskAssumption ==
    IsFiniteSet(Task) /\ Cancellable \subseteq Task /\ NoTask \notin Task
ASSUME PolicyAssumption ==
    Policy \in [max_attempts : Nat, retryable_exit_codes : SUBSET Nat]
ASSUME CodeAssumption == ExitCodes \subseteq Nat \ {0}
ASSUME BoundAssumption ==
    /\ Refusals \in BOOLEAN /\ Faults \in BOOLEAN
    /\ Crashes \in Nat /\ MaxSubmits \in Nat /\ MaxQueue \in Nat

VARIABLES
    queue,         \* StubScheduler: the VecDeque
    submits,       \* how often each task was enqueued
    leases,        \* InMemoryLeaseStore: the map
    worker,        \* worker_loop and execute_task of each runtime
    active_tasks,  \* the tasks each runtime has a CancelToken for
    signalled,     \* the tokens that were cancelled
    heartbeat,     \* the heartbeat task of each runtime and task
    reaper,        \* reaper_loop of each runtime
    canceller      \* the cancel_task call on each task

vars == <<queue, submits, leases, worker, active_tasks, signalled, heartbeat,
          reaper, canceller>>

Outcome == {Success, KilledBySignal} \cup {FailedWithCode(c) : c \in ExitCodes}

(* worker_loop between two tasks.                                          *)
Idle == [pc |-> "idle", task_id |-> NoTask, attempt |-> 0,
         outcome |-> Success, copy |-> NoLease]

Off == [pc |-> "off", copy |-> NoLease]

CancelEnded(pc) == [pc |-> pc, by |-> "none", copy |-> NoLease]

Resting == [pc |-> "waiting", scan |-> {}, copies |-> {}, collected |-> {}]

Current(w) == worker[w].task_id
AttemptOf(w) == worker[w].attempt
Live == {w \in Worker : worker[w].pc # "crashed"}

At(w, pc) == worker[w].pc = pc
Goto(w, pc) == worker' = [worker EXCEPT ![w].pc = pc]

(* execute_task returns: the token guard is dropped, the loop goes on.     *)
Return(w) ==
    /\ worker' = [worker EXCEPT ![w] = Idle]
    /\ active_tasks' = [active_tasks EXCEPT ![w] = @ \ {Current(w)}]

(* Queue::requeue, up to the bound on the queue.                           *)
Requeue(t, attempt) ==
    LET q == StubRequeue(queue, t, attempt)
    IN  queue' = IF Len(q) <= MaxQueue THEN q ELSE queue

(* LeaseStore::update: nothing ever removes a lease, so its contains_key   *)
(* check holds whenever a copy was read.                                   *)
Put(t, lease) == leases' = [leases EXCEPT ![t] = lease]

Init ==
    /\ queue = <<>>
    /\ submits = [t \in Task |-> 0]
    /\ leases = [t \in Task |-> NoLease]
    /\ worker = [w \in Worker |-> Idle]
    /\ active_tasks = [w \in Worker |-> {}]
    /\ signalled = [w \in Worker |-> {}]
    /\ heartbeat = [w \in Worker |-> [t \in Task |-> Off]]
    /\ reaper = [w \in Worker |-> Resting]
    /\ canceller = [t \in Task |-> CancelEnded("off")]

-----------------------------------------------------------------------------
(* Clients and time.                                                       *)

Enqueue(t) ==
    /\ submits[t] < MaxSubmits
    /\ Len(queue) < MaxQueue
    /\ submits' = [submits EXCEPT ![t] = @ + 1]
    /\ queue' = StubEnqueue(queue, t)
    /\ UNCHANGED <<leases, worker, active_tasks, signalled, heartbeat, reaper,
                   canceller>>

(* The clock passes expires_at.                                            *)
Expire(t) ==
    /\ IsActive(leases[t]) /\ ~leases[t].expired
    /\ leases' = [leases EXCEPT ![t].expired = TRUE]
    /\ UNCHANGED <<queue, submits, worker, active_tasks, signalled, heartbeat,
                   reaper, canceller>>

-----------------------------------------------------------------------------
(* The main loop.                                                          *)

Dequeue(w) ==
    /\ At(w, "idle")
    /\ queue # <<>>
    /\ worker' = [worker EXCEPT ![w].pc = "allocating",
                                ![w].task_id = Head(queue).task_id,
                                ![w].attempt = Head(queue).attempt]
    /\ queue' = StubPop(queue)
    /\ UNCHANGED <<submits, leases, active_tasks, signalled, heartbeat, reaper,
                   canceller>>

Allocate(w) ==
    /\ At(w, "allocating")
    /\ Goto(w, "acquiring")
    /\ UNCHANGED <<queue, submits, leases, active_tasks, signalled, heartbeat,
                   reaper, canceller>>

(* can_allocate said no: "insufficient resources ... requeueing".          *)
Refuse(w) ==
    /\ Refusals
    /\ At(w, "allocating")
    /\ Requeue(Current(w), AttemptOf(w))
    /\ Return(w)
    /\ UNCHANGED <<submits, leases, signalled, heartbeat, reaper, canceller>>

(* InMemoryLeaseStore::insert, the check.  A task with a lease in any      *)
(* state is AlreadyLeased, and execute_task returns Ok.                    *)
AcquireCheck(w) ==
    /\ At(w, "acquiring")
    /\ IF Leased(leases[Current(w)])
       THEN Return(w)
       ELSE Goto(w, "inserting") /\ UNCHANGED active_tasks
    /\ UNCHANGED <<queue, submits, leases, signalled, heartbeat, reaper,
                   canceller>>

(* InMemoryLeaseStore::insert, the insertion.                              *)
AcquireInsert(w) ==
    /\ At(w, "inserting")
    /\ Put(Current(w), NewLease(w, AttemptOf(w)))
    /\ Goto(w, "leased")
    /\ UNCHANGED <<queue, submits, active_tasks, signalled, heartbeat, reaper,
                   canceller>>

(* acquire returned another error, before or after the insertion: "try to  *)
(* requeue so we don't lose the task".                                     *)
AcquireFault(w) ==
    /\ Faults
    /\ At(w, "acquiring") \/ At(w, "leased")
    /\ Requeue(Current(w), AttemptOf(w))
    /\ Return(w)
    /\ UNCHANGED <<submits, leases, signalled, heartbeat, reaper, canceller>>

(* After the Acquired event: register the token, spawn the heartbeat and   *)
(* start the process.                                                      *)
Start(w) ==
    LET t == Current(w)
    IN  /\ At(w, "leased")
        /\ Goto(w, "executing")
        /\ active_tasks' = [active_tasks EXCEPT ![w] = @ \cup {t}]
        /\ signalled' = [signalled EXCEPT ![w] = @ \ {t}]
        /\ heartbeat' = [heartbeat EXCEPT ![w][t].pc = "ticking"]
        /\ UNCHANGED <<queue, submits, leases, reaper, canceller>>

(* The process ends: by itself, by a signal from outside, or because the   *)
(* token was signalled and kill_gracefully ended it.                       *)
Exit(w, outcome) ==
    /\ At(w, "executing")
    /\ worker' = [worker EXCEPT ![w].pc = "draining", ![w].outcome = outcome]
    /\ UNCHANGED <<queue, submits, leases, active_tasks, signalled, heartbeat,
                   reaper, canceller>>

(* execute returned an error (the process could not be spawned or awaited):*)
(* the question mark leaves execute_task at once.                          *)
ExecuteFault(w) ==
    /\ Faults
    /\ At(w, "executing")
    /\ Return(w)
    /\ UNCHANGED <<queue, submits, leases, signalled, heartbeat, reaper,
                   canceller>>

(* Wait for the heartbeat task to end, for at most five seconds; it goes   *)
(* on afterwards, since dropping a JoinHandle only detaches it.  The       *)
(* mutant has no timeout.                                                  *)
DrainWithoutTimeout(w) ==
    /\ At(w, "draining")
    /\ heartbeat[w][Current(w)].pc = "off"
    /\ Goto(w, "deciding")
    /\ UNCHANGED <<queue, submits, leases, active_tasks, signalled, heartbeat,
                   reaper, canceller>>

Drain(w) ==
    /\ At(w, "draining")
    /\ Goto(w, "deciding")
    /\ UNCHANGED <<queue, submits, leases, active_tasks, signalled, heartbeat,
                   reaper, canceller>>

(* Emit Completed, decide, emit WillRetry or Abandoned, and read the lease *)
(* (the get of LeaseManager::complete or fail).                            *)
ReadLease(w) ==
    LET decision == Decide(worker[w].outcome, Policy, AttemptOf(w))
    IN  /\ At(w, "deciding")
        /\ worker' = [worker EXCEPT ![w].pc = decision,
                                    ![w].copy = leases[Current(w)]]
        /\ UNCHANGED <<queue, submits, leases, active_tasks, signalled,
                       heartbeat, reaper, canceller>>

(* The update of LeaseManager::complete or fail.                           *)
WriteLease(w) ==
    LET t == Current(w)
        state == IF At(w, "Complete") THEN "Completed" ELSE "Failed"
    IN  /\ At(w, "Complete") \/ At(w, "Abandon") \/ At(w, "Retry")
        /\ Put(t, WithState(worker[w].copy, state))
        /\ IF At(w, "Retry")
           THEN /\ worker' = [worker EXCEPT ![w].pc = "backoff",
                                            ![w].copy = NoLease]
                /\ UNCHANGED active_tasks
           ELSE Return(w)
        /\ UNCHANGED <<queue, submits, signalled, heartbeat, reaper, canceller>>

(* A monitor, event, lease or requeue call failed: the question mark       *)
(* returns.                                                                *)
CallFault(w) ==
    /\ Faults
    /\ worker[w].pc \in {"allocating", "deciding", "Complete", "Abandon",
                         "Retry", "backoff"}
    /\ Return(w)
    /\ UNCHANGED <<queue, submits, leases, signalled, heartbeat, reaper,
                   canceller>>

(* After the backoff the task goes back to the queue.                      *)
RetryRequeue(w) ==
    /\ At(w, "backoff")
    /\ Requeue(Current(w), AttemptOf(w) + 1)
    /\ Return(w)
    /\ UNCHANGED <<submits, leases, signalled, heartbeat, reaper, canceller>>

(* The machine stops: its loops, heartbeats and cancel calls are gone.     *)
Crash(w) ==
    /\ w \in Live
    /\ Cardinality(Worker \ Live) < Crashes
    /\ worker' = [worker EXCEPT ![w] = [Idle EXCEPT !.pc = "crashed"]]
    /\ active_tasks' = [active_tasks EXCEPT ![w] = {}]
    /\ signalled' = [signalled EXCEPT ![w] = {}]
    /\ heartbeat' = [heartbeat EXCEPT ![w] = [t \in Task |-> Off]]
    /\ reaper' = [reaper EXCEPT ![w] = [Resting EXCEPT !.pc = "dead"]]
    /\ canceller' = [t \in Task |-> IF canceller[t].by = w
                                    THEN CancelEnded("failed")
                                    ELSE canceller[t]]
    /\ UNCHANGED <<queue, submits, leases>>

-----------------------------------------------------------------------------
(* The heartbeat task: get, then update with a later expiry.  It ends only *)
(* when there is no lease, and no lease is ever removed.                   *)

HeartbeatRead(w, t) ==
    /\ heartbeat[w][t].pc = "ticking"
    /\ heartbeat' = [heartbeat EXCEPT ![w][t] =
                        IF Leased(leases[t])
                        THEN [pc |-> "renewing", copy |-> leases[t]]
                        ELSE Off]
    /\ UNCHANGED <<queue, submits, leases, worker, active_tasks, signalled,
                   reaper, canceller>>

HeartbeatWrite(w, t) ==
    /\ heartbeat[w][t].pc = "renewing"
    /\ Put(t, Renewed(heartbeat[w][t].copy))
    /\ heartbeat' = [heartbeat EXCEPT ![w][t] =
                        [pc |-> "ticking", copy |-> NoLease]]
    /\ UNCHANGED <<queue, submits, worker, active_tasks, signalled, reaper,
                   canceller>>

(* The result of renew is ignored.                                         *)
HeartbeatFault(w, t) ==
    /\ Faults
    /\ heartbeat[w][t].pc = "renewing"
    /\ heartbeat' = [heartbeat EXCEPT ![w][t] =
                        [pc |-> "ticking", copy |-> NoLease]]
    /\ UNCHANGED <<queue, submits, leases, worker, active_tasks, signalled,
                   reaper, canceller>>

-----------------------------------------------------------------------------
(* The reaper loop: collect_expired, then one requeue per expired lease.   *)

(* active_leases and the first is_expired test.                            *)
ReaperScan(w) ==
    LET scan == {t \in Task : Reapable(leases[t])}
    IN  /\ reaper[w].pc = "waiting"
        /\ scan # {}
        /\ reaper' = [reaper EXCEPT ![w].pc = "scanning", ![w].scan = scan]
        /\ UNCHANGED <<queue, submits, leases, worker, active_tasks, signalled,
                       heartbeat, canceller>>

(* The fresh copy, and the second test.                                    *)
ReaperRead(w, t) ==
    /\ reaper[w].pc = "scanning"
    /\ t \in reaper[w].scan
    /\ IF Reapable(leases[t])
       THEN reaper' = [reaper EXCEPT ![w].pc = "expiring",
                                     ![w].copies = {<<t, leases[t]>>},
                                     ![w].scan = @ \ {t}]
       ELSE reaper' = [reaper EXCEPT ![w].scan = @ \ {t}]
    /\ UNCHANGED <<queue, submits, leases, worker, active_tasks, signalled,
                   heartbeat, canceller>>

ReaperWrite(w) ==
    /\ reaper[w].pc = "expiring"
    /\ \E c \in reaper[w].copies :
           /\ Put(c[1], WithState(c[2], "Expired"))
           /\ reaper' = [reaper EXCEPT ![w].pc = "scanning",
                                       ![w].copies = {},
                                       ![w].collected = @ \cup {c}]
    /\ UNCHANGED <<queue, submits, worker, active_tasks, signalled, heartbeat,
                   canceller>>

(* After the scan: LeaseExpired, and a requeue with the next attempt.      *)
ReaperRequeue(w) ==
    /\ reaper[w].pc = "scanning"
    /\ reaper[w].scan = {}
    /\ \E c \in reaper[w].collected :
           /\ Requeue(c[1], c[2].attempt + 1)
           /\ reaper' = [reaper EXCEPT ![w].collected = @ \ {c}]
    /\ UNCHANGED <<submits, leases, worker, active_tasks, signalled, heartbeat,
                   canceller>>

ReaperRest(w) ==
    /\ reaper[w].pc = "scanning"
    /\ reaper[w].scan = {} /\ reaper[w].collected = {}
    /\ reaper' = [reaper EXCEPT ![w] = Resting]
    /\ UNCHANGED <<queue, submits, leases, worker, active_tasks, signalled,
                   heartbeat, canceller>>

(* A store call of collect_expired failed: what it had collected so far is *)
(* dropped with the error, and the loop goes on.                           *)
CollectFault(w) ==
    /\ Faults
    /\ \/ reaper[w].pc = "expiring"
       \/ reaper[w].pc = "scanning" /\ reaper[w].scan # {}
    /\ reaper' = [reaper EXCEPT ![w] = Resting]
    /\ UNCHANGED <<queue, submits, leases, worker, active_tasks, signalled,
                   heartbeat, canceller>>

(* emit_event or requeue failed: the question mark ends reaper_loop, and   *)
(* nothing starts it again.                                                *)
ReaperFault(w) ==
    /\ Faults
    /\ reaper[w].pc = "scanning"
    /\ reaper[w].scan = {} /\ reaper[w].collected # {}
    /\ reaper' = [reaper EXCEPT ![w] = [Resting EXCEPT !.pc = "dead"]]
    /\ UNCHANGED <<queue, submits, leases, worker, active_tasks, signalled,
                   heartbeat, canceller>>

-----------------------------------------------------------------------------
(* cancel_task, called once per cancellable task on some live runtime.     *)

(* Signal the token if the task is active here.                            *)
CancelCall(w, t) ==
    /\ t \in Cancellable
    /\ canceller[t].pc = "off"
    /\ w \in Live
    /\ signalled' = [signalled EXCEPT ![w] = @ \cup ({t} \cap active_tasks[w])]
    /\ canceller' = [canceller EXCEPT ![t] =
                        [pc |-> "looking", by |-> w, copy |-> NoLease]]
    /\ UNCHANGED <<queue, submits, leases, worker, active_tasks, heartbeat,
                   reaper>>

(* Look for a lease.                                                       *)
CancelLook(t) ==
    /\ canceller[t].pc = "looking"
    /\ canceller' = [canceller EXCEPT ![t].pc =
                        IF Leased(leases[t]) THEN "cancelling" ELSE "discarding"]
    /\ UNCHANGED <<queue, submits, leases, worker, active_tasks, signalled,
                   heartbeat, reaper>>

(* The get and the update of LeaseManager::cancel.                         *)
CancelRead(t) ==
    /\ canceller[t].pc = "cancelling"
    /\ canceller' = [canceller EXCEPT ![t].pc = "writing",
                                      ![t].copy = leases[t]]
    /\ UNCHANGED <<queue, submits, leases, worker, active_tasks, signalled,
                   heartbeat, reaper>>

CancelWrite(t) ==
    /\ canceller[t].pc = "writing"
    /\ Put(t, WithState(canceller[t].copy, "Cancelled"))
    /\ canceller' = [canceller EXCEPT ![t].pc = "discarding",
                                      ![t].copy = NoLease]
    /\ UNCHANGED <<queue, submits, worker, active_tasks, signalled, heartbeat,
                   reaper>>

(* Queue::discard and the Cancelled event.                                 *)
CancelDiscard(t) ==
    /\ canceller[t].pc = "discarding"
    /\ queue' = StubDiscard(queue, t)
    /\ canceller' = [canceller EXCEPT ![t] = CancelEnded("cancelled")]
    /\ UNCHANGED <<submits, leases, worker, active_tasks, signalled, heartbeat,
                   reaper>>

(* Any of these calls failed: cancel_task returns the error.               *)
CancelFault(t) ==
    /\ Faults
    /\ canceller[t].by # "none"
    /\ canceller' = [canceller EXCEPT ![t] = CancelEnded("failed")]
    /\ UNCHANGED <<queue, submits, leases, worker, active_tasks, signalled,
                   heartbeat, reaper>>

-----------------------------------------------------------------------------

(* What a runtime's main loop does by itself, without faults.              *)
WorkerStep(w) ==
    \/ Dequeue(w) \/ Allocate(w) \/ AcquireCheck(w) \/ AcquireInsert(w)
    \/ Start(w) \/ Drain(w) \/ ReadLease(w) \/ WriteLease(w) \/ RetryRequeue(w)

ReaperStep(w) ==
    \/ ReaperScan(w)
    \/ \E t \in Task : ReaperRead(w, t)
    \/ ReaperWrite(w)
    \/ ReaperRequeue(w)
    \/ ReaperRest(w)

HeartbeatStep(w, t) == HeartbeatRead(w, t) \/ HeartbeatWrite(w, t)

CancelStep(t) ==
    CancelLook(t) \/ CancelRead(t) \/ CancelWrite(t) \/ CancelDiscard(t)

FaultStep(w) ==
    \/ AcquireFault(w) \/ ExecuteFault(w) \/ CallFault(w)
    \/ CollectFault(w) \/ ReaperFault(w)

Next ==
    \/ \E t \in Task : Enqueue(t) \/ Expire(t) \/ CancelStep(t) \/ CancelFault(t)
    \/ \E w \in Worker :
           \/ WorkerStep(w)
           \/ Refuse(w)
           \/ \E outcome \in Outcome : Exit(w, outcome)
           \/ FaultStep(w)
           \/ Crash(w)
           \/ ReaperStep(w)
           \/ \E t \in Task : \/ HeartbeatStep(w, t) \/ HeartbeatFault(w, t)
                            \/ CancelCall(w, t)

Spec == Init /\ [][Next]_vars

(* Loops keep running and time keeps passing; processes end.  The faults,  *)
(* crashes, refusals and cancellations need not happen, and the store does *)
(* not fail a reaper's calls for ever.                                     *)
Fairness ==
    /\ \A w \in Worker :
           /\ WF_vars(WorkerStep(w))
           /\ WF_vars(\E outcome \in Outcome : Exit(w, outcome))
           /\ WF_vars(ReaperStep(w)) /\ SF_vars(ReaperWrite(w))
           /\ \A t \in Task : /\ SF_vars(ReaperRead(w, t))
                             /\ WF_vars(HeartbeatStep(w, t))
    /\ \A t \in Task : WF_vars(Expire(t)) /\ WF_vars(CancelStep(t))

FairSpec == Spec /\ Fairness

-----------------------------------------------------------------------------
(* Properties.                                                             *)

(* The runtimes that are between taking the lease of t and leaving it.     *)
OnTask(t) ==
    {w \in Worker : /\ Current(w) = t
                    /\ worker[w].pc \notin {"allocating", "acquiring",
                                            "inserting"}}

(* A task that is submitted once is worked on by one runtime only, and     *)
(* that runtime is the one its lease names; the same holds for the         *)
(* heartbeats that outlive the work.  Crashes, expiry, reapers, retries    *)
(* and cancellations never hand the task to a second runtime.              *)
LeaseNamesTheOnlyHolder ==
    \A t \in Task : submits[t] <= 1 =>
        \A w \in Worker : w \in OnTask(t) \/ heartbeat[w][t].pc # "off" =>
            leases[t].worker_id = w

(* A runtime never stays in execute_task for ever: it comes back to its    *)
(* loop although the heartbeat it waits for does not end.                  *)
AlwaysReturns ==
    \A w \in Worker : worker[w].pc \notin {"idle", "crashed"} ~>
                          worker[w].pc \in {"idle", "crashed"}

ReaperAlive == \E w \in Worker : reaper[w].pc # "dead"

(* The lease of a crashed runtime does not stay Active: some other         *)
(* runtime's reaper takes it, as long as one runs (collect_expired), even  *)
(* if its calls to the store fail now and then.                            *)
OrphanIsReaped ==
    \A t \in Task : \A w \in Worker :
        (At(w, "crashed") /\ IsActive(leases[t]) /\ leases[t].worker_id = w)
            ~> (~IsActive(leases[t]) \/ ~ReaperAlive)

-----------------------------------------------------------------------------
(* Claims of the documentation that the code does not keep.  README.md     *)
(* says for which values of the constants TLC refutes each.                *)

(* IMPLEMENTATION.md: "Acquire lease (exclusive, prevents duplicate        *)
(* execution)".  No task is executed by two runtimes at the same time.     *)
ExclusiveExecution ==
    \A t \in Task :
        Cardinality({w \in Worker : At(w, "executing") /\ Current(w) = t}) <= 1

(* lease_manager.rs: "Double check: fetch fresh copy to prevent race       *)
(* condition".  The reaper expires no lease that has been renewed.         *)
RenewedIsNotReaped ==
    [][\A t \in Task :
          IsActive(leases[t]) /\ ~leases[t].expired =>
              leases'[t].state # "Expired"]_vars

(* CHANGELOG.md: "Lease state machine (Active -> Completed/Failed/Expired/ *)
(* Cancelled)".  A lease that has left Active does not become Active.      *)
NeverActiveAgain ==
    [][\A t \in Task :
          Leased(leases[t]) /\ ~IsActive(leases[t]) =>
              ~IsActive(leases'[t])]_vars

(* lease.rs: "Lease was cancelled".  A cancelled lease stays cancelled.    *)
CancelledStaysCancelled ==
    [][\A t \in Task :
          leases[t].state = "Cancelled" => leases'[t].state = "Cancelled"]_vars

(* IMPLEMENTATION.md: "Non-retryable -> mark abandoned, stop".  Only a     *)
(* process that succeeded is about to be marked complete.                  *)
CompleteMeansSuccess ==
    \A w \in Worker : At(w, "Complete") => worker[w].outcome = Success

(* worker_runtime.rs: "System error, try to requeue so we don't lose the   *)
(* task".  After an acquire error the task is queued again, unless the     *)
(* error came after the lease was inserted.                                *)
AcquireErrorKeepsTask ==
    [][\A w \in Worker : AcquireFault(w) =>
          \/ Queued(queue', Current(w))
          \/ Leased(leases'[Current(w)])]_vars

(* lease.rs: "Lease is active and the task is running".  A lease no        *)
(* runtime works under stops being Active.                                 *)
IdleLeaseEnds ==
    \A t \in Task :
        (IsActive(leases[t]) /\ OnTask(t) = {}) ~>
            (~IsActive(leases[t]) \/ OnTask(t) # {})

(* ARCHITECTURE.md: "Retryable -> [Failed] + delay + requeue".  A task     *)
(* that was granted a retry is taken up again.                             *)
RetryIsTakenUp ==
    \A t \in Task :
        (\E w \in Worker : At(w, "backoff") /\ Current(w) = t)
            ~> (\E w \in Worker : At(w, "acquiring") /\ Current(w) = t)

(* Processes that end only when their token is signalled.                  *)
HangingSpec ==
    /\ Spec
    /\ \A w \in Worker :
           /\ WF_vars(WorkerStep(w))
           /\ WF_vars(/\ Current(w) \in signalled[w]
                      /\ \E outcome \in Outcome : Exit(w, outcome))
    /\ \A t \in Task : WF_vars(CancelStep(t))

(* worker_runtime.rs: "Cancel a task in progress".  Once cancel_task has   *)
(* returned, the task is eventually not executing, and stays so.           *)
CancelStops ==
    \A t \in Task :
        (canceller[t].pc = "cancelled") ~>
            [](\A w \in Worker : ~(At(w, "executing") /\ Current(w) = t))

=============================================================================
