----------------------------- MODULE TaskGuards -----------------------------
(***************************************************************************)
(* The guards around one run of an agent task: TaskExecutionFilter         *)
(* (crates/core/src/backpressure_integration.rs), InMemoryGoalLockStore    *)
(* and BudgetTracker (crates/agent), TaskTimeoutManager (task_timeout.rs), *)
(* and PriorityInversionDetector (priority_inversion.rs) told about the    *)
(* goal locks, the only locks tasks share.                                 *)
(*                                                                         *)
(* A step is one access to a map or an atomic.  Timers and elapsed times   *)
(* may run out at any moment, so durations are left out.                   *)
(*                                                                         *)
(* External: the runs, which pass the filter, take the lock, start budget  *)
(* and timer, charge and poll while they work, and clean up on every way   *)
(* out, also when the lock was refused; one that ended may run again on    *)
(* the same handle.  A task has more than one runner when an expired lease *)
(* is requeued while its holder is alive.                                  *)
(***************************************************************************)
EXTENDS Naturals, FiniteSets

CONSTANTS
    Runner,
    Task,
    Goal,
    Nobody,       \* no task, no record
    TaskOf,       \* the task of each runner
    GoalOf,       \* the goal of each task
    PriorityOf,   \* the priority of each task: 0 (Low) to 3 (Critical)
    max_tokens,   \* of every task's AgentBudget
    soft_timeout, \* has the TimeoutPolicy a soft timeout?
    MaxRuns,      \* bound: how often each runner runs
    MaxRecords    \* bound: the inversion records kept before clear_history

(* What the constants are.                                                 *)
GuardTypes ==
    /\ Nobody \notin Task
    /\ TaskOf \in [Runner -> Task]
    /\ GoalOf \in [Task -> Goal]
    /\ PriorityOf \in [Task -> 0..3]
    /\ max_tokens \in Nat \ {0}
    /\ soft_timeout \in BOOLEAN
    /\ MaxRuns \in [Runner -> Nat \ {0}]

VARIABLES
    overloaded,  \* is degradation_mode() Critical?
    locks,       \* the goal lock store
    ownership,   \* the detector's lock_ownership: the recorded holders
    history,     \* the detector's inversion_history
    pc,          \* where each runner is
    inversion,   \* the record it is about to push
    tokens_used, \* BudgetEntry of each task
    spent,       \* what a runner has really charged in this run
    cancelled,   \* the two flags of each runner's TimeoutHandle
    soft,
    timer,       \* where the TaskTimeoutManager::start of each run is
    run          \* the number of the run each runner is in

vars == <<overloaded, locks, ownership, history, pc, inversion, tokens_used,
          spent, cancelled, soft, timer, run>>

NoEntry == max_tokens + 2    \* no BudgetEntry for the task

Init ==
    /\ overloaded = FALSE
    /\ locks = [g \in Goal |-> Nobody]
    /\ ownership = [g \in Goal |-> Nobody]
    /\ history = {}
    /\ pc = [r \in Runner |-> "idle"]
    /\ inversion = [r \in Runner |-> Nobody]
    /\ tokens_used = [t \in Task |-> NoEntry]
    /\ spent = [r \in Runner |-> 0]
    /\ cancelled = [r \in Runner |-> FALSE]
    /\ soft = [r \in Runner |-> FALSE]
    /\ timer = [r \in Runner |-> [n \in 1..MaxRuns[r] |-> "off"]]
    /\ run = [r \in Runner |-> 1]

handle == <<cancelled, soft>>
detector == <<ownership, history, inversion>>
budget == <<tokens_used, spent>>

GoalFor(r) == GoalOf[TaskOf[r]]
is_critical(t) == PriorityOf[t] = 3

At(r, here) == pc[r] = here
Goto(r, there) == pc' = [pc EXCEPT ![r] = there]

-----------------------------------------------------------------------------
(* TaskExecutionFilter                                                     *)

can_execute_task(t) == ~(overloaded /\ ~is_critical(t))

(* The queue fills up or drains: see DegradationMode in LoadControl.       *)
ModeChanges ==
    /\ overloaded' = ~overloaded
    /\ UNCHANGED <<locks, detector, pc, budget, handle, timer, run>>

Admit(r) ==
    /\ At(r, "idle")
    /\ can_execute_task(TaskOf[r])
    /\ Goto(r, "admitted")
    /\ UNCHANGED <<overloaded, locks, detector, budget, handle, timer, run>>

-----------------------------------------------------------------------------
(* InMemoryGoalLockStore, PriorityInversionDetector                        *)

(* entry().or_insert: held now, or held already by the same task.          *)
try_acquire(g, t) == locks' = [locks EXCEPT ![g] = IF @ = Nobody THEN t ELSE @]

Lock(r) ==
    /\ At(r, "admitted")
    /\ try_acquire(GoalFor(r), TaskOf[r])
    /\ Goto(r, IF locks'[GoalFor(r)] = TaskOf[r] THEN "locked" ELSE "refused")
    /\ UNCHANGED <<overloaded, detector, budget, handle, timer, run>>

record_lock_acquire(r) ==
    /\ At(r, "locked")
    /\ ownership' = [ownership EXCEPT ![GoalFor(r)] = TaskOf[r]]
    /\ Goto(r, "recorded")
    /\ UNCHANGED <<overloaded, locks, history, inversion, budget, handle,
                   timer, run>>

(* record_task_blocks: with the read lock, is the holder below the waiter? *)
record_task_blocks(r) ==
    LET t == TaskOf[r]
        owner == ownership[GoalFor(r)]
        inverted == owner # Nobody /\ PriorityOf[t] > PriorityOf[owner]
    IN  /\ At(r, "refused")
        /\ inversion' = [inversion EXCEPT ![r] =
                            IF inverted THEN [waiter |-> t, blocker |-> owner]
                            ELSE Nobody]
        /\ Goto(r, IF inverted THEN "inverted" ELSE "cleanup")
        /\ UNCHANGED <<overloaded, locks, ownership, history, budget, handle,
                       timer, run>>

(* ... then, with the write lock, push.                                    *)
PushRecord(r) ==
    /\ At(r, "inverted")
    /\ Cardinality(history) < MaxRecords
    /\ history' = history \cup {inversion[r]}
    /\ inversion' = [inversion EXCEPT ![r] = Nobody]
    /\ Goto(r, "cleanup")
    /\ UNCHANGED <<overloaded, locks, ownership, budget, handle, timer, run>>

clear_history ==
    /\ history # {}
    /\ history' = {}
    /\ UNCHANGED <<overloaded, locks, ownership, inversion, pc, budget, handle,
                   timer, run>>

(* "for testing/recovery"                                                  *)
clear_locks ==
    /\ ownership' = [g \in Goal |-> Nobody]
    /\ UNCHANGED <<overloaded, locks, history, inversion, pc, budget, handle,
                   timer, run>>

(* A holder says so before it releases.  The mutant leaves the record.     *)
KeepRecord(g) == UNCHANGED ownership
record_lock_release(g) == ownership' = [ownership EXCEPT ![g] = Nobody]

(* release: get, and is it the holder?  The mutant does not ask.           *)
MayReleaseAny(g, t) == locks[g] # Nobody
MayRelease(g, t) == locks[g] = t

ReleaseRead(r) ==
    /\ At(r, "cleanup")
    /\ Goto(r, IF MayRelease(GoalFor(r), TaskOf[r]) THEN "removing" ELSE "done")
    /\ UNCHANGED <<overloaded, locks, detector, budget, handle, timer, run>>

(* drop(entry), remove(goal): whatever is there by now.                    *)
ReleaseRemove(r) ==
    /\ At(r, "removing")
    /\ locks' = [locks EXCEPT ![GoalFor(r)] = Nobody]
    /\ Goto(r, "done")
    /\ UNCHANGED <<overloaded, detector, budget, handle, timer, run>>

-----------------------------------------------------------------------------
(* BudgetTracker                                                           *)

(* start: a fresh entry, also over an old one; the timer is spawned.       *)
Begin(r) ==
    /\ At(r, "recorded")
    /\ tokens_used' = [tokens_used EXCEPT ![TaskOf[r]] = 0]
    /\ timer' = [timer EXCEPT ![r][run[r]] =
                    IF soft_timeout THEN "soft" ELSE "hard"]
    /\ Goto(r, "running")
    /\ UNCHANGED <<overloaded, locks, detector, spent, handle, run>>

(* charge_tokens adds first and compares then; without an entry it is Ok.  *)
charge_tokens(r) ==
    LET t == TaskOf[r]
        entry == tokens_used[t] # NoEntry
        total == IF entry THEN tokens_used[t] + 1 ELSE NoEntry
    IN  /\ At(r, "running")
        /\ spent[r] <= max_tokens
        /\ spent' = [spent EXCEPT ![r] = @ + 1]
        /\ tokens_used' = [tokens_used EXCEPT ![t] = total]
        /\ Goto(r, IF entry /\ total > max_tokens THEN "stopping" ELSE "running")
        /\ UNCHANGED <<overloaded, locks, detector, handle, timer, run>>

(* The work is done, or check_time finds the task's entry too old.         *)
Stop(r) ==
    /\ At(r, "running")
    /\ Goto(r, "stopping")
    /\ UNCHANGED <<overloaded, locks, detector, budget, handle, timer, run>>

(* finish removes the entry, and the detector is told.                     *)
Finish(r) ==
    /\ At(r, "stopping")
    /\ tokens_used' = [tokens_used EXCEPT ![TaskOf[r]] = NoEntry]
    /\ spent' = [spent EXCEPT ![r] = 0]
    /\ record_lock_release(GoalFor(r))
    /\ Goto(r, "cleanup")
    /\ UNCHANGED <<overloaded, locks, history, inversion, handle, timer, run>>

-----------------------------------------------------------------------------
(* TaskTimeoutManager                                                      *)

(* Where start goes from a sleep: it looks at the flag, and then sets the  *)
(* other or the same.  The mutant gives up after a soft timeout.           *)
AwakeSoftOnly(r, s) ==
    IF s = "soft" THEN IF cancelled[r] THEN "off" ELSE "triggering"
    ELSE "off"

Awake(r, s) ==
    CASE s = "soft" -> IF cancelled[r] THEN "hard" ELSE "triggering"
      [] s = "hard" -> IF cancelled[r] THEN "off" ELSE "cancelling"

TimerFires(r, n) ==
    /\ timer[r][n] \in {"soft", "hard"}
    /\ timer' = [timer EXCEPT ![r][n] = Awake(r, @)]
    /\ UNCHANGED <<overloaded, locks, detector, pc, budget, handle, run>>

TimerSets(r, n) ==
    /\ timer[r][n] \in {"triggering", "cancelling"}
    /\ IF timer[r][n] = "triggering"
       THEN /\ soft' = [soft EXCEPT ![r] = TRUE]
            /\ timer' = [timer EXCEPT ![r][n] = "hard"]
            /\ UNCHANGED cancelled
       ELSE /\ cancelled' = [cancelled EXCEPT ![r] = TRUE]
            /\ timer' = [timer EXCEPT ![r][n] = "off"]
            /\ UNCHANGED soft
    /\ UNCHANGED <<overloaded, locks, detector, pc, budget, run>>

(* check: an error once cancelled; a soft timeout is no error.             *)
check(r) ==
    /\ At(r, "running")
    /\ cancelled[r]
    /\ Goto(r, "stopping")
    /\ UNCHANGED <<overloaded, locks, detector, budget, handle, timer, run>>

(* reset, "for reuse": the flags, not the timers that still sleep.         *)
RunAgain(r) ==
    /\ At(r, "done")
    /\ run[r] < MaxRuns[r]
    /\ run' = [run EXCEPT ![r] = @ + 1]
    /\ cancelled' = [cancelled EXCEPT ![r] = FALSE]
    /\ soft' = [soft EXCEPT ![r] = FALSE]
    /\ Goto(r, "idle")
    /\ UNCHANGED <<overloaded, locks, detector, budget, timer>>

-----------------------------------------------------------------------------
Timer(r) == \E n \in 1..MaxRuns[r] : TimerFires(r, n) \/ TimerSets(r, n)

Guard(r) ==
    \/ Admit(r) \/ Lock(r) \/ record_lock_acquire(r) \/ record_task_blocks(r)
    \/ PushRecord(r) \/ Begin(r) \/ Finish(r) \/ ReleaseRead(r)
    \/ ReleaseRemove(r)

Next ==
    \/ ModeChanges
    \/ clear_history
    \/ clear_locks
    \/ \E r \in Runner : \/ Guard(r) \/ charge_tokens(r) \/ Stop(r) \/ check(r)
                         \/ Timer(r) \/ RunAgain(r)

Spec == Init /\ [][Next]_vars

(* The timer is a spawned future of its own and the runner polls check;    *)
(* nothing makes the work itself end.                                      *)
FairSpec ==
    /\ Spec
    /\ \A r \in Runner : WF_vars(Timer(r) \/ check(r))

-----------------------------------------------------------------------------
(* Properties.                                                             *)

Holding == {"locked", "recorded", "running", "stopping"}

(* "allowing only one task to hold a lock for a given goal string": of two *)
(* tasks with the same goal one at most is at work, also when the one that *)
(* was refused cleans up after itself.                                     *)
GoalExclusive ==
    \A r, q \in Runner :
        /\ pc[r] \in Holding /\ pc[q] \in Holding
        /\ GoalFor(r) = GoalFor(q)
        => TaskOf[r] = TaskOf[q]

(* "preventing runaway executions": whatever a run does, it ends once its  *)
(* timers have run out, also on a handle that was cancelled, reset and     *)
(* used again.                                                             *)
TimeoutEnforced ==
    \A r \in Runner : pc[r] = "running" ~> pc[r] # "running"

(* An inversion is detected only against a task that does hold the lock    *)
(* and has the lower priority, however records and locks interleave.       *)
NoFalseAlarm ==
    [][\A r \in Runner :
          inversion'[r] # Nobody /\ inversion[r] = Nobody =>
              /\ locks[GoalFor(r)] = inversion'[r].blocker
              /\ PriorityOf[inversion'[r].blocker] < PriorityOf[TaskOf[r]]]_vars

-----------------------------------------------------------------------------
(* What comments say and the code does not do, with two runners of one     *)
(* task or a reused handle; README.md, section 5.                          *)

(* budget.rs: "Returns error if budget is exceeded or task not found."     *)
SpendingBounded ==
    \A r \in Runner : pc[r] = "running" => spent[r] <= max_tokens

(* task_timeout.rs: "Reset timeout state (for reuse or testing)": a run is *)
(* cancelled by its own timer only.                                        *)
CancelledByOwnTimer ==
    \A r \in Runner : pc[r] = "running" /\ cancelled[r] =>
        timer[r][run[r]] = "off"

(* priority_inversion.rs: "identifies inversions when a high-priority task *)
(* waits on a lock held by a lower-priority task".                         *)
EveryInversionIsSeen ==
    [][\A r \in Runner :
          At(r, "refused") /\ pc'[r] = "cleanup" =>
              LET holder == locks[GoalFor(r)]
              IN  holder = Nobody \/ PriorityOf[holder] >= PriorityOf[TaskOf[r]]
      ]_vars

=============================================================================
