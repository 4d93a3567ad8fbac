-------------------------------- MODULE Load --------------------------------
(***************************************************************************)
(* The guards of crates/core and crates/agent that decide whether and when *)
(* a task goes ahead: LoadControl, TaskGuards and FairShare.  They share   *)
(* no state, so a behaviour exercises one of them, chosen at the start.    *)
(***************************************************************************)
EXTENDS LoadControl

CONSTANTS
    GuardTask,      \* the tasks of TaskGuards and FairShare
    Runner, Goal, Nobody, TaskOf, GoalOf, GuardPriority, max_tokens,
    soft_timeout, MaxRuns, MaxRecords,
    SharePriority, Policies, MaxAge, MaxResets

VARIABLES
    part,  \* "load", "guards" or "shares"
    overloaded, locks, ownership, history, pc, inversion, tokens_used, spent,
    cancelled, soft, timer, run,
    current_index, waiting, age_ms, policy, resets

Guards == INSTANCE TaskGuards WITH Task <- GuardTask, PriorityOf <- GuardPriority

ASSUME GuardAssumption == Guards!GuardTypes

Shares == INSTANCE FairShare WITH Task <- GuardTask, PriorityOf <- SharePriority

guardVars == <<overloaded, locks, ownership, history, pc, inversion,
               tokens_used, spent, cancelled, soft, timer, run>>
shareVars == <<current_index, waiting, age_ms, policy, resets>>
allVars == <<part, vars, guardVars, shareVars>>

Loading(A) == part = "load" /\ A /\ UNCHANGED <<part, guardVars, shareVars>>
Guarding(A) == part = "guards" /\ A /\ UNCHANGED <<part, vars, shareVars>>
Sharing(A) == part = "shares" /\ A /\ UNCHANGED <<part, vars, guardVars>>

PartInit ==
    /\ part \in {"load", "guards", "shares"}
    /\ Init /\ Guards!Init /\ Shares!Init
    /\ part # "shares" => policy.kind = "None"

(* The fairness of the three specifications.                               *)
PartSpec ==
    /\ PartInit
    /\ [][Loading(Next) \/ Guarding(Guards!Next) \/ Sharing(Shares!Next)]_allVars
    /\ \A c \in Consumer : WF_allVars(Loading(Consume(c)))
    /\ \A r \in Runner : WF_allVars(Guarding(Guards!Timer(r) \/ Guards!check(r)))
    /\ WF_allVars(Sharing(Shares!next_priority))

-----------------------------------------------------------------------------
(* The properties of TaskGuards and FairShare.                             *)

(* One task at a time is at work on a goal.                                *)
GoalExclusive == Guards!GoalExclusive

(* A run ends once its timers have run out.                                *)
TimeoutEnforced == Guards!TimeoutEnforced

(* An inversion is reported only against a holder of lower priority.       *)
NoFalseAlarm == Guards!NoFalseAlarm

(* Every task that waits for a slice is served.                            *)
NoStarvation == Shares!NoStarvation

(* Refuted claims; README.md, section 5.                                   *)
SpendingBounded == Guards!SpendingBounded
CancelledByOwnTimer == Guards!CancelledByOwnTimer
EveryInversionIsSeen == Guards!EveryInversionIsSeen
LinearReachesHigh == Shares!LinearReachesHigh

=============================================================================
