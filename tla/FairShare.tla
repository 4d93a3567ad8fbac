----------------------------- MODULE FairShare -----------------------------
(***************************************************************************)
(* Fair scheduling of crates/core: the weighted rotation of                *)
(* TimeSliceScheduler (time_slice_scheduler.rs) and the promotion of       *)
(* waiting tasks by TaskAge (task_aging.rs).  round_counter, which only    *)
(* the statistics read, is left out.                                       *)
(*                                                                         *)
(* External: the caller, who for each slice serves the task that has       *)
(* waited longest among those of the slice's priority after aging, and     *)
(* leaves the slice unused when there is none.                             *)
(***************************************************************************)
EXTENDS Naturals, Sequences, SequencesExt

CONSTANTS
    Task,
    PriorityOf,  \* original_priority
    Policies,    \* the AgingPolicy values tried: [kind, base_ms]
    MaxAge,      \* bound: ages above it are the same
    MaxResets    \* bound: how often reset_state is called

VARIABLES
    current_index,  \* SchedulerState
    waiting,        \* the tasks in order of arrival
    age_ms,
    policy,
    resets

fvars == <<current_index, waiting, age_ms, policy, resets>>

(* Priority: Low, Normal, High, Critical, and their weight_percentage.     *)
Low == 0
Normal == 1
High == 2
Critical == 3
Weight == <<5, 15, 30, 50>>
weight_percentage(p) == Weight[p + 1]

(* new_state: a round has the slots of Critical, then those of High,       *)
(* Normal and Low, as many as their weights; Slot(i) is what it holds at   *)
(* position i.                                                             *)
Share(p) == weight_percentage(p)
RoundLength == Share(Critical) + Share(High) + Share(Normal) + Share(Low)
Slot(i) ==
    CASE i < Share(Critical) -> Critical
      [] i >= Share(Critical) /\ i < Share(Critical) + Share(High) -> High
      [] i >= RoundLength - Share(Low) -> Low
      [] OTHER -> Normal

Init ==
    /\ current_index = 0
    /\ waiting = <<>>
    /\ age_ms = [t \in Task |-> 0]
    /\ policy \in Policies
    /\ resets = 0

-----------------------------------------------------------------------------
(* task_aging.rs                                                           *)

Never == MaxAge + 1
threshold_ms(p) ==
    CASE p = Critical \/ policy.kind = "None" -> Never
      [] policy.kind = "Linear" -> policy.base_ms
      [] policy.kind = "Exponential" ->
            CASE p = High   -> policy.base_ms * 2
              [] p = Normal -> policy.base_ms
              [] p = Low    -> policy.base_ms \div 2

promote_priority(p) == IF p = Critical THEN Critical ELSE p + 1

compute_promoted_priority(t) ==
    LET p == PriorityOf[t]
    IN  IF age_ms[t] >= threshold_ms(p) THEN promote_priority(p) ELSE p

(* TaskAge::new *)
Arrive(t) ==
    /\ ~Contains(waiting, t)
    /\ waiting' = Append(waiting, t)
    /\ age_ms' = [age_ms EXCEPT ![t] = 0]
    /\ UNCHANGED <<current_index, policy, resets>>

Age ==
    /\ \E t \in ToSet(waiting) : age_ms[t] < MaxAge
    /\ age_ms' = [t \in Task |->
                    IF Contains(waiting, t) /\ age_ms[t] < MaxAge
                    THEN age_ms[t] + 1 ELSE age_ms[t]]
    /\ UNCHANGED <<current_index, waiting, policy, resets>>

-----------------------------------------------------------------------------
(* time_slice_scheduler.rs                                                 *)

(* The position after this one; the mutant leaves the last five out.       *)
AfterShort(i) == (i + 1) % (RoundLength - Share(Low))
After(i) == (i + 1) % RoundLength

Due(t) == compute_promoted_priority(t) = Slot(current_index)

next_priority ==
    /\ current_index' = After(current_index)
    /\ waiting' = RemoveFirstMatch(waiting, Due)
    /\ UNCHANGED <<age_ms, policy, resets>>

reset_state ==
    /\ resets < MaxResets
    /\ resets' = resets + 1
    /\ current_index' = 0
    /\ UNCHANGED <<waiting, age_ms, policy>>

Next ==
    \/ \E t \in Task : Arrive(t)
    \/ Age
    \/ next_priority
    \/ reset_state

Spec == Init /\ [][Next]_fvars

(* The caller keeps asking for the next slice.                             *)
FairSpec == Spec /\ WF_fvars(next_priority)

-----------------------------------------------------------------------------
(* Properties.                                                             *)

(* "preventing starvation while prioritizing critical work": every task    *)
(* that waits is served, under every aging policy, however the tasks of    *)
(* other priorities keep coming back.                                      *)
NoStarvation ==
    \A t \in Task : Contains(waiting, t) ~> ~Contains(waiting, t)

-----------------------------------------------------------------------------
(* What comments say and the code does not do; README.md, section 5.       *)

(* task_aging.rs: "Low/Normal: promote to High after base_ms".             *)
LinearReachesHigh ==
    policy.kind = "Linear" =>
        \A t \in ToSet(waiting) :
            age_ms[t] >= policy.base_ms => compute_promoted_priority(t) >= High

=============================================================================
