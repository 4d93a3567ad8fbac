-------------------------- MODULE ExecutorContract --------------------------
(***************************************************************************)
(* What execute_task relies on when it awaits ProcessExecutor::execute     *)
(* (crates/worker/src/worker_runtime.rs), whichever executor it was given: *)
(* each call returns, once, and reports a success only of a task of which  *)
(* some attempt did end with code 0.                                       *)
(***************************************************************************)
EXTENDS Naturals

CONSTANTS Task, Code

VARIABLES
    phase,     \* "idle", "executing" or "returned", of each task
    succeeded, \* did the call that has returned report Success?
    produced   \* the exit codes attempts of the task have really ended with

cvars == <<phase, succeeded, produced>>

Init ==
    /\ phase = [t \in Task |-> "idle"]
    /\ succeeded = [t \in Task |-> FALSE]
    /\ produced = [t \in Task |-> {}]

Call(t) ==
    /\ phase[t] = "idle"
    /\ phase' = [phase EXCEPT ![t] = "executing"]
    /\ UNCHANGED <<succeeded, produced>>

Produce(t, code) ==
    /\ produced' = [produced EXCEPT ![t] = @ \cup {code}]
    /\ UNCHANGED <<phase, succeeded>>

Return(t, success) ==
    /\ phase[t] = "executing"
    /\ success => 0 \in produced[t]
    /\ phase' = [phase EXCEPT ![t] = "returned"]
    /\ succeeded' = [succeeded EXCEPT ![t] = success]
    /\ UNCHANGED produced

(* The runtime comes back with a task that did not succeed: a retry, or a  *)
(* lease that expired.                                                     *)
Again(t) ==
    /\ phase[t] = "returned" /\ ~succeeded[t]
    /\ phase' = [phase EXCEPT ![t] = "idle"]
    /\ UNCHANGED <<succeeded, produced>>

Next ==
    \E t \in Task :
        \/ Call(t)
        \/ \E code \in Code : Produce(t, code)
        \/ \E success \in BOOLEAN : Return(t, success)
        \/ Again(t)

Safety == Init /\ [][Next]_cvars

Spec ==
    /\ Safety
    /\ \A t \in Task : WF_cvars(\E success \in BOOLEAN : Return(t, success))

=============================================================================
