------------------------------- MODULE MCLoad -------------------------------
(***************************************************************************)
(* The instance of Load for TLC.                                           *)
(***************************************************************************)
EXTENDS Load, TLC

CONSTANTS r1, r2, r3, t1, t2, g1

(* Of LoadControl: task 1 is Critical, task 2 Normal and task 3 Low.       *)
Priorities == [t \in Task |-> CASE t = 1 -> Critical [] t = 2 -> 1 [] t = 3 -> Low]

(* A Normal and a Critical task with the same goal, and r1 runs twice; r3  *)
(* is a second runner of t1, whose lease expired while r1 held it.         *)
TaskFor == (r1 :> t1) @@ (r2 :> t2) @@ (r3 :> t1)
RunnerTask == [r \in Runner |-> TaskFor[r]]
TaskGoal == [t \in GuardTask |-> g1]
NormalAndCritical == (t1 :> 1) @@ (t2 :> Critical)
FirstTwice == [r \in Runner |-> IF r = r1 THEN 2 ELSE 1]

(* A Low and a Critical task under each kind of aging.                     *)
LowAndCritical == (t1 :> Low) @@ (t2 :> Critical)
Aging == {[kind |-> k, base_ms |-> 2] : k \in {"None", "Linear", "Exponential"}}

=============================================================================
