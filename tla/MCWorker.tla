------------------------------ MODULE MCWorker ------------------------------
(***************************************************************************)
(* Instances of WorkerRuntime for TLC.                                     *)
(***************************************************************************)
EXTENDS WorkerRuntime

CONSTANTS w1, w2, t1

(* Two attempts; exit code 1 is retryable and code 2 is not.               *)
TwoAttempts == [max_attempts |-> 2, retryable_exit_codes |-> {1}]

=============================================================================
