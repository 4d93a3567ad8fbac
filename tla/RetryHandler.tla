---------------------------- MODULE RetryHandler ----------------------------
(***************************************************************************)
(* RetryHandler::decide (crates/worker/src/retry_handler.rs) and           *)
(* ExitOutcome::is_retryable (crates/core/src/retry.rs).  Backoff delays   *)
(* only separate two steps in time and are left out.                       *)
(***************************************************************************)
LOCAL INSTANCE Naturals

Success == [kind |-> "Success", code |-> 0]
FailedWithCode(c) == [kind |-> "FailedWithCode", code |-> c]
KilledBySignal == [kind |-> "KilledBySignal", code |-> 15]

IsRetryable(outcome, policy) ==
    \/ outcome.kind \in {"KilledBySignal", "TimedOut"}
    \/ /\ outcome.kind = "FailedWithCode"
       /\ \/ policy.retryable_exit_codes = {}
          \/ outcome.code \in policy.retryable_exit_codes

Decide(outcome, policy, attempt) ==
    CASE ~IsRetryable(outcome, policy) -> "Complete"
      [] IsRetryable(outcome, policy) /\ attempt + 1 >= policy.max_attempts ->
             "Abandon"
      [] OTHER -> "Retry"

=============================================================================
