--------------------------- MODULE CircuitBreaker ---------------------------
(***************************************************************************)
(* The circuit breaker of crates/core/src/circuit_breaker.rs, shared by    *)
(* concurrent callers.                                                     *)
(*                                                                         *)
(* state(), record_success(), record_failure() and reset() each run under  *)
(* the state mutex and are one step.  call() is several: it reads the      *)
(* state, counts itself in outside the lock when HalfOpen, awaits the      *)
(* request for as long as it takes, and records the result in whatever     *)
(* state the breaker is in by then; it may also be dropped while it waits. *)
(*                                                                         *)
(* Time is the bit `cooled`: at least `timeout` has passed since           *)
(* last_failure_time.  consecutive_successes is never read and left out.   *)
(***************************************************************************)
EXTENDS Integers, FiniteSets

CONSTANTS
    Caller,
    failure_threshold,
    half_open_max_calls,
    half_open_success_threshold,  \* a percentage
    Word,           \* modulus of the counters, 2^32 in the code
    Drops,          \* TRUE: a caller may drop the future it awaits
    DirectReports,  \* TRUE: record_* and reset are also called directly
    MaxSuccesses    \* bound on half_open_successes for direct reports

ASSUME ConfigAssumption ==
    /\ failure_threshold \in Nat \ {0}
    /\ half_open_max_calls \in Nat \ {0}
    /\ half_open_success_threshold \in 0..100
    /\ Word \in Nat /\ Word > half_open_max_calls + 1
    /\ Drops \in BOOLEAN /\ DirectReports \in BOOLEAN
    /\ MaxSuccesses \in Nat

(* A word counts more callers than there are.                              *)
ASSUME CallerAssumption ==
    /\ IsFiniteSet(Caller)
    /\ Word > half_open_max_calls + Cardinality(Caller) + 1

VARIABLES
    state,
    consecutive_failures,
    cooled,
    half_open_calls,
    half_open_successes,
    caller,    \* where each caller is in call()
    probing,   \* history: callers admitted in the current HalfOpen window
    admitted,  \* history: how many were admitted in that window
    probed,    \* history: how many of them have succeeded
    late,      \* history: callers that still have to undo a count of an
               \* earlier window
    returned,  \* history: how many such counts were undone in this window
    plain,     \* history: one call at a time so far, none dropped, and
               \* record_* and reset not called by others
    healthy    \* external: the service answers every request from here on

breaker == <<state, consecutive_failures, cooled, half_open_calls,
             half_open_successes>>
history == <<probing, admitted, probed, late, returned>>
vars == <<state, consecutive_failures, cooled, half_open_calls,
          half_open_successes, caller, probing, admitted, probed, late,
          returned, plain, healthy>>

Init ==
    /\ state = "Closed"
    /\ consecutive_failures = 0
    /\ cooled = TRUE
    /\ half_open_calls = 0
    /\ half_open_successes = 0
    /\ caller = [c \in Caller |-> "idle"]
    /\ probing = {} /\ admitted = 0 /\ probed = 0
    /\ late = {} /\ returned = 0
    /\ plain = TRUE
    /\ healthy = FALSE

-----------------------------------------------------------------------------

(* What state() returns: Open becomes HalfOpen once the timeout is over.   *)
Observed == IF state = "Open" /\ cooled THEN "HalfOpen" ELSE state

(* The history of a new window.                                           *)
NewWindow ==
    /\ probing' = {} /\ admitted' = 0 /\ probed' = 0
    /\ late' = {c \in Caller : caller[c] = "undoing"}
    /\ returned' = 0

(* It is kept while the window is open.                                    *)
WindowHistory ==
    IF state' = "HalfOpen"
    THEN UNCHANGED <<admitted, late, returned>>
    ELSE admitted' = 0 /\ late' = {} /\ returned' = 0

(* What state() does on the way.  The mutant opens the window without      *)
(* clearing what the last one counted.                                     *)
ObserveWithoutReset ==
    IF state = "Open" /\ cooled
    THEN /\ state' = "HalfOpen"
         /\ NewWindow
         /\ UNCHANGED <<consecutive_failures, cooled, half_open_calls,
                        half_open_successes>>
    ELSE UNCHANGED <<breaker, history>>

Observe ==
    IF state = "Open" /\ cooled
    THEN /\ state' = "HalfOpen"
         /\ half_open_calls' = 0
         /\ half_open_successes' = 0
         /\ NewWindow
         /\ UNCHANGED <<consecutive_failures, cooled>>
    ELSE UNCHANGED <<breaker, history>>

(* is_open() and stats() look at the state too.                            *)
Look == Observe /\ UNCHANGED <<caller, plain, healthy>>

(* The first step of call().                                               *)
Call(c) ==
    /\ caller[c] = "idle"
    /\ Observe
    /\ caller' = [caller EXCEPT ![c] =
                     CASE Observed = "Closed" -> "waiting"
                       [] Observed = "HalfOpen" -> "counting"
                       [] OTHER -> "idle"]
    /\ plain' = (plain /\ \A d \in Caller : caller[d] = "idle")
    /\ UNCHANGED healthy

(* half_open_calls.fetch_add(1) + 1, and the comparison.  The mutant       *)
(* lets the caller go ahead whatever the count is.                         *)
CountUnchecked(c) ==
    /\ caller[c] = "counting"
    /\ half_open_calls' = (half_open_calls + 1) % Word
    /\ caller' = [caller EXCEPT ![c] = "waiting"]
    /\ IF state = "HalfOpen"
       THEN probing' = probing \cup {c} /\ admitted' = admitted + 1
       ELSE UNCHANGED <<probing, admitted>>
    /\ UNCHANGED <<state, consecutive_failures, cooled, half_open_successes,
                   probed, late, returned, plain, healthy>>

Count(c) ==
    LET calls == (half_open_calls + 1) % Word
        fits == calls <= half_open_max_calls
    IN  /\ caller[c] = "counting"
        /\ half_open_calls' = calls
        /\ caller' = [caller EXCEPT ![c] = IF fits THEN "waiting" ELSE "undoing"]
        /\ IF fits /\ state = "HalfOpen"
           THEN /\ probing' = probing \cup {c}
                /\ admitted' = admitted + 1
           ELSE UNCHANGED <<probing, admitted>>
        /\ UNCHANGED <<state, consecutive_failures, cooled,
                       half_open_successes, probed, late, returned, plain,
                       healthy>>

(* half_open_calls.fetch_sub(1) of a caller that came too late: perhaps in *)
(* a later window, which has already cleared the count it takes back.      *)
Undo(c) ==
    /\ caller[c] = "undoing"
    /\ half_open_calls' = (half_open_calls - 1) % Word
    /\ caller' = [caller EXCEPT ![c] = "idle"]
    /\ late' = late \ {c}
    /\ returned' = IF c \in late THEN returned + 1 ELSE returned
    /\ UNCHANGED <<state, consecutive_failures, cooled, half_open_successes,
                   probing, admitted, probed, plain, healthy>>

(* record_success: in HalfOpen, once max calls are counted, the share of   *)
(* successes decides.  Mutants: the first success decides; the successes   *)
(* are read before this one is added; any success closes the circuit.      *)
WindowFullAtOnce == half_open_calls > 0
WindowFull == half_open_calls >= half_open_max_calls

EnoughSuccesses(successes, calls) ==
    (successes * 100) \div calls >= half_open_success_threshold

FailuresCleared == consecutive_failures' = 0

RecordSuccessAnyState ==
    /\ state' = "Closed"
    /\ FailuresCleared
    /\ UNCHANGED <<cooled, half_open_calls, half_open_successes>>

RecordSuccess ==
    \/ /\ state = "Closed"
       /\ FailuresCleared
       /\ UNCHANGED <<state, cooled, half_open_calls, half_open_successes>>
    \/ /\ state = "HalfOpen"
       /\ half_open_successes' = half_open_successes + 1
       /\ \/ /\ ~WindowFull
             /\ UNCHANGED <<state, consecutive_failures, cooled>>
          \/ /\ WindowFull
             /\ EnoughSuccesses(half_open_successes + 1, half_open_calls)
             /\ state' = "Closed"
             /\ FailuresCleared
             /\ UNCHANGED cooled
          \/ /\ WindowFull
             /\ ~EnoughSuccesses(half_open_successes + 1, half_open_calls)
             /\ state' = "Open"
             /\ cooled' = FALSE
             /\ UNCHANGED consecutive_failures
       /\ UNCHANGED half_open_calls
    \/ /\ state = "Open"
       /\ UNCHANGED breaker

(* record_failure: counts when Closed, trips when HalfOpen, and restarts   *)
(* the timeout in every state.                                             *)
RecordFailure ==
    /\ cooled' = FALSE
    /\ \/ /\ state = "Closed"
          /\ consecutive_failures' = consecutive_failures + 1
          /\ state' = IF consecutive_failures + 1 >= failure_threshold
                      THEN "Open" ELSE "Closed"
          /\ UNCHANGED <<half_open_calls, half_open_successes>>
       \/ /\ state = "HalfOpen"
          /\ state' = "Open"
          /\ half_open_calls' = 0
          /\ half_open_successes' = 0
          /\ UNCHANGED consecutive_failures
       \/ /\ state = "Open"
          /\ UNCHANGED <<state, consecutive_failures, half_open_calls,
                         half_open_successes>>

(* The awaited request ends and call() records it.                         *)
Succeed(c) ==
    /\ caller[c] = "waiting"
    /\ RecordSuccess
    /\ caller' = [caller EXCEPT ![c] = "idle"]
    /\ probed' = IF c \in probing THEN probed + 1 ELSE probed
    /\ probing' = probing \ {c}
    /\ WindowHistory
    /\ UNCHANGED <<plain, healthy>>

Err(c) ==
    /\ caller[c] = "waiting"
    /\ ~healthy
    /\ RecordFailure
    /\ caller' = [caller EXCEPT ![c] = "idle"]
    /\ probing' = probing \ {c}
    /\ WindowHistory
    /\ UNCHANGED <<probed, plain, healthy>>

(* The future of call() is dropped: nothing is recorded.                   *)
Drop(c) ==
    /\ Drops
    /\ caller[c] = "waiting"
    /\ caller' = [caller EXCEPT ![c] = "idle"]
    /\ probing' = probing \ {c}
    /\ plain' = FALSE
    /\ UNCHANGED <<breaker, admitted, probed, late, returned, healthy>>

(* record_success, record_failure and reset called by themselves.          *)
ReportSuccess ==
    /\ DirectReports /\ half_open_successes < MaxSuccesses
    /\ RecordSuccess
    /\ plain' = FALSE
    /\ WindowHistory
    /\ UNCHANGED <<caller, probing, probed, healthy>>

ReportFailure ==
    /\ DirectReports
    /\ RecordFailure
    /\ plain' = FALSE
    /\ WindowHistory
    /\ UNCHANGED <<caller, probing, probed, healthy>>

Reset ==
    /\ DirectReports
    /\ state' = "Closed"
    /\ FailuresCleared
    /\ half_open_calls' = 0
    /\ half_open_successes' = 0
    /\ plain' = FALSE
    /\ WindowHistory
    /\ UNCHANGED <<cooled, caller, probing, probed, healthy>>

(* The timeout since the last failure runs out.                            *)
Cool ==
    /\ ~cooled
    /\ cooled' = TRUE
    /\ UNCHANGED <<state, consecutive_failures, half_open_calls,
                   half_open_successes, caller, history, plain, healthy>>

(* The service recovers: from here on requests only succeed.               *)
Heal ==
    /\ ~healthy
    /\ healthy' = TRUE
    /\ UNCHANGED <<breaker, caller, history, plain>>

Next ==
    \/ \E c \in Caller :
           Call(c) \/ Count(c) \/ Undo(c) \/ Succeed(c) \/ Err(c) \/ Drop(c)
    \/ ReportSuccess \/ ReportFailure \/ Reset
    \/ Look \/ Cool \/ Heal

Spec == Init /\ [][Next]_vars

(* Time passes, callers keep calling, and a request they await comes to an *)
(* end: the transports behind it answer or fail.                           *)
Fairness ==
    /\ WF_vars(Cool)
    /\ \A c \in Caller :
           /\ WF_vars(Call(c) \/ Count(c) \/ Undo(c))
           /\ WF_vars(Succeed(c) \/ Err(c) \/ Drop(c))

FairSpec == Spec /\ Fairness

-----------------------------------------------------------------------------
(* Properties.                                                             *)

(* Types; the counters of calls is a word.                                 *)
TypeOK ==
    /\ state \in {"Closed", "Open", "HalfOpen"}
    /\ consecutive_failures \in Nat
    /\ cooled \in BOOLEAN
    /\ half_open_calls \in 0..(Word - 1)
    /\ half_open_successes \in Nat
    /\ caller \in [Caller -> {"idle", "counting", "undoing", "waiting"}]
    /\ probing \in SUBSET Caller
    /\ admitted \in Nat /\ probed \in Nat
    /\ late \in SUBSET Caller /\ returned \in Nat
    /\ plain \in BOOLEAN /\ healthy \in BOOLEAN

(* The breaker cannot stay Closed with the threshold reached: every way    *)
(* back to Closed clears the failures, and the count trips in time.        *)
ClosedBelowThreshold ==
    state = "Closed" => consecutive_failures < failure_threshold

(* Open is left only for HalfOpen, and only after the timeout, or by an    *)
(* explicit reset: late answers to old requests do not reopen the service. *)
OpenWaitsForTimeout ==
    [][state = "Open" /\ state' # "Open" =>
          \/ state' = "HalfOpen" /\ cooled
          \/ Reset]_vars

(* "Maximum number of requests allowed in HalfOpen state", with callers    *)
(* that overlap, drop their requests and report by themselves: a window    *)
(* admits no more than half_open_max_calls requests, and one more for each *)
(* caller that was turned away from an earlier window and takes its count  *)
(* back in this one.  fetch_add, the comparison and fetch_sub keep it,     *)
(* although none of them is under the lock.                                *)
ProbesLimited ==
    state = "HalfOpen" => admitted <= half_open_max_calls + returned

(* What the field's comment says, without the late callers: TLC refutes    *)
(* it.                                                                     *)
ProbesStrictlyLimited == state = "HalfOpen" => admitted <= half_open_max_calls

(* "67% success = at least 2 of 3 succeed": a HalfOpen window that two     *)
(* thirds of its calls have passed is not opened again by a success.  TLC  *)
(* refutes it with the default limits (3 calls, 67 percent): two of three  *)
(* are 66 percent in integers.                                             *)
TwoOfThreeClose ==
    [][\A c \in Caller :
          Succeed(c) /\ state = "HalfOpen"
          /\ 3 * half_open_successes' >= 2 * half_open_calls
          => state' # "Open"]_vars

(* The next two are about callers that take turns: one call at a time,     *)
(* awaited to its end, and the breaker used through call() only.  With     *)
(* overlapping calls neither holds.                                        *)

(* "Percentage of successes needed in HalfOpen to close the circuit": the  *)
(* successes that close it are those of requests admitted in HalfOpen.     *)
ClosedByProbes ==
    [][plain' /\ state = "HalfOpen" /\ state' = "Closed" =>
          probed' * 100 >= half_open_success_threshold * half_open_max_calls]_vars

(* "Testing if service recovered": over a healthy service that callers     *)
(* keep using, the breaker closes again.                                   *)
Recovers == healthy ~> (state = "Closed" \/ ~plain)

=============================================================================
