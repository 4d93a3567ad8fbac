------------------------------- MODULE Lease -------------------------------
(***************************************************************************)
(* Leases (crates/core/src/lease.rs) and what LeaseManager and             *)
(* InMemoryLeaseStore (crates/worker/src/lease_manager.rs) do to one.      *)
(*                                                                         *)
(* Time is kept as one bit per lease: `expired` says that now is past      *)
(* expires_at.  Time may pass at any moment, and renewing clears the bit.  *)
(***************************************************************************)
(* What the store's map holds for a task without a lease.                  *)
NoLease == [state |-> "None", worker_id |-> "none", attempt |-> 0,
            expired |-> FALSE]

(* Lease::new; the state becomes Completed, Failed, Expired or Cancelled.  *)
NewLease(w, attempt) ==
    [state |-> "Active", worker_id |-> w, attempt |-> attempt,
     expired |-> FALSE]

Leased(lease) == lease.state # "None"
IsActive(lease) == lease.state = "Active"

(* active_leases keeps the Active ones, is_expired compares the clock; the *)
(* mutant compares the other way round.                                    *)
ReapableEarly(lease) == IsActive(lease) /\ ~lease.expired
Reapable(lease) == IsActive(lease) /\ lease.expired

(* Lease::renew changes the expiry and nothing else: not the state.        *)
Renewed(lease) == [lease EXCEPT !.expired = FALSE]

(* LeaseManager::complete, fail, cancel and collect_expired write back the *)
(* copy they read with another state, whatever its state was.              *)
WithState(lease, state) == [lease EXCEPT !.state = state]

=============================================================================
