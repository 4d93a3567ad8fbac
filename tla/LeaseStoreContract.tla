------------------------- MODULE LeaseStoreContract -------------------------
(***************************************************************************)
(* What the trait LeaseStore (crates/core/src/traits.rs) promises to the   *)
(* lease manager, whichever store is behind it: one map from tasks to      *)
(* leases, changed by one operation at a time, that survives its clients,  *)
(* and a listing of exactly the Active leases.                             *)
(***************************************************************************)
CONSTANTS Task, Lease, NoLease

VARIABLES
    leases,  \* the map
    listed   \* what the client still has of its answer of active_leases

svars == <<leases, listed>>

Active == {t \in Task : leases[t] # NoLease /\ leases[t].state = "Active"}

Init ==
    /\ leases = [t \in Task |-> NoLease]
    /\ listed = {}

(* "Returns error if one already exists for this task_id."                 *)
Insert(t, lease) ==
    /\ leases[t] = NoLease
    /\ leases' = [leases EXCEPT ![t] = lease]
    /\ UNCHANGED listed

(* "Update an existing lease."                                             *)
Update(t, lease) ==
    /\ leases[t] # NoLease
    /\ leases' = [leases EXCEPT ![t] = lease]
    /\ UNCHANGED listed

Remove(t) ==
    /\ leases' = [leases EXCEPT ![t] = NoLease]
    /\ UNCHANGED listed

(* "Get all active leases."                                                *)
ActiveLeases ==
    /\ listed' = Active
    /\ UNCHANGED leases

(* The client works through its answer, or dies.                           *)
Forget ==
    /\ listed' \in SUBSET listed
    /\ UNCHANGED leases

Next ==
    \/ \E t \in Task :
          \/ \E lease \in Lease : Insert(t, lease) \/ Update(t, lease)
          \/ Remove(t)
    \/ ActiveLeases
    \/ Forget

Spec == Init /\ [][Next]_svars

=============================================================================
