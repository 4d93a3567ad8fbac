--------------------------- MODULE MCCoordinator ---------------------------
(***************************************************************************)
(* Instances of Coordinator for TLC.                                       *)
(***************************************************************************)
EXTENDS Coordinator, TLC

CONSTANTS n1, n2, t1, k1

(* Nodes are interchangeable in the run that has two of them.              *)
Nodes == Permutations(Node)

=============================================================================
