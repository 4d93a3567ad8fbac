----------------------------- MODULE MCDagBatch -----------------------------
(***************************************************************************)
(* The instance of DagBatch for TLC.                                       *)
(***************************************************************************)
EXTENDS MCDag, DagBatch

(* A diamond with a tail and a self edge that enqueue must refuse; two     *)
(* tasks compete for the pool and two need nothing of it.                  *)
BatchSubmissions ==
    { Submit(1, <<>>, 1, Need(0, 0)),
      Submit(2, <<1>>, 0, Need(2, 1)),
      Submit(3, <<1>>, 3, Need(1, 1)),
      Submit(4, <<2, 3>>, 1, Need(0, 2)),
      Submit(5, <<5>>, 2, Need(0, 0)), Submit(5, <<3>>, 2, Need(0, 0)) }

=============================================================================
