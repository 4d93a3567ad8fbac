------------------------------ MODULE MCStores ------------------------------
(***************************************************************************)
(* The instance of Stores for TLC.                                         *)
(***************************************************************************)
EXTENDS Stores, TLC

CONSTANTS tiny, small, medium, large, t1

(* Two that fit together, one that needs the room of both less one, and    *)
(* one that is larger than the budget of three.                            *)
Sizes == (tiny :> 1) @@ (small :> 1) @@ (medium :> 2) @@ (large :> 4)

Builder(goal, toolchain) ==
    [repo_sha |-> <<"s">>, goal |-> goal, toolchain |-> toolchain,
     env |-> << <<<<"K">>, <<"v">>>> >>]

(* The same characters, split differently; and a goal that is a pipeline.  *)
PlainInputs == {Builder(<<"x", "y">>, <<>>), Builder(<<"x">>, <<"y">>)}
PipedInputs == {Builder(<<"x", "|", "y">>, <<>>), Builder(<<"x">>, <<"y", "|">>)}

(* Keys of inputs without separators in them differ.                       *)
ASSUME PlainKeysSeparate ==
    \A i, j \in PlainInputs : Cache!build(i) = Cache!build(j) => i = j

(* cache_key.rs: "stable, deterministic cache keys for task execution":    *)
(* refuted by inputs with a separator in them.                             *)
PipedKeysSeparate ==
    \A i, j \in PipedInputs : Cache!build(i) = Cache!build(j) => i = j

=============================================================================
