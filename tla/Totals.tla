------------------------------- MODULE Totals -------------------------------
(***************************************************************************)
(* Sums of natural numbers over finite sets, counted rather than folded: a *)
(* sum is the number of the units that are summed.                         *)
(***************************************************************************)
EXTENDS Naturals, FiniteSets

(* One pair for each unit of each member of S.                             *)
Units(amount, S) == UNION { {x} \X (1..amount[x]) : x \in S }

(* The sum of amount[x] over the members x of S.                           *)
Total(amount, S) == Cardinality(Units(amount, S))

=============================================================================
