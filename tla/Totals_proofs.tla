---------------------------- MODULE Totals_proofs ---------------------------
(***************************************************************************)
(* What makes Total a sum: it is a natural number, zero for no member,     *)
(* grows by the amount of a new member, is no larger for fewer members,    *)
(* and depends on the amounts of the members only.                         *)
(***************************************************************************)
EXTENDS Totals, Integers, FiniteSetTheorems, TLAPS

(* One member has as many units as its amount.                             *)
LEMMA UnitsOfOne ==
    ASSUME NEW x, NEW n \in Nat
    PROVE  /\ IsFiniteSet({x} \X (1..n))
           /\ Cardinality({x} \X (1..n)) = n
<1>1. IsFiniteSet(1..n) /\ Cardinality(1..n) = n
  BY FS_Interval, SMTT(30)
<1>2. IsFiniteSet({x}) /\ Cardinality({x}) = 1
  BY FS_Singleton
<1>3. /\ IsFiniteSet({x} \X (1..n))
      /\ Cardinality({x} \X (1..n)) = Cardinality({x}) * Cardinality(1..n)
  BY <1>1, <1>2, FS_Product, Zenon
<1> QED
  BY <1>1, <1>2, <1>3

(* A finite set has finitely many units.                                   *)
LEMMA UnitsFinite ==
    ASSUME NEW S, IsFiniteSet(S), NEW amount, \A x \in S : amount[x] \in Nat
    PROVE  IsFiniteSet(Units(amount, S))
<1> DEFINE box == [x \in S |-> {x} \X (1..amount[x])]
           boxes == {{x} \X (1..amount[x]) : x \in S}
<1>1. box \in Surjection(S, boxes)
  <2>1. box \in [S -> boxes]
    BY Zenon
  <2>2. \A b \in boxes : \E x \in S : box[x] = b
    BY Zenon
  <2> QED
    BY <2>1, <2>2, Zenon DEF Surjection
<1>2. IsFiniteSet(boxes)
  BY <1>1, FS_Surjection, Zenon
<1>3. \A b \in boxes : IsFiniteSet(b)
  <2> SUFFICES ASSUME NEW x \in S PROVE IsFiniteSet({x} \X (1..amount[x]))
    BY Zenon
  <2> QED
    BY UnitsOfOne
<1>4. IsFiniteSet(UNION boxes)
  BY <1>2, <1>3, FS_UNION, Zenon
<1> QED
  BY <1>4, Zenon DEF Units

(* A sum is a natural number.                                              *)
LEMMA TotalType ==
    ASSUME NEW S, IsFiniteSet(S), NEW amount, \A x \in S : amount[x] \in Nat
    PROVE  Total(amount, S) \in Nat
BY UnitsFinite, FS_CardinalityType DEF Total

(* The sum over no member is zero.                                         *)
LEMMA TotalEmpty ==
    ASSUME NEW amount
    PROVE  Total(amount, {}) = 0
<1>1. Units(amount, {}) = {}
  BY Zenon DEF Units
<1> QED
  BY <1>1, FS_EmptySet DEF Total

(* A new member adds its amount.                                           *)
LEMMA TotalAdd ==
    ASSUME NEW S, IsFiniteSet(S), NEW x, x \notin S,
           NEW amount, \A y \in S \cup {x} : amount[y] \in Nat
    PROVE  Total(amount, S \cup {x}) = Total(amount, S) + amount[x]
<1> DEFINE box == {x} \X (1..amount[x])
<1>1. Units(amount, S \cup {x}) = Units(amount, S) \cup box
  BY Zenon DEF Units
<1>2. Units(amount, S) \cap box = {}
  <2> SUFFICES ASSUME NEW p \in Units(amount, S), p \in box PROVE FALSE
    OBVIOUS
  <2>1. PICK y \in S : p \in {y} \X (1..amount[y])
    BY Zenon DEF Units
  <2>2. p[1] = y /\ p[1] = x
    BY <2>1
  <2> QED
    BY <2>2
<1>3. IsFiniteSet(Units(amount, S)) /\ Cardinality(Units(amount, S)) \in Nat
  BY UnitsFinite, FS_CardinalityType
<1>4. IsFiniteSet(box) /\ Cardinality(box) = amount[x] /\ amount[x] \in Nat
  <2>1. amount[x] \in Nat
    OBVIOUS
  <2> QED
    BY <2>1, UnitsOfOne
<1>5. Cardinality({}) = 0
  BY FS_EmptySet
<1>6. Cardinality(Units(amount, S) \cup box) =
          Cardinality(Units(amount, S)) + Cardinality(box)
              - Cardinality(Units(amount, S) \cap box)
  BY <1>3, <1>4, FS_Union, Zenon
<1>7. Cardinality(Units(amount, S \cup {x})) =
          Cardinality(Units(amount, S)) + amount[x] - 0
  BY <1>1, <1>2, <1>4, <1>5, <1>6, Zenon
<1> QED
  BY <1>3, <1>4, <1>7 DEF Total

(* Fewer members have no larger sum.                                       *)
LEMMA TotalMonotone ==
    ASSUME NEW S, IsFiniteSet(S), NEW R \in SUBSET S,
           NEW amount, \A x \in S : amount[x] \in Nat
    PROVE  Total(amount, R) <= Total(amount, S) /\ Total(amount, R) \in Nat
<1>1. Units(amount, R) \subseteq Units(amount, S)
  BY Zenon DEF Units
<1>2. IsFiniteSet(R)
  BY FS_Subset
<1>3. Total(amount, R) \in Nat
  BY <1>2, TotalType
<1>4. IsFiniteSet(Units(amount, S))
  BY UnitsFinite
<1> QED
  BY <1>1, <1>3, <1>4, FS_Subset DEF Total

(* Amounts that agree on the members have the same sum.                    *)
LEMMA TotalSame ==
    ASSUME NEW S, NEW f, NEW g, \A x \in S : f[x] = g[x]
    PROVE  Total(f, S) = Total(g, S)
<1>1. Units(f, S) = Units(g, S)
  BY Zenon DEF Units
<1> QED
  BY <1>1 DEF Total

(* Members without an amount have no sum.                                  *)
LEMMA TotalOfZeros ==
    ASSUME NEW S, NEW amount, \A x \in S : amount[x] = 0
    PROVE  Total(amount, S) = 0
<1>1. \A x \in S : 1..amount[x] = {}
  OBVIOUS
<1>2. Units(amount, S) = {}
  BY <1>1 DEF Units
<1> QED
  BY <1>2, FS_EmptySet DEF Total

(* A member whose amount changes changes the sum by as much.               *)
LEMMA TotalChange ==
    ASSUME NEW S, IsFiniteSet(S), NEW x \in S,
           NEW f, \A y \in S : f[y] \in Nat,
           NEW g, \A y \in S : g[y] \in Nat,
           \A y \in S \ {x} : f[y] = g[y]
    PROVE  Total(g, S) + f[x] = Total(f, S) + g[x]
<1> DEFINE rest == S \ {x}
<1>1. IsFiniteSet(rest) /\ x \notin rest /\ rest \cup {x} = S
  BY FS_Subset
<1>2. Total(f, rest) = Total(g, rest) /\ Total(g, rest) \in Nat
  BY <1>1, TotalSame, TotalType
<1>3. /\ Total(f, rest \cup {x}) = Total(f, rest) + f[x]
      /\ Total(g, rest \cup {x}) = Total(g, rest) + g[x]
  BY <1>1, TotalAdd
<1>4. f[x] \in Nat /\ g[x] \in Nat
  OBVIOUS
<1>5. /\ Total(f, S) = Total(g, rest) + f[x]
      /\ Total(g, S) = Total(g, rest) + g[x]
  BY <1>1, <1>2, <1>3, Zenon
<1> HIDE DEF rest
<1> QED
  BY <1>2, <1>4, <1>5

=============================================================================
