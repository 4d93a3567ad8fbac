------------------------ MODULE CircuitBreaker_proofs ------------------------
(***************************************************************************)
(* Proofs about CircuitBreaker for any number of callers, any thresholds   *)
(* and any word size.  ClosedBelowThreshold is inductive together with the *)
(* types; OpenWaitsForTimeout needs no invariant; how many requests a      *)
(* HalfOpen window admits follows from LimitInv, which keeps the counter's *)
(* books; what callers that take turns can rely on from PlainInv.          *)
(***************************************************************************)
EXTENDS CircuitBreaker, FiniteSetTheorems, TLAPS

IInv == TypeOK /\ ClosedBelowThreshold

(* A counter that has wrapped is a word again.                             *)
LEMMA WordMod ==
    ASSUME NEW n \in Int
    PROVE  n % Word \in 0..(Word - 1)
BY ConfigAssumption

(* Reading the state keeps the breaker's types and opens no closed breaker *)
(* (state() of the code).                                                  *)
LEMMA ObserveKeeps ==
    ASSUME IInv, Observe
    PROVE  /\ state' \in {"Closed", "Open", "HalfOpen"}
           /\ consecutive_failures' \in Nat
           /\ cooled' \in BOOLEAN
           /\ half_open_calls' \in 0..(Word - 1)
           /\ half_open_successes' \in Nat
           /\ probing' \in SUBSET Caller
           /\ admitted' \in Nat /\ probed' \in Nat
           /\ late' \in SUBSET Caller /\ returned' \in Nat
           /\ ClosedBelowThreshold'
BY ConfigAssumption
   DEF IInv, TypeOK, ClosedBelowThreshold, Observe, NewWindow, breaker, history

(* The history of a window is typed, kept or cleared.                      *)
LEMMA WindowKeeps ==
    ASSUME IInv, WindowHistory
    PROVE  /\ admitted' \in Nat
           /\ late' \in SUBSET Caller
           /\ returned' \in Nat
BY DEF IInv, TypeOK, WindowHistory

(* So does recording a success (record_success of the code).               *)
LEMMA RecordSuccessKeeps ==
    ASSUME IInv, RecordSuccess
    PROVE  /\ state' \in {"Closed", "Open", "HalfOpen"}
           /\ consecutive_failures' \in Nat
           /\ cooled' \in BOOLEAN
           /\ half_open_calls' \in 0..(Word - 1)
           /\ half_open_successes' \in Nat
           /\ ClosedBelowThreshold'
<1>1. cooled' \in BOOLEAN
    BY Zenon DEF IInv, TypeOK, RecordSuccess, breaker
<1> QED
    BY <1>1, ConfigAssumption
       DEF IInv, TypeOK, ClosedBelowThreshold, RecordSuccess, FailuresCleared,
           breaker

(* And recording a failure: below the threshold the breaker stays Closed,  *)
(* at the threshold it opens (record_failure of the code).                 *)
LEMMA RecordFailureKeeps ==
    ASSUME IInv, RecordFailure
    PROVE  /\ state' \in {"Closed", "Open", "HalfOpen"}
           /\ consecutive_failures' \in Nat
           /\ cooled' \in BOOLEAN
           /\ half_open_calls' \in 0..(Word - 1)
           /\ half_open_successes' \in Nat
           /\ ClosedBelowThreshold'
<1>1. cooled' \in BOOLEAN
    BY Zenon DEF RecordFailure
<1> QED
    BY <1>1, ConfigAssumption
       DEF IInv, TypeOK, ClosedBelowThreshold, RecordFailure

LEMMA InitInv == Init => IInv
<1> SUFFICES ASSUME Init
             PROVE  IInv
    OBVIOUS
<1>1. cooled \in BOOLEAN /\ healthy \in BOOLEAN
    BY Zenon DEF Init
<1> QED
    BY <1>1, ConfigAssumption DEF Init, IInv, TypeOK, ClosedBelowThreshold

LEMMA NextInv == IInv /\ [Next]_vars => IInv'
<1> SUFFICES ASSUME IInv, [Next]_vars
             PROVE  IInv'
    OBVIOUS
<1>a. ASSUME NEW c \in Caller, Call(c)
      PROVE  IInv'
    <2>1. caller' \in [Caller -> {"idle", "counting", "undoing", "waiting"}]
        BY <1>a DEF Call, IInv, TypeOK
    <2> QED
        BY <1>a, <2>1, ObserveKeeps DEF Call, IInv, TypeOK
<1>b. ASSUME NEW c \in Caller, Count(c)
      PROVE  IInv'
    <2>1. (half_open_calls + 1) % Word \in 0..(Word - 1)
        BY WordMod, ConfigAssumption DEF IInv, TypeOK
    <2> QED
        BY <1>b, <2>1 DEF Count, IInv, TypeOK, ClosedBelowThreshold
<1>c. ASSUME NEW c \in Caller, Undo(c)
      PROVE  IInv'
    <2>1. (half_open_calls - 1) % Word \in 0..(Word - 1)
        BY WordMod, ConfigAssumption DEF IInv, TypeOK
    <2> QED
        BY <1>c, <2>1 DEF Undo, IInv, TypeOK, ClosedBelowThreshold, history
<1>d. ASSUME NEW c \in Caller, Succeed(c)
      PROVE  IInv'
    BY <1>d, RecordSuccessKeeps, WindowKeeps DEF Succeed, IInv, TypeOK
<1>e. ASSUME NEW c \in Caller, Err(c)
      PROVE  IInv'
    BY <1>e, RecordFailureKeeps, WindowKeeps DEF Err, IInv, TypeOK
<1>f. ASSUME NEW c \in Caller, Drop(c)
      PROVE  IInv'
    BY <1>f DEF Drop, IInv, TypeOK, ClosedBelowThreshold, breaker
<1>g. CASE ReportSuccess
    BY <1>g, RecordSuccessKeeps, WindowKeeps DEF ReportSuccess, IInv, TypeOK
<1>h. CASE ReportFailure
    BY <1>h, RecordFailureKeeps, WindowKeeps DEF ReportFailure, IInv, TypeOK
<1>i. CASE Reset
    <2>1. plain' \in BOOLEAN /\ healthy' \in BOOLEAN /\ cooled' \in BOOLEAN
        BY <1>i, Zenon DEF Reset, IInv, TypeOK
    <2> QED
        BY <1>i, <2>1, WindowKeeps, ConfigAssumption
           DEF Reset, FailuresCleared, IInv, TypeOK, ClosedBelowThreshold
<1>j. CASE Look
    BY <1>j, ObserveKeeps DEF Look, IInv, TypeOK
<1>k. CASE Cool
    BY <1>k DEF Cool, IInv, TypeOK, ClosedBelowThreshold, history
<1>l. CASE Heal
    BY <1>l DEF Heal, IInv, TypeOK, ClosedBelowThreshold, breaker, history
<1>m. CASE UNCHANGED vars
    BY <1>m DEF vars, IInv, TypeOK, ClosedBelowThreshold
<1> QED
    BY <1>a, <1>b, <1>c, <1>d, <1>e, <1>f, <1>g, <1>h, <1>i, <1>j, <1>k,
       <1>l, <1>m DEF Next

(* The inductive invariant of the breaker.                                 *)
THEOREM Invariance == Spec => []IInv
BY InitInv, NextInv, PTL DEF Spec

(* Every reachable state is well typed: the call counter stays a word      *)
(* however the callers' fetch_add and fetch_sub interleave with resets.    *)
THEOREM TypeCorrect == Spec => []TypeOK
<1>1. IInv => TypeOK
    BY DEF IInv
<1> QED
    BY <1>1, Invariance, PTL

(* For every number of callers and every threshold, a Closed breaker has   *)
(* counted fewer failures than the threshold: record_failure trips in time *)
(* and every way back to Closed clears the count.                          *)
THEOREM TripsInTime == Spec => []ClosedBelowThreshold
<1>1. IInv => ClosedBelowThreshold
    BY DEF IInv
<1> QED
    BY <1>1, Invariance, PTL

(* Open is left only for HalfOpen after the timeout, or by reset(): no     *)
(* late answer to an old request closes the breaker.                       *)
THEOREM TimeoutRespected == Spec => OpenWaitsForTimeout
<1>1. [Next]_vars => [state = "Open" /\ state' # "Open" =>
                          \/ state' = "HalfOpen" /\ cooled
                          \/ Reset]_vars
    <2> SUFFICES ASSUME Next, state = "Open", state' # "Open", ~Reset
                 PROVE  state' = "HalfOpen" /\ cooled
        BY DEF vars
    <2>1. ASSUME Observe
          PROVE  state' = "HalfOpen" /\ cooled
        BY <2>1 DEF Observe, breaker
    <2>2. ~RecordSuccess
        BY DEF RecordSuccess, breaker
    <2>3. ~RecordFailure
        BY DEF RecordFailure
    <2> QED
        BY <2>1, <2>2, <2>3 DEF Next, Call, Count, Undo, Succeed, Err, Drop,
           ReportSuccess, ReportFailure, Look, Cool, Heal, breaker
<1> QED
    BY <1>1, PTL DEF Spec, OpenWaitsForTimeout

-----------------------------------------------------------------------------
(* How many requests a window admits.                                      *)

Undoing == {c \in Caller : caller[c] = "undoing"}

(* What half_open_calls stands for: the requests admitted, the callers of  *)
(* this window that have yet to take their count back, less the counts of  *)
(* earlier windows that were taken back in this one.                       *)
Net == admitted + Cardinality(Undoing \ late) - returned

(* The counter is that number, as a word when it is negative.              *)
LimitInv ==
    state = "HalfOpen" =>
        /\ late \subseteq Undoing
        /\ returned + Cardinality(late) <= Cardinality(Caller)
        /\ admitted <= half_open_max_calls + returned
        /\ half_open_calls = IF Net < 0 THEN Net + Word ELSE Net

(* A counter one step from a word is the word it should be.                *)
LEMMA WordStep ==
    /\ \A n \in 0..(Word - 1) : n % Word = n
    /\ Word % Word = 0
    /\ (-1) % Word = Word - 1
BY ConfigAssumption

(* The sets of callers are finite, and no larger than Caller.              *)
LEMMA CallersFinite ==
    ASSUME NEW S \in SUBSET Caller
    PROVE  /\ IsFiniteSet(S)
           /\ Cardinality(S) \in Nat
           /\ Cardinality(S) <= Cardinality(Caller)
BY FS_Subset, FS_CardinalityType, CallerAssumption

(* How far the counter can be from the number of admissions.               *)
LEMMA NetBounds ==
    ASSUME IInv, LimitInv, state = "HalfOpen"
    PROVE  /\ Net \in Int
           /\ Cardinality(Caller) \in Nat
           /\ -Cardinality(Caller) <= Net
           /\ Net <= half_open_max_calls + Cardinality(Caller)
<1>1. /\ Cardinality(Undoing \ late) \in Nat
      /\ Cardinality(Undoing \ late) <= Cardinality(Caller)
    BY CallersFinite DEF Undoing
<1>2. Cardinality(late) \in Nat
    BY CallersFinite DEF IInv, TypeOK
<1>3. Cardinality(Caller) \in Nat
    BY FS_CardinalityType, CallerAssumption
<1>4. /\ returned + Cardinality(late) <= Cardinality(Caller)
      /\ admitted <= half_open_max_calls + returned
      /\ admitted \in Nat /\ returned \in Nat
    BY DEF LimitInv, IInv, TypeOK
<1> QED
    BY <1>1, <1>2, <1>3, <1>4, ConfigAssumption DEF Net

(* A step that leaves the window, its counter and the callers that undo as *)
(* they are keeps LimitInv.                                                *)
LEMMA LimitKept ==
    ASSUME LimitInv,
           state' = "HalfOpen" =>
               /\ state = "HalfOpen"
               /\ UNCHANGED <<half_open_calls, admitted, late, returned>>
               /\ Undoing' = Undoing
    PROVE  LimitInv'
BY DEF LimitInv, Net

(* Reading the state keeps it: a window that opens begins at zero, and     *)
(* whoever still has to undo is late (state() of the code).                *)
LEMMA ObserveLimit ==
    ASSUME IInv, LimitInv, Observe, Undoing' = Undoing
    PROVE  LimitInv'
<1>1. CASE state = "Open" /\ cooled
    <2>1. late' = Undoing
        BY <1>1 DEF Observe, NewWindow, Undoing
    <2>2. Undoing' \ late' = {}
        BY <2>1
    <2>3. Cardinality(Undoing' \ late') = 0
        BY <2>2, FS_EmptySet
    <2>4. admitted' = 0 /\ returned' = 0 /\ half_open_calls' = 0
        BY <1>1 DEF Observe, NewWindow
    <2>5. Net' = 0
        BY <2>3, <2>4 DEF Net
    <2>6. /\ Cardinality(late') \in Nat
          /\ Cardinality(late') <= Cardinality(Caller)
        BY <2>1, CallersFinite DEF Undoing
    <2> QED
        BY <2>1, <2>4, <2>5, <2>6, ConfigAssumption DEF LimitInv
<1>2. CASE ~(state = "Open" /\ cooled)
    BY <1>2, LimitKept DEF Observe, breaker, history
<1> QED
    BY <1>1, <1>2

(* fetch_add and the comparison keep it: a caller goes ahead only below    *)
(* the limit (call of the code).                                           *)
LEMMA CountLimit ==
    ASSUME IInv, LimitInv, NEW c \in Caller, Count(c)
    PROVE  LimitInv'
<1>1. SUFFICES ASSUME state = "HalfOpen"
               PROVE  LimitInv'
    BY DEF Count, LimitInv
<1> DEFINE calls == (half_open_calls + 1) % Word
           fits == calls <= half_open_max_calls
<1>2. /\ Net \in Int
      /\ Cardinality(Caller) \in Nat
      /\ -Cardinality(Caller) <= Net
      /\ Net <= half_open_max_calls + Cardinality(Caller)
    BY <1>1, NetBounds
<1>3. half_open_calls = IF Net < 0 THEN Net + Word ELSE Net
    BY <1>1 DEF LimitInv
<1>4. calls = IF Net + 1 < 0 THEN Net + 1 + Word ELSE Net + 1
    <2>1. CASE Net >= 0
        <3>1. Net + 1 \in 0..(Word - 1)
            BY <1>2, <2>1, ConfigAssumption, CallerAssumption
        <3> QED
            BY <1>2, <1>3, <2>1, <3>1, WordStep
    <2>2. CASE Net = -1
        <3>1. half_open_calls + 1 = Word
            BY <1>3, <2>2, ConfigAssumption, CallerAssumption
        <3> QED
            BY <2>2, <3>1, WordStep
    <2>3. CASE Net < -1
        <3>1. Net + Word + 1 \in 0..(Word - 1)
            BY <1>2, <2>3, ConfigAssumption, CallerAssumption
        <3>2. half_open_calls + 1 = Net + Word + 1
            BY <1>2, <1>3, <2>3, ConfigAssumption
        <3>3. calls = Net + Word + 1
            BY <3>1, <3>2, WordStep
        <3> QED
            BY <1>2, <2>3, <3>3, ConfigAssumption
    <2> QED
        BY <1>2, <2>1, <2>2, <2>3
<1>5. /\ state' = "HalfOpen" /\ late' = late /\ returned' = returned
      /\ half_open_calls' = calls
      /\ caller' = [caller EXCEPT ![c] = IF fits THEN "waiting" ELSE "undoing"]
      /\ admitted' = IF fits THEN admitted + 1 ELSE admitted
    BY <1>1, Zenon DEF Count
<1>6. c \notin Undoing /\ c \notin late
    BY <1>1 DEF Count, LimitInv, Undoing
<1>7. Undoing' = IF fits THEN Undoing ELSE Undoing \cup {c}
    BY <1>5, <1>6 DEF Undoing, IInv, TypeOK
<1>8. /\ Cardinality(Undoing \ late) \in Nat
      /\ IsFiniteSet(Undoing \ late)
    BY CallersFinite DEF Undoing
<1>9. Net' = Net + 1
    <2>1. CASE fits
        BY <1>5, <1>7, <1>8, <2>1 DEF Net, IInv, TypeOK
    <2>2. CASE ~fits
        <3>1. Undoing' \ late' = (Undoing \ late) \cup {c}
            BY <1>5, <1>6, <1>7, <2>2
        <3>2. Cardinality(Undoing' \ late') = Cardinality(Undoing \ late) + 1
            BY <1>6, <1>8, <3>1, FS_AddElement
        <3> QED
            BY <1>5, <1>8, <2>2, <3>2 DEF Net, IInv, TypeOK
    <2> QED
        BY <2>1, <2>2
<1>10. admitted' <= half_open_max_calls + returned'
    <2>1. CASE fits
        <3>1. Net + 1 <= half_open_max_calls
            BY <1>2, <1>4, <2>1, ConfigAssumption, CallerAssumption
        <3> QED
            BY <1>5, <1>8, <2>1, <3>1, ConfigAssumption, CallerAssumption DEF Net, IInv, TypeOK
    <2>2. CASE ~fits
        BY <1>1, <1>5, <2>2 DEF LimitInv
    <2> QED
        BY <2>1, <2>2
<1>11. late' \subseteq Undoing'
    BY <1>1, <1>5, <1>7 DEF LimitInv
<1> QED
    BY <1>1, <1>4, <1>5, <1>9, <1>10, <1>11 DEF LimitInv

(* fetch_sub keeps it: a caller of this window takes its own count back, a *)
(* late one a count the window never had.                                  *)
LEMMA UndoLimit ==
    ASSUME IInv, LimitInv, NEW c \in Caller, Undo(c)
    PROVE  LimitInv'
<1>1. SUFFICES ASSUME state = "HalfOpen"
               PROVE  LimitInv'
    BY DEF Undo, LimitInv
<1>2. /\ Net \in Int
      /\ Cardinality(Caller) \in Nat
      /\ -Cardinality(Caller) <= Net
      /\ Net <= half_open_max_calls + Cardinality(Caller)
    BY <1>1, NetBounds
<1>3. half_open_calls = IF Net < 0 THEN Net + Word ELSE Net
    BY <1>1 DEF LimitInv
<1>4. half_open_calls' = IF Net - 1 < 0 THEN Net - 1 + Word ELSE Net - 1
    <2>1. half_open_calls' = (half_open_calls - 1) % Word
        BY DEF Undo
    <2>2. CASE Net > 0
        <3>1. Net - 1 \in 0..(Word - 1)
            BY <1>2, <2>2, ConfigAssumption, CallerAssumption
        <3> QED
            BY <1>2, <1>3, <2>1, <2>2, <3>1, WordStep
    <2>3. CASE Net = 0
        <3>1. half_open_calls - 1 = -1
            BY <1>3, <2>3
        <3>2. half_open_calls' = Word - 1
            BY <2>1, <3>1, WordStep
        <3> QED
            BY <2>3, <3>2, ConfigAssumption
    <2>4. CASE Net < 0
        <3>1. Net + Word - 1 \in 0..(Word - 1)
            BY <1>2, <2>4, ConfigAssumption, CallerAssumption
        <3>2. half_open_calls - 1 = Net + Word - 1
            BY <1>2, <1>3, <2>4, ConfigAssumption
        <3>3. half_open_calls' = Net + Word - 1
            BY <2>1, <3>1, <3>2, WordStep
        <3> QED
            BY <1>2, <2>4, <3>3, ConfigAssumption
    <2> QED
        BY <1>2, <2>2, <2>3, <2>4
<1>5. /\ state' = "HalfOpen" /\ admitted' = admitted
      /\ late' = late \ {c}
      /\ returned' = IF c \in late THEN returned + 1 ELSE returned
      /\ caller[c] = "undoing"
      /\ caller' = [caller EXCEPT ![c] = "idle"]
    BY <1>1, Zenon DEF Undo
<1>6. c \in Undoing /\ Undoing' = Undoing \ {c}
    BY <1>5 DEF Undoing, IInv, TypeOK
<1>7. /\ Cardinality(Undoing \ late) \in Nat
      /\ IsFiniteSet(Undoing \ late)
    BY CallersFinite DEF Undoing
<1>8. Net' = Net - 1
    <2>1. CASE c \in late
        <3>1. Cardinality(Undoing' \ late') = Cardinality(Undoing \ late)
            <4>1. Undoing' \ late' = Undoing \ late
                BY <1>5, <1>6, <2>1
            <4> QED
                BY <4>1
        <3>2. returned' = returned + 1 /\ admitted' = admitted
            BY <1>5, <2>1
        <3>3. admitted \in Nat /\ returned \in Nat
            BY DEF IInv, TypeOK
        <3> QED
            BY <1>7, <3>1, <3>2, <3>3 DEF Net
    <2>2. CASE c \notin late
        <3>1. Undoing' \ late' = (Undoing \ late) \ {c}
            BY <1>5, <1>6, <2>2
        <3>2. Cardinality(Undoing' \ late') = Cardinality(Undoing \ late) - 1
            BY <1>6, <1>7, <2>2, <3>1, FS_RemoveElement
        <3> QED
            BY <1>5, <1>7, <2>2, <3>2 DEF Net, IInv, TypeOK
    <2> QED
        BY <2>1, <2>2
<1>9. returned' + Cardinality(late') <= Cardinality(Caller)
    <2>1. IsFiniteSet(late) /\ Cardinality(late) \in Nat
        BY CallersFinite DEF IInv, TypeOK
    <2>2. CASE c \in late
        <3>1. Cardinality(late \ {c}) = Cardinality(late) - 1
            BY <2>1, <2>2, FS_RemoveElement
        <3> QED
            BY <1>1, <1>2, <1>5, <2>1, <2>2, <3>1 DEF LimitInv, IInv, TypeOK
    <2>3. CASE c \notin late
        <3>1. late \ {c} = late
            BY <2>3
        <3> QED
            BY <1>1, <1>5, <2>3, <3>1 DEF LimitInv
    <2> QED
        BY <2>2, <2>3
<1>10. late' \subseteq Undoing' /\ admitted' <= half_open_max_calls + returned'
    BY <1>1, <1>5, <1>6, ConfigAssumption, CallerAssumption DEF LimitInv, IInv, TypeOK
<1> QED
    BY <1>1, <1>4, <1>5, <1>8, <1>9, <1>10 DEF LimitInv

LEMMA NextLimit == IInv /\ LimitInv /\ [Next]_vars => LimitInv'
<1> SUFFICES ASSUME IInv, LimitInv, [Next]_vars
             PROVE  LimitInv'
    OBVIOUS
<1>a. ASSUME NEW c \in Caller, Call(c)
      PROVE  LimitInv'
    <2>1. Undoing' = Undoing
        BY <1>a DEF Call, Undoing, IInv, TypeOK
    <2> QED
        BY <1>a, <2>1, ObserveLimit DEF Call
<1>b. ASSUME NEW c \in Caller, Count(c)
      PROVE  LimitInv'
    BY <1>b, CountLimit
<1>c. ASSUME NEW c \in Caller, Undo(c)
      PROVE  LimitInv'
    BY <1>c, UndoLimit
<1>d. ASSUME NEW c \in Caller, Succeed(c) \/ Err(c) \/ Drop(c)
      PROVE  LimitInv'
    <2>1. Undoing' = Undoing
        BY <1>d DEF Succeed, Err, Drop, Undoing, IInv, TypeOK
    <2>2. CASE Succeed(c)
        BY <2>1, <2>2, LimitKept
           DEF Succeed, RecordSuccess, WindowHistory, breaker
    <2>3. CASE Err(c)
        BY <2>3 DEF Err, RecordFailure, LimitInv
    <2>4. CASE Drop(c)
        BY <2>1, <2>4, LimitKept DEF Drop, breaker
    <2> QED
        BY <1>d, <2>2, <2>3, <2>4
<1>e. CASE ReportSuccess
    <2>1. Undoing' = Undoing
        BY <1>e DEF ReportSuccess, Undoing
    <2> QED
        BY <1>e, <2>1, LimitKept
           DEF ReportSuccess, RecordSuccess, WindowHistory, breaker
<1>f. CASE ReportFailure
    BY <1>f DEF ReportFailure, RecordFailure, LimitInv
<1>g. CASE Reset
    BY <1>g DEF Reset, LimitInv
<1>h. CASE Look
    <2>1. Undoing' = Undoing
        BY <1>h DEF Look, Undoing
    <2> QED
        BY <1>h, <2>1, ObserveLimit DEF Look
<1>i. CASE Cool \/ Heal \/ UNCHANGED vars
    <2>1. Undoing' = Undoing
        BY <1>i DEF Cool, Heal, vars, Undoing
    <2> QED
        BY <1>i, <2>1, LimitKept DEF Cool, Heal, vars, breaker, history
<1> QED
    BY <1>a, <1>b, <1>c, <1>d, <1>e, <1>f, <1>g, <1>h, <1>i DEF Next

(* The books of the HalfOpen counter.                                      *)
THEOREM LimitInvariance == Spec => []LimitInv
<1>1. Init => LimitInv
    BY DEF Init, LimitInv
<1> QED
    BY <1>1, NextLimit, Invariance, PTL DEF Spec

(* For any number of callers, overlapping, dropped or reporting by         *)
(* themselves, and every half_open_max_calls: a HalfOpen window admits no  *)
(* more requests than that, but for one per count that a caller of an      *)
(* earlier window takes back in it (call and state() of the code).         *)
THEOREM WindowLimited == Spec => []ProbesLimited
<1>1. LimitInv => ProbesLimited
    BY DEF LimitInv, ProbesLimited
<1> QED
    BY <1>1, LimitInvariance, PTL

-----------------------------------------------------------------------------
(* Callers that take turns.                                                *)

(* Nobody awaits a request.                                                *)
NoneWaiting == \A c \in Caller : caller[c] # "waiting"

(* The counters of a HalfOpen window agree with what happened in it: every *)
(* caller it admitted has succeeded, but for the one that still waits.     *)
WindowInv ==
    state = "HalfOpen" =>
        /\ half_open_calls = admitted
        /\ half_open_successes = probed
        /\ half_open_calls <= half_open_max_calls
        /\ NoneWaiting => /\ half_open_calls = half_open_successes
                          /\ half_open_calls < half_open_max_calls
        /\ ~NoneWaiting => half_open_calls = half_open_successes + 1

(* At most one caller is inside call(), never one that has to undo, and it *)
(* counts or waits in the state that let it in.                            *)
TurnsInv ==
    /\ \A c, d \in Caller : caller[c] # "idle" /\ caller[d] # "idle" => c = d
    /\ \A c \in Caller :
           /\ caller[c] # "undoing"
           /\ caller[c] = "counting" => state = "HalfOpen"
           /\ caller[c] = "waiting" => state # "Open"
           /\ caller[c] = "waiting" /\ state = "HalfOpen" => c \in probing

PlainInv ==
    plain => TurnsInv /\ WindowInv

(* The share of n successes among n calls is 100 percent.                  *)
LEMMA AllSucceeded ==
    ASSUME NEW n \in Nat \ {0}
    PROVE  (n * 100) \div n = 100
BY SMT

(* record_success of the caller that waits alone in a HalfOpen window      *)
(* closes the breaker when it fills the window and keeps it HalfOpen       *)
(* otherwise; it never opens it.                                           *)
LEMMA LastProbeCloses ==
    ASSUME IInv, PlainInv, plain, NEW c \in Caller, caller[c] = "waiting",
           RecordSuccess
    PROVE  /\ state = "Closed" => state' = "Closed"
           /\ state = "HalfOpen" =>
                 /\ half_open_calls' = half_open_calls
                 /\ half_open_successes' = half_open_successes + 1
                 /\ IF half_open_calls = half_open_max_calls
                    THEN state' = "Closed"
                    ELSE state' = "HalfOpen"
<1>1. CASE state = "Closed"
    BY <1>1 DEF RecordSuccess
<1>2. CASE state = "HalfOpen"
    <2>1. /\ half_open_calls = half_open_successes + 1
          /\ half_open_calls <= half_open_max_calls
          /\ half_open_calls \in Nat \ {0}
        BY <1>2 DEF PlainInv, WindowInv, NoneWaiting, IInv, TypeOK
    <2>2. EnoughSuccesses(half_open_successes + 1, half_open_calls)
        BY <2>1, AllSucceeded, ConfigAssumption DEF EnoughSuccesses
    <2> QED
        BY <1>2, <2>1, <2>2, ConfigAssumption DEF RecordSuccess, WindowFull
<1> QED
    BY <1>1, <1>2 DEF PlainInv, TurnsInv

LEMMA InitPlain == Init => PlainInv
BY ConfigAssumption DEF Init, PlainInv, TurnsInv, WindowInv, NoneWaiting

LEMMA NextPlain == IInv /\ PlainInv /\ [Next]_vars => PlainInv'
<1> SUFFICES ASSUME IInv, PlainInv, [Next]_vars, plain'
             PROVE  (TurnsInv /\ WindowInv)'
    BY DEF PlainInv
<1> USE ConfigAssumption DEF IInv
<1>a. ASSUME NEW c \in Caller, Call(c)
      PROVE  (TurnsInv /\ WindowInv)'
    <2>1. plain /\ \A d \in Caller : caller[d] = "idle"
        BY <1>a DEF Call
    <2>2. /\ caller'[c] \in {"idle", "counting", "waiting"}
          /\ caller'[c] = "waiting" => state = "Closed" /\ state' = "Closed"
          /\ caller'[c] = "counting" => state' = "HalfOpen"
          /\ \A d \in Caller \ {c} : caller'[d] = "idle"
        BY <1>a, <2>1 DEF Call, Observe, Observed, TypeOK, breaker
    <2>3. TurnsInv'
        BY <2>2 DEF TurnsInv
    <2>4. state' = "HalfOpen" => NoneWaiting'
        BY <2>2 DEF NoneWaiting
    <2>5. WindowInv'
        <3>1. CASE state = "Open" /\ cooled
            BY <1>a, <2>4, <3>1 DEF Call, Observe, NewWindow, WindowInv
        <3>2. CASE ~(state = "Open" /\ cooled)
            BY <1>a, <2>1, <2>4, <3>2
               DEF Call, Observe, WindowInv, NoneWaiting, PlainInv, breaker,
                   history
        <3> QED
            BY <3>1, <3>2
    <2> QED
        BY <2>3, <2>5
<1>b. ASSUME NEW c \in Caller, Count(c)
      PROVE  (TurnsInv /\ WindowInv)'
    <2>1. plain /\ state = "HalfOpen" /\ state' = "HalfOpen"
        BY <1>b DEF Count, PlainInv, TurnsInv
    <2>2. NoneWaiting
        BY <1>b, <2>1 DEF Count, PlainInv, TurnsInv, NoneWaiting
    <2>3. /\ half_open_calls < half_open_max_calls
          /\ half_open_calls = half_open_successes
          /\ half_open_calls = admitted /\ half_open_successes = probed
        BY <2>1, <2>2 DEF PlainInv, WindowInv
    <2>4. (half_open_calls + 1) % Word = half_open_calls + 1
        BY <2>3 DEF TypeOK
    <2>5. /\ caller' = [caller EXCEPT ![c] = "waiting"]
          /\ half_open_calls' = half_open_calls + 1
          /\ admitted' = admitted + 1
          /\ probing' = probing \cup {c}
          /\ half_open_successes' = half_open_successes /\ probed' = probed
        <3>1. (half_open_calls + 1) % Word <= half_open_max_calls
            BY <2>3, <2>4 DEF TypeOK
        <3> HIDE ConfigAssumption DEF IInv
        <3> QED
            BY <1>b, <2>1, <2>4, <3>1, Zenon DEF Count
    <2>6. TurnsInv'
        BY <1>b, <2>1, <2>5 DEF Count, TurnsInv, PlainInv, TypeOK
    <2>7. ~NoneWaiting'
        BY <2>5 DEF NoneWaiting, TypeOK
    <2>8. half_open_calls' <= half_open_max_calls
        BY <2>3, <2>5 DEF TypeOK
    <2>9. WindowInv'
        BY <2>3, <2>5, <2>7, <2>8 DEF WindowInv, TypeOK
    <2> QED
        BY <2>6, <2>9
<1>c. ASSUME NEW c \in Caller, Undo(c)
      PROVE  FALSE
    BY <1>c DEF Undo, PlainInv, TurnsInv
<1>d. ASSUME NEW c \in Caller, Succeed(c)
      PROVE  (TurnsInv /\ WindowInv)'
    <2>1. plain /\ caller[c] = "waiting" /\ RecordSuccess
        BY <1>d DEF Succeed
    <2>2. \A d \in Caller : caller'[d] = "idle"
        BY <1>d, <2>1 DEF Succeed, PlainInv, TurnsInv, TypeOK
    <2>3. TurnsInv' /\ NoneWaiting'
        BY <2>2 DEF TurnsInv, NoneWaiting
    <2>4. state' = "HalfOpen" => admitted' = admitted
        BY <1>d DEF Succeed, WindowHistory
    <2>5. CASE state = "HalfOpen"
        <3>1. c \in probing /\ ~NoneWaiting
            BY <2>1, <2>5 DEF PlainInv, TurnsInv, NoneWaiting
        <3>2. probed' = probed + 1
            BY <1>d, <3>1 DEF Succeed
        <3> QED
            BY <2>1, <2>3, <2>4, <2>5, <3>1, <3>2, LastProbeCloses
               DEF PlainInv, WindowInv, TypeOK
    <2>6. CASE state = "Closed"
        BY <2>1, <2>3, <2>4, <2>6, LastProbeCloses DEF WindowInv
    <2> QED
        BY <2>1, <2>5, <2>6 DEF PlainInv, TurnsInv, TypeOK
<1>e. ASSUME NEW c \in Caller, Err(c)
      PROVE  (TurnsInv /\ WindowInv)'
    <2>1. plain /\ caller[c] = "waiting" /\ RecordFailure
        BY <1>e DEF Err
    <2>2. \A d \in Caller : caller'[d] = "idle"
        BY <1>e, <2>1 DEF Err, PlainInv, TurnsInv, TypeOK
    <2>3. state' # "HalfOpen"
        BY <2>1 DEF RecordFailure, PlainInv, TurnsInv, TypeOK
    <2> QED
        BY <1>e, <2>1, <2>2, <2>3 DEF Err, TurnsInv, WindowInv, PlainInv
<1>f. ASSUME NEW c \in Caller, Drop(c)
      PROVE  FALSE
    BY <1>f DEF Drop
<1>g. CASE ReportSuccess \/ ReportFailure \/ Reset
    BY <1>g DEF ReportSuccess, ReportFailure, Reset
<1>h. CASE Look
    <2>1. plain /\ UNCHANGED caller
        BY <1>h DEF Look
    <2>2. CASE state = "Open" /\ cooled
        <3>1. NoneWaiting
            BY <2>1, <2>2 DEF PlainInv, TurnsInv, NoneWaiting
        <3> QED
            BY <1>h, <2>1, <2>2, <3>1
               DEF Look, Observe, NewWindow, TurnsInv, WindowInv, NoneWaiting,
                   PlainInv
    <2>3. CASE ~(state = "Open" /\ cooled)
        BY <1>h, <2>1, <2>3
           DEF Look, Observe, TurnsInv, WindowInv, NoneWaiting, PlainInv,
               breaker, history
    <2> QED
        BY <2>2, <2>3
<1>i. CASE Cool
    BY <1>i DEF Cool, PlainInv, TurnsInv, WindowInv, NoneWaiting, history
<1>j. CASE Heal
    BY <1>j DEF Heal, PlainInv, TurnsInv, WindowInv, NoneWaiting, breaker,
                history
<1>k. CASE UNCHANGED vars
    BY <1>k DEF vars, PlainInv, TurnsInv, WindowInv, NoneWaiting
<1> QED
    BY <1>a, <1>b, <1>c, <1>d, <1>e, <1>f, <1>g, <1>h, <1>i, <1>j, <1>k
       DEF Next

(* The invariant of callers that take turns.                               *)
THEOREM TurnsInvariance == Spec => []PlainInv
BY InitPlain, NextPlain, Invariance, PTL DEF Spec

(* What closes a HalfOpen breaker is the required percentage of successes  *)
(* of requests that this very window admitted.                             *)
THEOREM ProbesClose == Spec => ClosedByProbes
<1> DEFINE Share == probed' * 100
                    >= half_open_success_threshold * half_open_max_calls
<1>1. IInv /\ PlainInv /\ [Next]_vars
      => [plain' /\ state = "HalfOpen" /\ state' = "Closed" => Share]_vars
    <2> SUFFICES ASSUME IInv, PlainInv, Next, plain', state = "HalfOpen",
                        state' = "Closed"
                 PROVE  Share
        OBVIOUS
    <2>1. ASSUME NEW c \in Caller, Succeed(c)
          PROVE  Share
        <3>1. plain /\ caller[c] = "waiting" /\ RecordSuccess
            BY <2>1 DEF Succeed
        <3>2. c \in probing /\ ~NoneWaiting
            BY <3>1 DEF PlainInv, TurnsInv, NoneWaiting
        <3>3. probed' = half_open_max_calls
            BY <2>1, <3>1, <3>2, LastProbeCloses, ConfigAssumption
               DEF Succeed, PlainInv, WindowInv, IInv, TypeOK
        <3>4. \A m \in Nat, p \in 0..100 : m * 100 >= p * m
            BY SMT
        <3> QED
            BY <3>3, <3>4, ConfigAssumption
    <2>2. ~Observe
        BY DEF Observe, breaker
    <2>3. ~RecordFailure
        BY DEF RecordFailure
    <2> QED
        BY <2>1, <2>2, <2>3 DEF Next, Call, Count, Undo, Err, Drop,
           ReportSuccess, ReportFailure, Reset, Look, Cool, Heal, breaker
<1> QED
    BY <1>1, Invariance, TurnsInvariance, PTL DEF Spec, ClosedByProbes

=============================================================================
