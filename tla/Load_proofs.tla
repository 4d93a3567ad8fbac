----------------------------- MODULE Load_proofs ----------------------------
(***************************************************************************)
(* Proofs about LoadControl, for any number of producers, consumers and    *)
(* tasks, and about TaskGuards, for any runners, tasks, goals and          *)
(* priorities.                                                             *)
(*                                                                         *)
(* The limit of try_enqueue is checked and then added to without a lock.   *)
(* What bounds the overshoot is that each producer that has checked and    *)
(* not yet added was counted when it checked: the counter plus their       *)
(* number is what stays bounded.  That nothing wraps the counter below     *)
(* zero is the accounting: whoever subtracts has a place to give back.     *)
(*                                                                         *)
(* That dequeue_task respects priorities although it locks one queue at a  *)
(* time rests on identifiers being fresh: a task that has left its queue,  *)
(* or is still on its way to it, cannot turn up behind a scan (ScanInv).   *)
(***************************************************************************)
EXTENDS Load, FiniteSetTheorems, TLAPS

IInv ==
    /\ TypeOK
    /\ DepthAccounts
    /\ OvershootBounded

(* Facts about words and sets.                                             *)

LEMMA Producers ==
    Cardinality(Producer) \in Nat /\ Cardinality(Producer) >= 1
<1>1. Cardinality(Producer) \in Nat
  BY ActorAssumption, FS_CardinalityType
<1>2. Cardinality(Producer) # 0
  BY ActorAssumption, FS_EmptySet
<1> QED
  BY <1>1, <1>2

LEMMA WordMod ==
    ASSUME NEW x \in Int
    PROVE  /\ x % Word \in 0..(Word - 1)
           /\ x \in 0..(Word - 1) => x % Word = x
<1>1. Word \in Nat /\ Word > 0
  BY ConfigAssumption, Producers
<1>2. x % Word \in 0..(Word - 1)
  BY <1>1
<1>3. x \in 0..(Word - 1) => x % Word = x
  BY <1>1
<1> QED
  BY <1>2, <1>3

(* How many actors are somewhere changes by one when one of them moves.    *)
LEMMA Moves ==
    ASSUME NEW S, IsFiniteSet(S), NEW A \in SUBSET S, NEW x \in S
    PROVE  /\ Cardinality(A) \in Nat
           /\ Cardinality(A) <= Cardinality(S)
           /\ x \in A => /\ Cardinality(A \ {x}) = Cardinality(A) - 1
                         /\ Cardinality(A) >= 1
           /\ x \notin A => Cardinality(A \cup {x}) = Cardinality(A) + 1
<1>1. IsFiniteSet(A) /\ Cardinality(A) \in Nat /\ Cardinality(A) <= Cardinality(S)
  BY FS_Subset, FS_CardinalityType
<1>2. x \in A => Cardinality(A \ {x}) = Cardinality(A) - 1
  BY <1>1, FS_RemoveElement
<1>3. x \in A => Cardinality(A) >= 1
  <2>1. x \in A => A # {}
    OBVIOUS
  <2>2. Cardinality(A) = 0 <=> A = {}
    BY <1>1, FS_EmptySet
  <2> QED
    BY <1>1, <2>1, <2>2
<1>4. x \notin A => Cardinality(A \cup {x}) = Cardinality(A) + 1
  BY <1>1, FS_AddElement
<1> QED
  BY <1>1, <1>2, <1>3, <1>4

(* The types of what the counters are compared with.                       *)
LEMMA CountTypes ==
    ASSUME TypeOK
    PROVE  /\ Queued \in Nat
           /\ Cardinality(Adding) \in Nat
           /\ Cardinality(Adding) <= Cardinality(Producer)
           /\ Cardinality(Pushing) \in Nat
           /\ Cardinality(Taken) \in Nat
<1>1. Queued \in Nat
  <2>1. /\ 0 \in Priority /\ 1 \in Priority /\ 2 \in Priority /\ 3 \in Priority
    BY DEF Priority
  <2>2. /\ Len(queues[0]) \in Nat /\ Len(queues[1]) \in Nat
        /\ Len(queues[2]) \in Nat /\ Len(queues[3]) \in Nat
    BY <2>1 DEF TypeOK
  <2>3. PICK i \in Nat, j \in Nat, k \in Nat, l \in Nat :
            /\ Len(queues[0]) = i /\ Len(queues[1]) = j
            /\ Len(queues[2]) = k /\ Len(queues[3]) = l
    BY <2>2, Zenon
  <2>4. Queued = i + j + k + l
    BY <2>3, Zenon DEF Queued
  <2> QED
    BY <2>4
<1>2. Adding \in SUBSET Producer /\ Pushing \in SUBSET Producer
  BY DEF Adding, Pushing
<1>3. Taken \in SUBSET Consumer
  BY DEF Taken
<1> QED
  BY <1>1, <1>2, <1>3, ActorAssumption, FS_Subset, FS_CardinalityType

(* One queue that grows or shrinks changes the sum as much.                *)
LEMMA QueuedMoves ==
    ASSUME NEW p \in Priority, NEW d \in Int,
           \A q \in Priority : Len(queues[q]) \in Nat,
           Len(queues'[p]) = Len(queues[p]) + d,
           \A q \in Priority \ {p} : Len(queues'[q]) = Len(queues[q])
    PROVE  Queued' = Queued + d
<1>1. /\ 0 \in Priority /\ 1 \in Priority /\ 2 \in Priority /\ 3 \in Priority
      /\ p = 0 \/ p = 1 \/ p = 2 \/ p = 3
  BY DEF Priority
<1>2. PICK i \in Nat, j \in Nat, k \in Nat, l \in Nat :
          /\ Len(queues[0]) = i /\ Len(queues[1]) = j
          /\ Len(queues[2]) = k /\ Len(queues[3]) = l
  BY <1>1, Zenon
<1>3. Queued = i + j + k + l
  BY <1>2, Zenon DEF Queued
<1>4. CASE p = 0
  <2>1. 1 \in Priority \ {p} /\ 2 \in Priority \ {p} /\ 3 \in Priority \ {p}
    BY <1>4 DEF Priority
  <2>2. /\ Len(queues'[0]) = i + d
        /\ Len(queues'[1]) = j
        /\ Len(queues'[2]) = k
        /\ Len(queues'[3]) = l
    BY <1>2, <1>4, <2>1, Zenon
  <2>3. Queued' = (i + d) + j + k + l
    BY <2>2, Zenon DEF Queued
  <2> QED
    BY <1>3, <2>3
<1>5. CASE p = 1
  <2>1. 0 \in Priority \ {p} /\ 2 \in Priority \ {p} /\ 3 \in Priority \ {p}
    BY <1>5 DEF Priority
  <2>2. /\ Len(queues'[0]) = i
        /\ Len(queues'[1]) = j + d
        /\ Len(queues'[2]) = k
        /\ Len(queues'[3]) = l
    BY <1>2, <1>5, <2>1, Zenon
  <2>3. Queued' = i + (j + d) + k + l
    BY <2>2, Zenon DEF Queued
  <2> QED
    BY <1>3, <2>3
<1>6. CASE p = 2
  <2>1. 0 \in Priority \ {p} /\ 1 \in Priority \ {p} /\ 3 \in Priority \ {p}
    BY <1>6 DEF Priority
  <2>2. /\ Len(queues'[0]) = i
        /\ Len(queues'[1]) = j
        /\ Len(queues'[2]) = k + d
        /\ Len(queues'[3]) = l
    BY <1>2, <1>6, <2>1, Zenon
  <2>3. Queued' = i + j + (k + d) + l
    BY <2>2, Zenon DEF Queued
  <2> QED
    BY <1>3, <2>3
<1>7. CASE p = 3
  <2>1. 0 \in Priority \ {p} /\ 1 \in Priority \ {p} /\ 2 \in Priority \ {p}
    BY <1>7 DEF Priority
  <2>2. /\ Len(queues'[0]) = i
        /\ Len(queues'[1]) = j
        /\ Len(queues'[2]) = k
        /\ Len(queues'[3]) = l + d
    BY <1>2, <1>7, <2>1, Zenon
  <2>3. Queued' = i + j + k + (l + d)
    BY <2>2, Zenon DEF Queued
  <2> QED
    BY <1>3, <2>3
<1> QED
  BY <1>1, <1>4, <1>5, <1>6, <1>7

(* What a producer or a consumer that does not move does not change.       *)
LEMMA Unmoved ==
    /\ producer' = producer => Adding' = Adding /\ Pushing' = Pushing
    /\ consumer' = consumer => Taken' = Taken
    /\ queues' = queues => Queued' = Queued
BY DEF Adding, Pushing, Taken, Queued

-----------------------------------------------------------------------------
(* Each action preserves the invariant.                                    *)

LEMMA InitIInv == Init => IInv
<1> SUFFICES ASSUME Init PROVE IInv
  OBVIOUS
<1>1. TypeOK
  BY ConfigAssumption, Producers
     DEF Init, TypeOK, NotProducing, NotConsuming, Priority
<1>2. Adding = {} /\ Pushing = {} /\ Taken = {}
  BY DEF Init, Adding, Pushing, Taken, NotProducing, NotConsuming
<1>3. Queued = 0
  BY DEF Init, Queued, Priority
<1>4. Cardinality({}) = 0
  BY FS_EmptySet
<1>5. Cardinality(Adding) = 0 /\ Cardinality(Pushing) = 0 /\ Cardinality(Taken) = 0
  BY <1>2, <1>4
<1>6. DepthAccounts
  BY <1>3, <1>5 DEF Init, DepthAccounts
<1>7. OvershootBounded
  BY <1>5, ConfigAssumption, Producers DEF Init, OvershootBounded
<1> QED
  BY <1>1, <1>6, <1>7 DEF IInv

(* A producer that checks joins those that have not added yet; it saw a    *)
(* counter below the limit, and they are all producers.                    *)
LEMMA TryEnqueueIInv ==
    ASSUME IInv, NEW x \in Producer, NEW t \in Task, TryEnqueue(x, t)
    PROVE  IInv'
<1> USE DEF IInv
<1>1. TypeOK'
  BY DEF TryEnqueue, TypeOK
<1>2. Pushing' = Pushing
  BY DEF TryEnqueue, TypeOK, Pushing
<1>3. DepthAccounts'
  BY <1>2, Unmoved DEF TryEnqueue, DepthAccounts
<1>4. current_depth \in Nat /\ current_depth' = current_depth
  BY DEF TypeOK, TryEnqueue
<1>5. current_depth < max_queue_depth
  BY <1>4, ConfigAssumption DEF TryEnqueue, Full
<1>6. Adding' \in SUBSET Producer
  BY DEF Adding
<1>7. Cardinality(Adding') \in Nat /\ Cardinality(Adding') <= Cardinality(Producer)
  BY <1>6, Moves, ActorAssumption
<1>8. OvershootBounded'
  BY <1>4, <1>5, <1>7, ConfigAssumption, Producers DEF OvershootBounded
<1> QED
  BY <1>1, <1>3, <1>8

LEMMA AddIInv ==
    ASSUME IInv, NEW x \in Producer, Add(x)
    PROVE  IInv'
<1> USE DEF IInv
<1>1. current_depth \in Int /\ current_depth \in Nat
  BY DEF TypeOK
<1>2. TypeOK'
  <2>1. (current_depth + 1) % Word \in 0..(Word - 1)
    BY <1>1, WordMod
  <2> QED
    BY <2>1 DEF Add, TypeOK
<1>3. /\ x \in Adding /\ x \notin Pushing
      /\ Adding \in SUBSET Producer /\ Pushing \in SUBSET Producer
      /\ Adding' = Adding \ {x} /\ Pushing' = Pushing \cup {x}
  BY DEF Add, TypeOK, Adding, Pushing
<1>4. /\ Cardinality(Adding') = Cardinality(Adding) - 1
      /\ Cardinality(Adding) >= 1
  BY <1>3, Moves, ActorAssumption
<1>5. Cardinality(Pushing') = Cardinality(Pushing) + 1
  BY <1>3, Moves, ActorAssumption
<1>6. /\ Queued \in Nat /\ Cardinality(Adding) \in Nat
      /\ Cardinality(Pushing) \in Nat /\ Cardinality(Taken) \in Nat
      /\ Queued' = Queued /\ Taken' = Taken
  BY CountTypes, Unmoved DEF Add
<1>7. CASE recoveries = 0
  <2>1. current_depth + Cardinality(Adding)
            <= max_queue_depth + Cardinality(Producer) - 1
    BY <1>7 DEF OvershootBounded
  <2>2. current_depth + 1 \in Int /\ current_depth + 1 \in 0..(Word - 1)
    BY <1>1, <1>4, <1>6, <2>1, ConfigAssumption, Producers
  <2>3. current_depth' = current_depth + 1
    BY <2>2, WordMod DEF Add
  <2>4. current_depth = Queued + Cardinality(Pushing) + Cardinality(Taken)
    BY <1>7 DEF DepthAccounts
  <2>5. DepthAccounts'
    BY <1>5, <1>6, <2>3, <2>4 DEF DepthAccounts
  <2>6. OvershootBounded'
    BY <1>1, <1>4, <1>6, <2>1, <2>3, ConfigAssumption, Producers
       DEF OvershootBounded
  <2> QED
    BY <1>2, <2>5, <2>6
<1>8. CASE recoveries # 0
  BY <1>2, <1>8 DEF Add, DepthAccounts, OvershootBounded
<1> QED
  BY <1>7, <1>8

LEMMA PushIInv ==
    ASSUME IInv, NEW x \in Producer, Push(x)
    PROVE  IInv'
<1> USE DEF IInv
<1> DEFINE t == producer[x].task
           p == PriorityOf[t]
<1>1. t \in Task /\ p \in Priority
  BY TaskAssumption DEF Push, TypeOK
<1>2. TypeOK'
  <2>1. (total_depth + 1) % Word \in 0..(Word - 1)
    BY WordMod DEF TypeOK
  <2>2. queues' \in [Priority -> Seq(Task)]
    BY <1>1 DEF Push, TypeOK
  <2> QED
    BY <2>1, <2>2 DEF Push, TypeOK, NotProducing
<1>3. Queued' = Queued + 1
  <2>1. queues \in [Priority -> Seq(Task)]
    BY DEF TypeOK
  <2>2. /\ \A q \in Priority : Len(queues[q]) \in Nat
        /\ Len(queues'[p]) = Len(queues[p]) + 1
        /\ \A q \in Priority \ {p} : Len(queues'[q]) = Len(queues[q])
    BY <1>1, <2>1 DEF Push
  <2> HIDE DEF p
  <2> QED
    BY <1>1, <2>2, QueuedMoves
<1>4. /\ x \in Pushing /\ Pushing \in SUBSET Producer
      /\ Adding' = Adding /\ Pushing' = Pushing \ {x}
  BY DEF Push, TypeOK, Adding, Pushing, NotProducing
<1>5. Cardinality(Pushing') = Cardinality(Pushing) - 1
  BY <1>4, Moves, ActorAssumption
<1>6. /\ Queued \in Nat /\ Cardinality(Pushing) \in Nat
      /\ Cardinality(Taken) \in Nat /\ Taken' = Taken
  BY CountTypes, Unmoved DEF Push
<1>7. current_depth' = current_depth /\ recoveries' = recoveries
  BY DEF Push
<1>8. DepthAccounts'
  BY <1>3, <1>5, <1>6, <1>7 DEF DepthAccounts
<1>9. OvershootBounded'
  BY <1>4, <1>7 DEF OvershootBounded
<1> QED
  BY <1>2, <1>8, <1>9

(* Reading the mode and skipping an empty queue touch no counter.          *)
LEMMA ScanIInv ==
    ASSUME IInv, NEW c \in Consumer,
           ReadMode(c) \/ \E p \in Priority : Skip(c, p)
    PROVE  IInv'
<1> USE DEF IInv
<1>1. CASE ReadMode(c)
  <2>1. Accessible(DegradationMode) \in SUBSET Priority
    <3>1. DegradationMode \in {"Normal", "Moderate", "High", "Critical"}
      BY DEF DegradationMode
    <3> QED
      BY <3>1 DEF Accessible, Priority, Low, Critical
  <2>2. UNION {Waiting(p) : p \in Accessible(DegradationMode)} \in SUBSET Task
    <3>1. \A p \in Priority : Waiting(p) \in SUBSET Task
      BY DEF Waiting, TypeOK, Range
    <3> QED
      BY <2>1, <3>1
  <2>3. TypeOK'
    BY <1>1, <2>1, <2>2 DEF ReadMode, TypeOK
  <2>4. Taken' = Taken
    BY <1>1 DEF ReadMode, TypeOK, Taken
  <2> QED
    BY <1>1, <2>3, <2>4, Unmoved DEF ReadMode, DepthAccounts, OvershootBounded
<1>2. ASSUME NEW p \in Priority, Skip(c, p)
      PROVE  IInv'
  <2>1. TypeOK'
    BY <1>2 DEF Skip, TypeOK, NotConsuming
  <2>2. Taken' = Taken
    BY <1>2 DEF Skip, TypeOK, Taken, NotConsuming
  <2> QED
    BY <1>2, <2>1, <2>2, Unmoved DEF Skip, DepthAccounts, OvershootBounded
<1> QED
  BY <1>1, <1>2

LEMMA TakeIInv ==
    ASSUME IInv, NEW c \in Consumer, NEW p \in Priority, Take(c, p)
    PROVE  IInv'
<1> USE DEF IInv
<1>1. queues \in [Priority -> Seq(Task)] /\ queues[p] # <<>>
  BY DEF TypeOK, Take
<1>2. Head(queues[p]) \in Task /\ Tail(queues[p]) \in Seq(Task)
      /\ Len(Tail(queues[p])) = Len(queues[p]) - 1
  BY <1>1
<1>3. TypeOK'
  <2>1. (total_depth - 1) % Word \in 0..(Word - 1)
    BY WordMod DEF TypeOK
  <2>2. queues' \in [Priority -> Seq(Task)]
    BY <1>1, <1>2 DEF Take
  <2> QED
    BY <1>2, <2>1, <2>2 DEF Take, TypeOK
<1>4. Queued' = Queued + (-1)
  <2>1. /\ \A q \in Priority : Len(queues[q]) \in Nat
        /\ Len(queues'[p]) = Len(queues[p]) + (-1)
        /\ \A q \in Priority \ {p} : Len(queues'[q]) = Len(queues[q])
    BY <1>1, <1>2 DEF Take
  <2>2. -1 \in Int
    OBVIOUS
  <2> QED
    BY <2>1, <2>2, QueuedMoves
<1>5. c \notin Taken /\ Taken \in SUBSET Consumer /\ Taken' = Taken \cup {c}
  BY DEF Take, TypeOK, Taken
<1>6. Cardinality(Taken') = Cardinality(Taken) + 1
  BY <1>5, Moves, ActorAssumption
<1>7. /\ Queued \in Nat /\ Cardinality(Pushing) \in Nat
      /\ Cardinality(Taken) \in Nat
      /\ Adding' = Adding /\ Pushing' = Pushing
  BY CountTypes, Unmoved DEF Take
<1>8. current_depth' = current_depth /\ recoveries' = recoveries
  BY DEF Take
<1>9. DepthAccounts'
  BY <1>4, <1>6, <1>7, <1>8 DEF DepthAccounts
<1>10. OvershootBounded'
  BY <1>7, <1>8 DEF OvershootBounded
<1> QED
  BY <1>3, <1>9, <1>10

(* Whoever gives a place back holds one, so the counter is positive.       *)
LEMMA GiveBackIInv ==
    ASSUME IInv, NEW c \in Consumer, GiveBack(c)
    PROVE  IInv'
<1> USE DEF IInv
<1>1. current_depth \in Int /\ current_depth \in 0..(Word - 1)
  BY DEF TypeOK
<1>2. TypeOK'
  <2>1. (current_depth - 1) % Word \in 0..(Word - 1)
    BY <1>1, WordMod
  <2> QED
    BY <2>1 DEF GiveBack, TypeOK, NotConsuming
<1>3. c \in Taken /\ Taken \in SUBSET Consumer /\ Taken' = Taken \ {c}
  BY DEF GiveBack, TypeOK, Taken, NotConsuming
<1>4. Cardinality(Taken') = Cardinality(Taken) - 1 /\ Cardinality(Taken) >= 1
  BY <1>3, Moves, ActorAssumption
<1>5. /\ Queued \in Nat /\ Cardinality(Adding) \in Nat
      /\ Cardinality(Pushing) \in Nat /\ Cardinality(Taken) \in Nat
      /\ Queued' = Queued /\ Adding' = Adding /\ Pushing' = Pushing
  BY CountTypes, Unmoved DEF GiveBack
<1>6. CASE recoveries = 0
  <2>1. current_depth = Queued + Cardinality(Pushing) + Cardinality(Taken)
    BY <1>6 DEF DepthAccounts
  <2>2. current_depth - 1 \in Int /\ current_depth - 1 \in 0..(Word - 1)
    BY <1>1, <1>4, <1>5, <2>1, ConfigAssumption
  <2>3. current_depth' = current_depth - 1
    BY <2>2, WordMod DEF GiveBack
  <2>4. DepthAccounts'
    BY <1>4, <1>5, <2>1, <2>3 DEF DepthAccounts
  <2>5. current_depth + Cardinality(Adding)
            <= max_queue_depth + Cardinality(Producer) - 1
    BY <1>6 DEF OvershootBounded
  <2>6. OvershootBounded'
    BY <1>1, <1>5, <2>3, <2>5, ConfigAssumption, Producers DEF OvershootBounded
  <2> QED
    BY <1>2, <2>4, <2>6
<1>7. CASE recoveries # 0
  BY <1>2, <1>7 DEF GiveBack, DepthAccounts, OvershootBounded
<1> QED
  BY <1>6, <1>7

(* After clear or reset the accounting is claimed no more.                 *)
LEMMA RecoveryIInv ==
    ASSUME IInv, Reset \/ Clear
    PROVE  IInv'
<1>1. recoveries' # 0
  BY DEF IInv, TypeOK, Reset, Clear
<1>2. TypeOK'
  <2>1. 0 \in 0..(Word - 1)
    BY ConfigAssumption, Producers
  <2>2. recoveries' \in 0..MaxRecoveries
    BY ConfigAssumption DEF IInv, TypeOK, Reset, Clear
  <2>3. queues' \in [Priority -> Seq(Task)]
    <3>1. \A p \in Priority : <<>> \in Seq(Task)
      OBVIOUS
    <3>2. CASE Reset
      BY <3>2 DEF IInv, TypeOK, Reset
    <3>3. CASE Clear
      BY <3>1, <3>3 DEF Clear
    <3> QED
      BY <3>2, <3>3
  <2>4. CASE Reset
    BY <2>1, <2>2, <2>4 DEF IInv, TypeOK, Reset
  <2>5. CASE Clear
    BY <2>1, <2>2, <2>3, <2>5 DEF IInv, TypeOK, Clear
  <2> QED
    BY <2>4, <2>5
<1> QED
  BY <1>1, <1>2 DEF IInv, DepthAccounts, OvershootBounded

LEMMA NextIInv == IInv /\ [Next]_vars => IInv'
<1> SUFFICES ASSUME IInv, [Next]_vars PROVE IInv'
  OBVIOUS
<1>1. ASSUME NEW x \in Producer, Produce(x) PROVE IInv'
  BY <1>1, AddIInv, PushIInv, TryEnqueueIInv DEF Produce
<1>2. ASSUME NEW c \in Consumer, Consume(c) PROVE IInv'
  BY <1>2, ScanIInv, TakeIInv, GiveBackIInv DEF Consume
<1>3. CASE Reset \/ Clear
  BY <1>3, RecoveryIInv
<1>4. CASE UNCHANGED vars
  <2>1. TypeOK'
    BY <1>4 DEF IInv, TypeOK, vars
  <2> QED
    BY <1>4, <2>1, Unmoved DEF IInv, DepthAccounts, OvershootBounded, vars
<1> QED
  BY <1>1, <1>2, <1>3, <1>4 DEF Next

-----------------------------------------------------------------------------
(* The inductive invariant of the limiter and the queues together.         *)
THEOREM Invariance == Spec => []IInv
<1> QED
  BY InitIInv, NextIInv, PTL DEF Spec

(* try_enqueue of queue_backpressure.rs: however its load and fetch_add    *)
(* interleave, the counter passes max_queue_depth by less than the number  *)
(* of producers.                                                           *)
THEOREM LimitOvershoot == Spec => []OvershootBounded
<1>1. IInv => OvershootBounded
  BY DEF IInv
<1> QED
  BY <1>1, Invariance, PTL

(* try_enqueue, enqueue_task, dequeue_task and dequeue together: the       *)
(* limiter's counter is exactly what is in the queues or on its way, so    *)
(* the subtraction of dequeue never wraps.                                 *)
THEOREM AccountsBalance == Spec => []DepthAccounts
<1>1. IInv => DepthAccounts
  BY DEF IInv
<1> QED
  BY <1>1, Invariance, PTL

-----------------------------------------------------------------------------
(* The order in which dequeue_task hands tasks out.                        *)

(* The producers that were let in with a task and have not queued it yet.  *)
Coming == {x \in Producer : producer[x].pc # "idle"}

(* A queued task was let in and waits with those of its priority; what     *)
(* the producers still bring was let in, is not queued, and differs.       *)
FreshInv ==
    /\ \A p \in Priority : \A t \in Waiting(p) :
           PriorityOf[t] = p /\ t \in submitted
    /\ \A x \in Coming :
           /\ producer[x].task \in submitted
           /\ \A p \in Priority : producer[x].task \notin Waiting(p)
           /\ \A y \in Coming : producer[x].task = producer[y].task => x = y

(* Of the tasks that waited when the scan began, those in a queue the scan *)
(* has passed are gone, and no producer brings them back.                  *)
PassedInv ==
    \A c \in Consumer : consumer[c].pc = "scanning" =>
        \A t \in consumer[c].before :
            /\ t \in submitted
            /\ \A x \in Coming : producer[x].task # t
            /\ PriorityOf[t] \in consumer[c].todo
               \/ t \notin Waiting(PriorityOf[t])

ScanInv == FreshInv /\ PassedInv

(* push_back adds the task to those that wait in its queue, and pop_front  *)
(* adds none.                                                              *)
LEMMA RangeOps ==
    ASSUME NEW s \in Seq(Task), NEW t \in Task
    PROVE  /\ Range(Append(s, t)) = Range(s) \cup {t}
           /\ s # <<>> => Range(Tail(s)) \subseteq Range(s)
           /\ s # <<>> => Head(s) \in Range(s)
           /\ s = <<>> => Range(s) = {}
<1>1. Range(Append(s, t)) = Range(s) \cup {t}
  <2> DEFINE a == Append(s, t)
  <2>1. /\ DOMAIN a = 1..(Len(s) + 1)
        /\ DOMAIN s = 1..Len(s) /\ Len(s) \in Nat
        /\ a[Len(s) + 1] = t
        /\ \A i \in 1..Len(s) : a[i] = s[i]
    OBVIOUS
  <2> HIDE DEF a
  <2>2. DOMAIN a = DOMAIN s \cup {Len(s) + 1}
    BY <2>1
  <2> QED
    BY <2>1, <2>2 DEF Range, a
<1>2. s # <<>> => Range(Tail(s)) \subseteq Range(s)
  <2> SUFFICES ASSUME s # <<>>, NEW i \in DOMAIN Tail(s)
               PROVE  \E j \in DOMAIN s : Tail(s)[i] = s[j]
    BY DEF Range
  <2>1. i \in 1..(Len(s) - 1) /\ i + 1 \in DOMAIN s /\ Tail(s)[i] = s[i + 1]
    OBVIOUS
  <2> QED
    BY <2>1
<1>3. s # <<>> => Head(s) \in Range(s)
  <2>1. s # <<>> => 1 \in DOMAIN s /\ Head(s) = s[1]
    OBVIOUS
  <2> QED
    BY <2>1 DEF Range
<1>4. s = <<>> => Range(s) = {}
  BY DEF Range
<1> QED
  BY <1>1, <1>2, <1>3, <1>4

(* Steps after which no more tasks wait, and no more are coming or have    *)
(* waited before, keep the invariant.                                      *)
LEMMA ScanShrinks ==
    ASSUME TypeOK, ScanInv,
           \A p \in Priority : Waiting(p)' \subseteq Waiting(p),
           producer' = producer, submitted' = submitted,
           \A c \in Consumer : consumer'[c].pc = "scanning" =>
               consumer'[c] = consumer[c]
    PROVE  ScanInv'
<1>1. Coming' = Coming
  BY DEF Coming
<1>2. FreshInv'
  BY <1>1 DEF ScanInv, FreshInv
<1>3. PassedInv'
  <2> SUFFICES ASSUME NEW c \in Consumer, consumer'[c].pc = "scanning",
                      NEW t \in consumer'[c].before
               PROVE  /\ t \in submitted'
                      /\ \A x \in Coming' : producer'[x].task # t
                      /\ PriorityOf[t] \in consumer'[c].todo
                         \/ t \notin Waiting(PriorityOf[t])'
    BY DEF PassedInv
  <2>1. consumer'[c] = consumer[c]
    OBVIOUS
  <2>2. t \in Task /\ PriorityOf[t] \in Priority
    BY <2>1, TaskAssumption DEF TypeOK
  <2> QED
    BY <1>1, <2>1, <2>2 DEF ScanInv, PassedInv
<1> QED
  BY <1>2, <1>3 DEF ScanInv

LEMMA InitScan == Init => ScanInv
BY RangeOps
   DEF Init, ScanInv, FreshInv, PassedInv, Coming, Waiting, NotProducing,
       NotConsuming, Range

LEMMA NextScan == TypeOK /\ ScanInv /\ [Next]_vars => ScanInv'
<1> SUFFICES ASSUME TypeOK, ScanInv, [Next]_vars
             PROVE  ScanInv'
  OBVIOUS
<1>1. ASSUME NEW x \in Producer, NEW t \in Task, TryEnqueue(x, t)
      PROVE  ScanInv'
  <2>1. /\ Coming' = Coming \cup {x} /\ x \notin Coming
        /\ producer'[x].task = t
        /\ \A y \in Coming : producer'[y] = producer[y]
    BY <1>1 DEF TryEnqueue, Coming, TypeOK
  <2>2. /\ t \notin submitted /\ submitted' = submitted \cup {t}
        /\ consumer' = consumer
        /\ \A p \in Priority : Waiting(p)' = Waiting(p)
    BY <1>1 DEF TryEnqueue, Waiting
  <2>3. FreshInv'
    BY <2>1, <2>2 DEF ScanInv, FreshInv
  <2>4. PassedInv'
    <3>1. \A c \in Consumer : \A u \in consumer[c].before : PriorityOf[u] \in Priority
      BY TaskAssumption DEF TypeOK
    <3> QED
      BY <2>1, <2>2, <3>1 DEF ScanInv, PassedInv
  <2> QED
    BY <2>3, <2>4 DEF ScanInv
<1>2. ASSUME NEW x \in Producer, Add(x)
      PROVE  ScanInv'
  <2>1. /\ Coming' = Coming
        /\ \A y \in Producer : producer'[y].task = producer[y].task
    BY <1>2 DEF Add, Coming, TypeOK
  <2>2. /\ submitted' = submitted /\ consumer' = consumer
        /\ \A p : Waiting(p)' = Waiting(p)
    BY <1>2 DEF Add, Waiting
  <2>3. Coming \subseteq Producer
    BY DEF Coming
  <2> QED
    BY <2>1, <2>2, <2>3 DEF ScanInv, FreshInv, PassedInv
<1>3. ASSUME NEW x \in Producer, Push(x)
      PROVE  ScanInv'
  <2>t. PICK t \in Task : t = producer[x].task
    BY <1>3 DEF Push, TypeOK
  <2>p. PICK p \in Priority : p = PriorityOf[t]
    BY TaskAssumption
  <2>1. queues[p] \in Seq(Task)
    BY DEF TypeOK
  <2>2. /\ x \in Coming /\ Coming' = Coming \ {x}
        /\ \A y \in Coming' : producer'[y] = producer[y]
    BY <1>3 DEF Push, Coming, TypeOK, NotProducing
  <2>3. /\ Waiting(p)' = Waiting(p) \cup {t}
        /\ \A q \in Priority \ {p} : Waiting(q)' = Waiting(q)
    <3>1. queues'[p] = Append(queues[p], t)
      BY <1>3, <2>t, <2>p DEF Push, TypeOK
    <3>2. \A q \in Priority \ {p} : queues'[q] = queues[q]
      BY <1>3, <2>t, <2>p DEF Push, TypeOK
    <3> QED
      BY <2>1, <3>1, <3>2, RangeOps DEF Waiting
  <2>4. submitted' = submitted /\ consumer' = consumer
    BY <1>3 DEF Push
  <2>5. t \in submitted /\ \A y \in Coming' : producer[y].task # t
    BY <2>t, <2>2 DEF ScanInv, FreshInv
  <2>6. FreshInv'
    <3>1. \A q \in Priority : \A u \in Waiting(q)' :
              PriorityOf[u] = q /\ u \in submitted'
      BY <2>p, <2>3, <2>4, <2>5 DEF ScanInv, FreshInv
    <3>2. ASSUME NEW y \in Coming'
          PROVE  /\ producer'[y].task \in submitted'
                 /\ \A q \in Priority : producer'[y].task \notin Waiting(q)'
                 /\ \A z \in Coming' :
                        producer'[y].task = producer'[z].task => y = z
      BY <2>2, <2>3, <2>4, <2>5 DEF ScanInv, FreshInv
    <3> QED
      BY <3>1, <3>2 DEF FreshInv
  <2>7. PassedInv'
    <3> SUFFICES ASSUME NEW c \in Consumer, consumer[c].pc = "scanning",
                        NEW u \in consumer[c].before
                 PROVE  /\ u \in submitted
                        /\ \A y \in Coming' : producer'[y].task # u
                        /\ PriorityOf[u] \in consumer[c].todo
                           \/ u \notin Waiting(PriorityOf[u])'
      BY <2>4 DEF PassedInv
    <3>1. u # t
      BY <2>t, <2>2 DEF ScanInv, PassedInv
    <3>2. PriorityOf[u] \in Priority
      BY TaskAssumption DEF TypeOK
    <3> QED
      BY <2>2, <2>3, <3>1, <3>2 DEF ScanInv, PassedInv
  <2> QED
    BY <2>6, <2>7 DEF ScanInv
<1>4. ASSUME NEW c \in Consumer, ReadMode(c)
      PROVE  ScanInv'
  <2> DEFINE todo == Accessible(DegradationMode)
  <2>1. /\ Coming' = Coming /\ producer' = producer /\ submitted' = submitted
        /\ \A p : Waiting(p)' = Waiting(p)
        /\ \A d \in Consumer \ {c} : consumer'[d] = consumer[d]
        /\ consumer'[c].todo = todo
        /\ consumer'[c].before = UNION {Waiting(p) : p \in todo}
    BY <1>4 DEF ReadMode, Coming, Waiting, TypeOK
  <2>2. todo \subseteq Priority
    <3>1. DegradationMode \in {"Normal", "Moderate", "High", "Critical"}
      BY DEF DegradationMode
    <3> QED
      BY <3>1 DEF Accessible, Priority, Low, Critical
  <2> HIDE DEF todo
  <2>3. \A t \in consumer'[c].before :
            /\ t \in submitted
            /\ \A x \in Coming : producer[x].task # t
            /\ PriorityOf[t] \in todo
    BY <2>1, <2>2 DEF ScanInv, FreshInv
  <2>4. FreshInv'
    BY <2>1 DEF ScanInv, FreshInv
  <2>5. PassedInv'
    BY <2>1, <2>3 DEF ScanInv, PassedInv
  <2> QED
    BY <2>4, <2>5 DEF ScanInv
<1>5. ASSUME NEW c \in Consumer, NEW p \in Priority, Skip(c, p)
      PROVE  ScanInv'
  <2>1. /\ Coming' = Coming /\ producer' = producer /\ submitted' = submitted
        /\ \A q : Waiting(q)' = Waiting(q)
        /\ \A d \in Consumer \ {c} : consumer'[d] = consumer[d]
    BY <1>5 DEF Skip, Coming, Waiting, TypeOK
  <2>2. consumer'[c].pc = "scanning" =>
            /\ consumer[c].pc = "scanning"
            /\ consumer'[c].before = consumer[c].before
            /\ consumer'[c].todo = consumer[c].todo \ {p}
    BY <1>5 DEF Skip, NotConsuming, TypeOK
  <2>3. Waiting(p) = {}
    BY <1>5 DEF Skip, Waiting, Range
  <2>4. FreshInv'
    BY <2>1 DEF ScanInv, FreshInv
  <2>5. PassedInv'
    BY <2>1, <2>2, <2>3 DEF ScanInv, PassedInv
  <2> QED
    BY <2>4, <2>5 DEF ScanInv
<1>6. ASSUME NEW c \in Consumer, NEW p \in Priority, Take(c, p)
      PROVE  ScanInv'
  <2>1. queues[p] \in Seq(Task) /\ queues[p] # <<>>
    BY <1>6 DEF Take, TypeOK
  <2>2. /\ queues'[p] = Tail(queues[p])
        /\ \A q \in Priority \ {p} : queues'[q] = queues[q]
    BY <1>6 DEF Take, TypeOK
  <2>3. Range(Tail(queues[p])) \subseteq Range(queues[p])
    <3>1. PICK t \in Task : TRUE
      BY <2>1
    <3> QED
      BY <2>1, <3>1, RangeOps
  <2>4. \A q \in Priority : Waiting(q)' \subseteq Waiting(q)
    BY <2>2, <2>3 DEF Waiting
  <2>5. \A d \in Consumer : consumer'[d].pc = "scanning" =>
            consumer'[d] = consumer[d]
    BY <1>6 DEF Take, TypeOK
  <2> QED
    BY <1>6, <2>4, <2>5, ScanShrinks DEF Take
<1>7. ASSUME NEW c \in Consumer, GiveBack(c)
      PROVE  ScanInv'
  <2>1. \A q \in Priority : Waiting(q)' \subseteq Waiting(q)
    BY <1>7 DEF GiveBack, Waiting
  <2>2. \A d \in Consumer : consumer'[d].pc = "scanning" =>
            consumer'[d] = consumer[d]
    BY <1>7 DEF GiveBack, TypeOK, NotConsuming
  <2> QED
    BY <1>7, <2>1, <2>2, ScanShrinks DEF GiveBack
<1>8. CASE Reset \/ Clear \/ UNCHANGED vars
  <2>1. \A q \in Priority : Waiting(q)' \subseteq Waiting(q)
    BY <1>8 DEF Reset, Clear, vars, Waiting, Range
  <2> QED
    BY <1>8, <2>1, ScanShrinks DEF Reset, Clear, vars
<1> QED
  BY <1>1, <1>2, <1>3, <1>4, <1>5, <1>6, <1>7, <1>8
     DEF Next, Produce, Consume

(* The invariant of the scans.                                             *)
THEOREM ScanInvariance == Spec => []ScanInv
<1>1. IInv => TypeOK
  BY DEF IInv
<1> QED
  BY <1>1, InitScan, NextScan, Invariance, PTL DEF Spec

(* dequeue_task of priority_queue.rs, which locks one queue after another, *)
(* never passes over a task that was waiting when the scan began for one   *)
(* of lower priority, whatever producers, other consumers, clear and reset *)
(* do in between.                                                          *)
THEOREM HighestFirst == Spec => PriorityRespected
<1> DEFINE Kept ==
        \A c \in Consumer :
          consumer[c].pc = "scanning" /\ consumer'[c].pc = "taken" =>
              \A t \in consumer[c].before :
                  PriorityOf[t] > PriorityOf[consumer'[c].task] =>
                      t \notin Waiting(PriorityOf[t])
<1>1. IInv /\ ScanInv /\ [Next]_vars => [Kept]_vars
  <2> SUFFICES ASSUME TypeOK, ScanInv, Next, NEW c \in Consumer,
                      consumer[c].pc = "scanning", consumer'[c].pc = "taken",
                      NEW t \in consumer[c].before,
                      PriorityOf[t] > PriorityOf[consumer'[c].task]
               PROVE  t \notin Waiting(PriorityOf[t])
    BY DEF IInv
  <2>1. PICK p \in Priority : Take(c, p)
    <3>1. \A d \in Consumer, q \in Priority :
              (ReadMode(d) \/ Skip(d, q) \/ GiveBack(d)) => consumer'[c].pc # "taken"
      BY SMTT(30) DEF ReadMode, Skip, GiveBack, TypeOK, NotConsuming
    <3>2. \A d \in Consumer \ {c}, q \in Priority : ~Take(d, q)
      BY DEF Take, TypeOK
    <3>3. consumer' # consumer
      OBVIOUS
    <3> QED
      BY <3>1, <3>2, <3>3 DEF Next, Produce, Consume, Add, Push, TryEnqueue,
                              Reset, Clear, Priority
  <2>2. consumer'[c].task = Head(queues[p]) /\ queues[p] \in Seq(Task)
        /\ queues[p] # <<>>
    BY <2>1 DEF Take, TypeOK
  <2>3. Head(queues[p]) \in Waiting(p)
    <3>1. PICK u \in Task : TRUE
      BY <2>2
    <3> QED
      BY <2>2, <3>1, RangeOps DEF Waiting
  <2>4. PriorityOf[consumer'[c].task] = p
    BY <2>2, <2>3 DEF ScanInv, FreshInv
  <2>5. PriorityOf[t] \in Priority
    BY TaskAssumption DEF TypeOK
  <2>6. PriorityOf[t] \notin consumer[c].todo
    BY <2>1, <2>4, <2>5 DEF Take, NextQueue, Priority
  <2> QED
    BY <2>6 DEF ScanInv, PassedInv
<1> QED
  BY <1>1, Invariance, ScanInvariance, PTL DEF Spec, PriorityRespected

-----------------------------------------------------------------------------
(* TaskGuards.  As long as no task has two runners, one task at a time is  *)
(* at work on a goal, and the detector reports no inversion that is not    *)
(* there.                                                                  *)

(* No lease has expired under a live runner.                               *)
OneRunner == \A r, q \in Runner : TaskOf[r] = TaskOf[q] => r = q

Place == {"idle", "admitted", "locked", "refused", "recorded", "inverted",
          "running", "stopping", "cleanup", "removing", "done"}
Record == [waiter : GuardTask, blocker : GuardTask]

(* GoalExclusive is not inductive: it needs that a runner at work, or past *)
(* the look of release, is the one in the store, and NoFalseAlarm that the *)
(* detector's owner is a runner at work.                                   *)
Recorded == {"recorded", "running", "stopping"}
GuardInv ==
    /\ locks \in [Goal -> GuardTask \cup {Nobody}]
    /\ ownership \in [Goal -> GuardTask \cup {Nobody}]
    /\ pc \in [Runner -> Place]
    /\ inversion \in [Runner -> Record \cup {Nobody}]
    /\ \A r \in Runner :
          pc[r] \in Guards!Holding \cup {"removing"} =>
              locks[Guards!GoalFor(r)] = TaskOf[r]
    /\ \A g \in Goal :
          ownership[g] # Nobody =>
              \E r \in Runner : /\ pc[r] \in Recorded
                                /\ Guards!GoalFor(r) = g
                                /\ TaskOf[r] = ownership[g]

(* Every runner has a task and a goal.                                     *)
LEMMA GoalType ==
    ASSUME Guards!GuardTypes, NEW r \in Runner
    PROVE  /\ TaskOf[r] \in GuardTask /\ TaskOf[r] # Nobody
           /\ Guards!GoalFor(r) \in Goal
BY DEF Guards!GuardTypes, Guards!GoalFor

(* A step of r to a place from which nothing more is claimed of it, or     *)
(* less than before, that leaves store and detector alone.                 *)
LEMMA PlaceOnly ==
    ASSUME GuardInv, UNCHANGED <<locks, ownership>>,
           NEW r \in Runner, NEW there \in Place, Guards!Goto(r, there),
           inversion' \in [Runner -> Record \cup {Nobody}],
           pc[r] \in Recorded => there \in Recorded,
           there \in Guards!Holding \cup {"removing"} =>
               locks[Guards!GoalFor(r)] = TaskOf[r]
    PROVE  GuardInv'
<1>. USE DEF GuardInv
<1>1. pc' \in [Runner -> Place] /\ pc'[r] = there
      /\ \A q \in Runner : q # r => pc'[q] = pc[q]
  BY DEF Guards!Goto
<1>2. ASSUME NEW g \in Goal, ownership'[g] # Nobody
      PROVE  \E q \in Runner : /\ pc'[q] \in Recorded
                               /\ Guards!GoalFor(q) = g
                               /\ TaskOf[q] = ownership'[g]
  <2>1. PICK q \in Runner : /\ pc[q] \in Recorded
                            /\ Guards!GoalFor(q) = g
                            /\ TaskOf[q] = ownership[g]
    BY <1>2
  <2>2. pc'[q] \in Recorded
    BY <1>1, <2>1
  <2>. QED  BY <2>1, <2>2
<1>3. \A q \in Runner : pc'[q] \in Guards!Holding \cup {"removing"} =>
                            locks'[Guards!GoalFor(q)] = TaskOf[q]
  BY <1>1
<1>. QED  BY <1>1, <1>2, <1>3

(* Every step keeps GuardInv.                                              *)
LEMMA GuardStep ==
    ASSUME Guards!GuardTypes, OneRunner, GuardInv, [Guards!Next]_(Guards!vars)
    PROVE  GuardInv'
<1>. USE DEF GuardInv
<1>g. \A r \in Runner : /\ TaskOf[r] \in GuardTask /\ TaskOf[r] # Nobody
                        /\ Guards!GoalFor(r) \in Goal
  BY GoalType
<1>u. ASSUME UNCHANGED <<locks, ownership, pc, inversion>>
      PROVE  GuardInv'
  BY <1>u
<1>1. ASSUME NEW r \in Runner, Guards!Admit(r) PROVE GuardInv'
  <2>1. /\ pc[r] = "idle" /\ Guards!Goto(r, "admitted")
        /\ UNCHANGED <<locks, ownership, inversion>>
    BY <1>1 DEF Guards!Admit, Guards!At, Guards!detector
  <2>. QED  BY <2>1, PlaceOnly DEF Place, Guards!Holding, Recorded
<1>2. ASSUME NEW r \in Runner, Guards!Lock(r) PROVE GuardInv'
  <2>. DEFINE g == Guards!GoalFor(r)
  <2>1. /\ pc[r] = "admitted"
        /\ locks' = [locks EXCEPT ![g] = IF @ = Nobody THEN TaskOf[r] ELSE @]
        /\ Guards!Goto(r, IF locks'[g] = TaskOf[r] THEN "locked" ELSE "refused")
        /\ UNCHANGED <<ownership, inversion>>
    BY <1>2 DEF Guards!Lock, Guards!At, Guards!try_acquire, Guards!detector
  <2>2. locks' \in [Goal -> GuardTask \cup {Nobody}]
    BY <1>g, <2>1
  <2>3. /\ pc' \in [Runner -> Place]
        /\ pc'[r] = IF locks'[g] = TaskOf[r] THEN "locked" ELSE "refused"
        /\ \A q \in Runner : q # r => pc'[q] = pc[q]
    BY <2>1 DEF Guards!Goto, Place
  <2>4. \A h \in Goal : locks[h] # Nobody => locks'[h] = locks[h]
    BY <1>g, <2>1
  <2>5. \A q \in Runner : pc'[q] \in Guards!Holding \cup {"removing"} =>
                              locks'[Guards!GoalFor(q)] = TaskOf[q]
    BY <1>g, <2>3, <2>4 DEF Guards!Holding
  <2>6. \A q \in Runner : pc[q] \in Recorded => pc'[q] \in Recorded
    BY <2>1, <2>3 DEF Recorded
  <2>. QED  BY <2>1, <2>2, <2>3, <2>5, <2>6
<1>3. ASSUME NEW r \in Runner, Guards!record_lock_acquire(r) PROVE GuardInv'
  <2>1. /\ pc[r] = "locked"
        /\ ownership' = [ownership EXCEPT ![Guards!GoalFor(r)] = TaskOf[r]]
        /\ Guards!Goto(r, "recorded")
        /\ UNCHANGED <<locks, inversion>>
    BY <1>3 DEF Guards!record_lock_acquire, Guards!At
  <2>2. /\ pc' \in [Runner -> Place]
        /\ pc'[r] = "recorded"
        /\ \A q \in Runner : q # r => pc'[q] = pc[q]
    BY <2>1 DEF Guards!Goto, Place
  <2>3. ownership' \in [Goal -> GuardTask \cup {Nobody}]
    BY <1>g, <2>1
  <2>4. \A q \in Runner : pc'[q] \in Guards!Holding \cup {"removing"} =>
                              locks'[Guards!GoalFor(q)] = TaskOf[q]
    BY <2>1, <2>2 DEF Guards!Holding
  <2>5. \A q \in Runner : pc[q] \in Recorded => pc'[q] \in Recorded
    BY <2>1, <2>2 DEF Recorded
  <2>6. ASSUME NEW h \in Goal, ownership'[h] # Nobody
        PROVE  \E q \in Runner : /\ pc'[q] \in Recorded
                                 /\ Guards!GoalFor(q) = h
                                 /\ TaskOf[q] = ownership'[h]
    <3>1. CASE h = Guards!GoalFor(r)
      BY <2>1, <2>2, <3>1 DEF Recorded
    <3>2. CASE h # Guards!GoalFor(r)
      BY <2>1, <2>5, <2>6, <3>2
    <3>. QED  BY <3>1, <3>2
  <2>. QED  BY <2>1, <2>2, <2>3, <2>4, <2>6
<1>4. ASSUME NEW r \in Runner, Guards!record_task_blocks(r) PROVE GuardInv'
  <2>1. pc[r] = "refused" /\ UNCHANGED <<locks, ownership>>
    BY <1>4 DEF Guards!record_task_blocks, Guards!At
  <2>2. \E there \in {"inverted", "cleanup"} : Guards!Goto(r, there)
    BY <1>4 DEF Guards!record_task_blocks
  <2>3. inversion' \in [Runner -> Record \cup {Nobody}]
    <3>. DEFINE owner == ownership[Guards!GoalFor(r)]
    <3>1. owner # Nobody => [waiter |-> TaskOf[r], blocker |-> owner] \in Record
      BY <1>g DEF Record
    <3>. QED  BY <1>4, <3>1 DEF Guards!record_task_blocks
  <2>. QED  BY <2>1, <2>2, <2>3, PlaceOnly DEF Place, Guards!Holding, Recorded
<1>5. ASSUME NEW r \in Runner, Guards!PushRecord(r) PROVE GuardInv'
  <2>1. /\ pc[r] = "inverted" /\ Guards!Goto(r, "cleanup")
        /\ UNCHANGED <<locks, ownership>>
        /\ inversion' = [inversion EXCEPT ![r] = Nobody]
    BY <1>5 DEF Guards!PushRecord, Guards!At
  <2>. QED  BY <2>1, PlaceOnly DEF Place, Guards!Holding, Recorded
<1>6. ASSUME NEW r \in Runner, Guards!ReleaseRead(r) PROVE GuardInv'
  <2>1. /\ pc[r] = "cleanup" /\ UNCHANGED <<locks, ownership, inversion>>
        /\ Guards!Goto(r, IF locks[Guards!GoalFor(r)] = TaskOf[r]
                          THEN "removing" ELSE "done")
    BY <1>6 DEF Guards!ReleaseRead, Guards!MayRelease, Guards!At, Guards!detector
  <2>. QED  BY <2>1, PlaceOnly DEF Place, Guards!Holding, Recorded
<1>7. ASSUME NEW r \in Runner, Guards!ReleaseRemove(r) PROVE GuardInv'
  <2>1. /\ pc[r] = "removing" /\ Guards!Goto(r, "done")
        /\ UNCHANGED <<ownership, inversion>>
        /\ locks' = [locks EXCEPT ![Guards!GoalFor(r)] = Nobody]
    BY <1>7 DEF Guards!ReleaseRemove, Guards!At, Guards!detector
  <2>2. /\ pc' \in [Runner -> Place]
        /\ pc'[r] = "done"
        /\ \A q \in Runner : q # r => pc'[q] = pc[q]
    BY <2>1 DEF Guards!Goto, Place
  <2>3. locks' \in [Goal -> GuardTask \cup {Nobody}]
    BY <2>1
  <2>4. ASSUME NEW q \in Runner, pc'[q] \in Guards!Holding \cup {"removing"}
        PROVE  locks'[Guards!GoalFor(q)] = TaskOf[q]
    <3>1. q # r /\ pc[q] \in Guards!Holding \cup {"removing"}
      BY <2>2, <2>4 DEF Guards!Holding
    <3>2. locks[Guards!GoalFor(q)] = TaskOf[q] /\ locks[Guards!GoalFor(r)] = TaskOf[r]
      BY <2>1, <3>1
    <3>3. Guards!GoalFor(q) # Guards!GoalFor(r)
      BY <3>1, <3>2 DEF OneRunner
    <3>. QED  BY <1>g, <2>1, <3>2, <3>3
  <2>5. \A q \in Runner : pc[q] \in Recorded => pc'[q] \in Recorded
    BY <2>1, <2>2 DEF Recorded
  <2>. QED  BY <2>1, <2>2, <2>3, <2>4, <2>5
<1>8. ASSUME NEW r \in Runner, Guards!Begin(r) PROVE GuardInv'
  <2>1. /\ pc[r] = "recorded" /\ Guards!Goto(r, "running")
        /\ UNCHANGED <<locks, ownership, inversion>>
    BY <1>8 DEF Guards!Begin, Guards!At, Guards!detector
  <2>. QED  BY <2>1, PlaceOnly DEF Place, Guards!Holding, Recorded
<1>9. ASSUME NEW r \in Runner,
             Guards!charge_tokens(r) \/ Guards!Stop(r) \/ Guards!check(r)
      PROVE  GuardInv'
  <2>1. pc[r] = "running" /\ UNCHANGED <<locks, ownership, inversion>>
    BY <1>9 DEF Guards!charge_tokens, Guards!Stop, Guards!check, Guards!At,
                Guards!detector
  <2>2. \E there \in {"running", "stopping"} : Guards!Goto(r, there)
    BY <1>9 DEF Guards!charge_tokens, Guards!Stop, Guards!check
  <2>. QED  BY <2>1, <2>2, PlaceOnly DEF Place, Guards!Holding, Recorded
<1>10. ASSUME NEW r \in Runner, Guards!Finish(r) PROVE GuardInv'
  <2>1. /\ pc[r] = "stopping" /\ Guards!Goto(r, "cleanup")
        /\ UNCHANGED <<locks, inversion>>
        /\ ownership' = [ownership EXCEPT ![Guards!GoalFor(r)] = Nobody]
    BY <1>10 DEF Guards!Finish, Guards!record_lock_release, Guards!At
  <2>2. /\ pc' \in [Runner -> Place]
        /\ pc'[r] = "cleanup"
        /\ \A q \in Runner : q # r => pc'[q] = pc[q]
    BY <2>1 DEF Guards!Goto, Place
  <2>3. ownership' \in [Goal -> GuardTask \cup {Nobody}]
    BY <2>1
  <2>4. \A q \in Runner : pc'[q] \in Guards!Holding \cup {"removing"} =>
                              locks'[Guards!GoalFor(q)] = TaskOf[q]
    BY <2>1, <2>2 DEF Guards!Holding
  <2>5. ASSUME NEW h \in Goal, ownership'[h] # Nobody
        PROVE  \E q \in Runner : /\ pc'[q] \in Recorded
                                 /\ Guards!GoalFor(q) = h
                                 /\ TaskOf[q] = ownership'[h]
    <3>1. h # Guards!GoalFor(r) /\ ownership'[h] = ownership[h]
      BY <1>g, <2>1, <2>5
    <3>2. PICK q \in Runner : /\ pc[q] \in Recorded
                              /\ Guards!GoalFor(q) = h
                              /\ TaskOf[q] = ownership[h]
      BY <2>5, <3>1
    <3>. QED  BY <2>2, <3>1, <3>2
  <2>. QED  BY <2>1, <2>2, <2>3, <2>4, <2>5
<1>11. ASSUME NEW r \in Runner, Guards!RunAgain(r) PROVE GuardInv'
  <2>1. /\ pc[r] = "done" /\ Guards!Goto(r, "idle")
        /\ UNCHANGED <<locks, ownership, inversion>>
    BY <1>11 DEF Guards!RunAgain, Guards!At, Guards!detector
  <2>. QED  BY <2>1, PlaceOnly DEF Place, Guards!Holding, Recorded
<1>12. ASSUME NEW r \in Runner, Guards!Timer(r) PROVE GuardInv'
  BY <1>12, <1>u DEF Guards!Timer, Guards!TimerFires, Guards!TimerSets,
                     Guards!detector
<1>13. CASE Guards!ModeChanges \/ Guards!clear_history
  BY <1>13, <1>u DEF Guards!ModeChanges, Guards!clear_history, Guards!detector
<1>14. CASE Guards!clear_locks
  BY <1>14 DEF Guards!clear_locks
<1>15. CASE UNCHANGED Guards!vars
  BY <1>15, <1>u DEF Guards!vars
<1>. QED
  BY <1>1, <1>2, <1>3, <1>4, <1>5, <1>6, <1>7, <1>8, <1>9, <1>10, <1>11, <1>12,
     <1>13, <1>14, <1>15 DEF Guards!Next, Guards!Guard

(* Nothing is locked or recorded at the start.                             *)
LEMMA GuardInit ==
    ASSUME Guards!Init
    PROVE  GuardInv
BY DEF Guards!Init, GuardInv, Place, Guards!Holding

(* What a step of the composition is to TaskGuards, and to LoadControl.    *)
LEMMA PartIsGuards ==
    [Loading(Next) \/ Guarding(Guards!Next) \/ Sharing(Shares!Next)]_allVars =>
        [Guards!Next]_(Guards!vars)
BY DEF Loading, Guarding, Sharing, allVars, guardVars, Guards!vars

LEMMA PartIsLoad ==
    [Loading(Next) \/ Guarding(Guards!Next) \/ Sharing(Shares!Next)]_allVars =>
        [Next]_vars
BY DEF Loading, Guarding, Sharing, allVars, vars

LEMMA GuardInvariance ==
    ASSUME OneRunner
    PROVE  PartSpec => []GuardInv
<1>1. PartInit => GuardInv
  BY GuardInit DEF PartInit
<1>2. GuardInv /\ [Guards!Next]_(Guards!vars) => GuardInv'
  BY GuardAssumption, GuardStep
<1>. QED  BY <1>1, <1>2, PartIsGuards, PTL DEF PartSpec

(* The composition runs LoadControl unchanged, so what is proved of it     *)
(* above is true of every behaviour of PartSpec.                           *)
THEOREM CompositionImplementsLoad == PartSpec => Spec
<1>1. PartInit => Init
  BY DEF PartInit
<1>. QED  BY <1>1, PartIsLoad, PTL DEF PartSpec, Spec

(* The goal lock store lets one task at a time work on a goal, although    *)
(* release looks and removes in two steps and a refused task releases too. *)
THEOREM OneTaskPerGoal ==
    ASSUME OneRunner
    PROVE  PartSpec => []GoalExclusive
<1>1. GuardInv => GoalExclusive
  BY DEF GuardInv, GoalExclusive, Guards!GoalExclusive
<1>. QED  BY <1>1, GuardInvariance, PTL

(* The detector reports an inversion only against the holder of the lock,  *)
(* and only one of lower priority, though it keeps its own copy of who     *)
(* holds what, updated after one store operation and before the other.     *)
THEOREM AlarmsAreTrue ==
    ASSUME OneRunner
    PROVE  PartSpec => NoFalseAlarm
<1>. DEFINE True(r) ==
        inversion'[r] # Nobody /\ inversion[r] = Nobody =>
            /\ locks[Guards!GoalFor(r)] = inversion'[r].blocker
            /\ GuardPriority[inversion'[r].blocker] < GuardPriority[TaskOf[r]]
<1>1. ASSUME GuardInv, Guards!Next, NEW r \in Runner
      PROVE  True(r)
  <2>1. CASE Guards!record_task_blocks(r)
    <3>. DEFINE owner == ownership[Guards!GoalFor(r)]
                inverted == /\ owner # Nobody
                            /\ GuardPriority[TaskOf[r]] > GuardPriority[owner]
    <3>1. inversion'[r] = IF inverted THEN [waiter |-> TaskOf[r], blocker |-> owner]
                          ELSE Nobody
      BY <1>1, <2>1 DEF Guards!record_task_blocks, GuardInv
    <3>2. CASE inverted
      <4>1. inversion'[r].blocker = owner
        BY <3>1, <3>2
      <4>2. Guards!GoalFor(r) \in Goal
        BY GuardAssumption, GoalType
      <4>3. PICK q \in Runner : /\ pc[q] \in Recorded
                                /\ Guards!GoalFor(q) = Guards!GoalFor(r)
                                /\ TaskOf[q] = owner
        BY <1>1, <3>2, <4>2 DEF GuardInv
      <4>4. locks[Guards!GoalFor(r)] = owner
        BY <1>1, <4>3 DEF GuardInv, Recorded, Guards!Holding
      <4>5. GuardPriority[owner] \in Int /\ GuardPriority[TaskOf[r]] \in Int
        BY <4>3, GuardAssumption, GoalType DEF Guards!GuardTypes
      <4>. QED  BY <3>2, <4>1, <4>4, <4>5
    <3>3. CASE ~inverted
      BY <3>1, <3>3
    <3>. QED  BY <3>2, <3>3
  <2>2. ASSUME NEW q \in Runner, q # r, Guards!record_task_blocks(q)
        PROVE  inversion'[r] = inversion[r]
    BY <1>1, <2>2 DEF Guards!record_task_blocks, GuardInv
  <2>3. ASSUME NEW q \in Runner, Guards!PushRecord(q)
        PROVE  inversion'[r] \in {inversion[r], Nobody}
    BY <1>1, <2>3 DEF Guards!PushRecord, GuardInv
  <2>4. ASSUME inversion' = inversion
        PROVE  True(r)
    BY <2>4
  <2>. QED
    BY <1>1, <2>1, <2>2, <2>3, <2>4
       DEF Guards!Next, Guards!Guard, Guards!ModeChanges, Guards!clear_history,
           Guards!clear_locks, Guards!Admit, Guards!Lock,
           Guards!record_lock_acquire, Guards!Begin, Guards!Finish,
           Guards!ReleaseRead, Guards!ReleaseRemove, Guards!charge_tokens,
           Guards!Stop, Guards!check, Guards!Timer, Guards!TimerFires,
           Guards!TimerSets, Guards!RunAgain, Guards!detector
<1>2. GuardInv /\ [Guards!Next]_(Guards!vars) =>
          [\A r \in Runner : True(r)]_(Guards!vars)
  BY <1>1
<1>. QED
  BY <1>2, GuardInvariance, PartIsGuards, PTL
     DEF PartSpec, NoFalseAlarm, Guards!NoFalseAlarm

=============================================================================
