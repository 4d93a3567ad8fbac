---------------------------- MODULE LoadControl ----------------------------
(***************************************************************************)
(* Load control of crates/core: the four queues of PriorityQueueManager    *)
(* (priority_queue.rs) behind the depth limit of QueueBackpressureManager  *)
(* (queue_backpressure.rs), both shared by clones.                         *)
(*                                                                         *)
(* A step is one atomic operation or one critical section.  try_enqueue is *)
(* two (load and fetch_add), dequeue_task is one per queue it locks, with  *)
(* the degradation mode its caller read before; total_depth is changed     *)
(* under the lock of the queue that changes.                               *)
(*                                                                         *)
(* External: the callers, who reserve with try_enqueue before they queue a *)
(* task, and after taking one give its place back with dequeue; clear and  *)
(* reset come from anybody at any time ("testing or recovery").            *)
(***************************************************************************)
EXTENDS Integers, FiniteSets, Sequences, Functions

CONSTANTS
    Producer,
    Consumer,
    Task,
    NoTask,
    PriorityOf,          \* the priority of each task
    max_queue_depth,
    moderate_threshold,  \* percentages of max_queue_depth
    high_threshold,
    critical_threshold,
    Word,                \* modulus of the counters, 2^64 in the code
    MaxRecoveries        \* bound: how often clear or reset is called

Priority == 0..3         \* Low, Normal, High, Critical
Low == 0
Critical == 3

ASSUME ActorAssumption ==
    /\ IsFiniteSet(Producer) /\ Producer # {}
    /\ IsFiniteSet(Consumer)
ASSUME TaskAssumption == NoTask \notin Task /\ PriorityOf \in [Task -> Priority]
ASSUME ConfigAssumption ==
    /\ max_queue_depth \in Nat \ {0}
    /\ {moderate_threshold, high_threshold, critical_threshold} \subseteq Nat
    /\ Word \in Nat /\ Word > max_queue_depth + Cardinality(Producer)
    /\ MaxRecoveries \in Nat

VARIABLES
    queues,         \* the four VecDeques
    total_depth,    \* PriorityQueueManager: atomic
    current_depth,  \* QueueBackpressureManager: atomic
    producer,       \* where each producer is, and with which task
    consumer,       \* where each consumer is
    submitted,      \* tasks that were let in: identifiers are fresh
    recoveries      \* how often clear or reset has been called

vars == <<queues, total_depth, current_depth, producer, consumer, submitted,
          recoveries>>

NotProducing == [pc |-> "idle", task |-> NoTask]
NotConsuming == [pc |-> "idle", task |-> NoTask, todo |-> {}, before |-> {}]

Init ==
    /\ queues = [p \in Priority |-> <<>>]
    /\ total_depth = 0
    /\ current_depth = 0
    /\ producer = [x \in Producer |-> NotProducing]
    /\ consumer = [c \in Consumer |-> NotConsuming]
    /\ submitted = {}
    /\ recoveries = 0

-----------------------------------------------------------------------------
(* QueueBackpressureManager                                                *)

(* (max_queue_depth as f64 * threshold) as usize *)
DepthAt(threshold) == (max_queue_depth * threshold) \div 100

DegradationMode ==
    LET Reached(threshold) == current_depth >= DepthAt(threshold)
    IN  IF Reached(critical_threshold) THEN "Critical"
        ELSE IF Reached(high_threshold) THEN "High"
        ELSE IF Reached(moderate_threshold) THEN "Moderate"
        ELSE "Normal"

(* The mutant rejects one too late.                                        *)
FullLate == current_depth > max_queue_depth
Full == current_depth >= max_queue_depth

(* try_enqueue, the load.  An Err changes nothing: the caller may come     *)
(* back with the same task.                                                *)
TryEnqueue(x, t) ==
    /\ producer[x].pc = "idle"
    /\ t \notin submitted
    /\ ~Full
    /\ submitted' = submitted \cup {t}
    /\ producer' = [producer EXCEPT ![x] = [pc |-> "adding", task |-> t]]
    /\ UNCHANGED <<queues, total_depth, current_depth, consumer, recoveries>>

(* try_enqueue, the fetch_add.                                             *)
Add(x) ==
    /\ producer[x].pc = "adding"
    /\ current_depth' = (current_depth + 1) % Word
    /\ producer' = [producer EXCEPT ![x] =
                       [pc |-> "pushing", task |-> producer[x].task]]
    /\ UNCHANGED <<queues, total_depth, consumer, submitted, recoveries>>

(* dequeue subtracts without a check.  The mutant gives nothing back.      *)
KeepPlace(c) ==
    /\ consumer[c].pc = "taken"
    /\ consumer' = [consumer EXCEPT ![c] = NotConsuming]
    /\ UNCHANGED <<queues, total_depth, current_depth, producer, submitted,
                   recoveries>>

GiveBack(c) ==
    /\ consumer[c].pc = "taken"
    /\ current_depth' = (current_depth - 1) % Word
    /\ consumer' = [consumer EXCEPT ![c] = NotConsuming]
    /\ UNCHANGED <<queues, total_depth, producer, submitted, recoveries>>

Reset ==
    /\ current_depth' = 0
    /\ recoveries < MaxRecoveries
    /\ recoveries' = recoveries + 1
    /\ UNCHANGED <<queues, total_depth, producer, consumer, submitted>>

-----------------------------------------------------------------------------
(* PriorityQueueManager                                                    *)

Push(x) ==
    LET t == producer[x].task
    IN  /\ producer[x].pc = "pushing"
        /\ queues' = [queues EXCEPT ![PriorityOf[t]] = Append(@, t)]
        /\ total_depth' = (total_depth + 1) % Word
        /\ producer' = [producer EXCEPT ![x] = NotProducing]
        /\ UNCHANGED <<current_depth, consumer, submitted, recoveries>>

(* The queues a mode lets dequeue_task look at.  The mutant is off by one  *)
(* in Critical mode.                                                       *)
AccessibleShifted(mode) ==
    CASE mode \in {"Normal", "Moderate"} -> Priority
      [] mode = "High" -> Priority \ {Low}
      [] mode = "Critical" -> {Critical - 1}

Accessible(mode) ==
    CASE mode \in {"Normal", "Moderate"} -> Priority
      [] mode = "High" -> Priority \ {Low}
      [] mode = "Critical" -> {Critical}

Waiting(p) == Range(queues[p])

(* The caller reads the mode and calls dequeue_task.                       *)
ReadMode(c) ==
    LET todo == Accessible(DegradationMode)
    IN  /\ consumer[c].pc = "idle"
        /\ consumer' = [consumer EXCEPT ![c] =
                           [pc |-> "scanning", task |-> NoTask, todo |-> todo,
                            before |-> UNION {Waiting(p) : p \in todo}]]
        /\ UNCHANGED <<queues, total_depth, current_depth, producer, submitted,
                       recoveries>>

(* The next queue of the scan: the highest that is left; the mutant starts *)
(* with the lowest.                                                        *)
NextLowest(c, p) == p \in consumer[c].todo /\ \A q \in consumer[c].todo : q >= p
NextQueue(c, p) == p \in consumer[c].todo /\ \A q \in consumer[c].todo : q <= p

(* It is empty: go on, and return None after the last.                     *)
Skip(c, p) ==
    /\ consumer[c].pc = "scanning"
    /\ NextQueue(c, p)
    /\ queues[p] = <<>>
    /\ consumer' = [consumer EXCEPT ![c] =
                       IF consumer[c].todo = {p} THEN NotConsuming
                       ELSE [pc |-> "scanning", task |-> NoTask,
                             todo |-> consumer[c].todo \ {p},
                             before |-> consumer[c].before]]
    /\ UNCHANGED <<queues, total_depth, current_depth, producer, submitted,
                   recoveries>>

(* It is not: pop the front.                                               *)
Take(c, p) ==
    /\ consumer[c].pc = "scanning"
    /\ NextQueue(c, p)
    /\ queues[p] # <<>>
    /\ queues' = [queues EXCEPT ![p] = Tail(@)]
    /\ total_depth' = (total_depth - 1) % Word
    /\ consumer' = [consumer EXCEPT ![c] =
                       [pc |-> "taken", task |-> Head(queues[p]),
                        todo |-> {}, before |-> {}]]
    /\ UNCHANGED <<current_depth, producer, submitted, recoveries>>

(* clear holds all four locks.                                             *)
Clear ==
    /\ queues' = [p \in Priority |-> <<>>]
    /\ total_depth' = 0
    /\ recoveries < MaxRecoveries
    /\ recoveries' = recoveries + 1
    /\ UNCHANGED <<current_depth, producer, consumer, submitted>>

Produce(x) == Add(x) \/ Push(x) \/ \E t \in Task : TryEnqueue(x, t)

Consume(c) ==
    ReadMode(c) \/ GiveBack(c) \/ \E p \in Priority : Skip(c, p) \/ Take(c, p)

Next ==
    \/ \E x \in Producer : Produce(x)
    \/ \E c \in Consumer : Consume(c)
    \/ Reset
    \/ Clear

Spec == Init /\ [][Next]_vars

(* Consumers poll.                                                         *)
FairSpec == Spec /\ \A c \in Consumer : WF_vars(Consume(c))

-----------------------------------------------------------------------------
(* Properties.                                                             *)

(* Types; the counters are words.                                          *)
TypeOK ==
    /\ queues \in [Priority -> Seq(Task)]
    /\ total_depth \in 0..(Word - 1)
    /\ current_depth \in 0..(Word - 1)
    /\ producer \in [Producer -> [pc : {"idle", "adding", "pushing"},
                                  task : Task \cup {NoTask}]]
    /\ \A x \in Producer : producer[x].pc # "idle" => producer[x].task \in Task
    /\ consumer \in [Consumer -> [pc : {"idle", "scanning", "taken"},
                                  task : Task \cup {NoTask},
                                  todo : SUBSET Priority, before : SUBSET Task]]
    /\ submitted \in SUBSET Task
    /\ recoveries \in 0..MaxRecoveries

Queued == Len(queues[0]) + Len(queues[1]) + Len(queues[2]) + Len(queues[3])

Adding == {x \in Producer : producer[x].pc = "adding"}
Pushing == {x \in Producer : producer[x].pc = "pushing"}
Taken == {c \in Consumer : consumer[c].pc = "taken"}

(* The limiter's counter accounts for every task: it is the number of      *)
(* tasks queued, about to be queued, or taken and not yet given back.  So  *)
(* dequeue does not wrap it below zero.                                    *)
DepthAccounts ==
    recoveries = 0 =>
        current_depth = Queued + Cardinality(Pushing) + Cardinality(Taken)

(* try_enqueue checks and adds in two steps, so the limit can be passed,   *)
(* but by no more than the number of other producers, and by fewer while   *)
(* some have checked and not yet added.                                    *)
OvershootBounded ==
    recoveries = 0 =>
        current_depth + Cardinality(Adding)
            <= max_queue_depth + Cardinality(Producer) - 1

(* dequeue_task hands out the highest priority it may: a task that was     *)
(* waiting when the scan began, in a queue the mode allows, is not passed  *)
(* over for one of lower priority, however other consumers interfere.      *)
PriorityRespected ==
    [][\A c \in Consumer :
          consumer[c].pc = "scanning" /\ consumer'[c].pc = "taken" =>
              \A t \in consumer[c].before :
                  PriorityOf[t] > PriorityOf[consumer'[c].task] =>
                      t \notin Waiting(PriorityOf[t])]_vars

(* "Critical queue: System-critical work (always accessible)": in every    *)
(* mode a Critical task that waits is handed out, even after a recovery    *)
(* has left the limiter's counter wrong.                                   *)
CriticalServed ==
    \A t \in Task : PriorityOf[t] = Critical =>
        (t \in Waiting(Critical) ~> t \notin Waiting(Critical))

-----------------------------------------------------------------------------
(* Claims of the documentation that the code does not keep.  README.md     *)
(* says for which values of the constants TLC refutes each.                *)

(* queue_backpressure.rs: "Maximum queue depth before rejection".          *)
LimitKept == recoveries = 0 => current_depth <= max_queue_depth

(* queue_backpressure.rs, reset: "for testing or recovery".  After a       *)
(* recovery the counter is still a count of something.                     *)
CounterSane == current_depth <= max_queue_depth + Cardinality(Producer)

(* priority_queue.rs: "Graceful degradation".  A Normal task that waits is *)
(* handed out eventually: not when the limiter is in Critical mode because *)
(* of such tasks alone, since only taking them would lower the depth.      *)
BacklogDrains ==
    \A t \in Task : PriorityOf[t] = 1 => (t \in Waiting(1) ~> t \notin Waiting(1))

=============================================================================
