--------------------------- MODULE StubScheduler ---------------------------
(***************************************************************************)
(* The queue the coordinator deploys, crates/scheduler/src/stub.rs, as     *)
(* functions of its VecDeque.  Each runs under the queue's mutex.          *)
(***************************************************************************)
LOCAL INSTANCE Naturals
LOCAL INSTANCE Sequences
LOCAL INSTANCE SequencesExt

Entry(t, attempt) == [task_id |-> t, attempt |-> attempt]

(* enqueue does not look for a duplicate.                                  *)
StubEnqueue(q, t) == Append(q, Entry(t, 0))

(* dequeue pops the front; the mutant leaves the entry in the queue.       *)
StubPeek(q) == q
StubPop(q) == Tail(q)

(* requeue finds an entry only if the task is still queued; it then        *)
(* changes that entry and appends a copy.  A task that was dequeued is not *)
(* found, and nothing happens.                                             *)
Queued(q, t) == \E i \in DOMAIN q : q[i].task_id = t

StubRequeue(q, t, attempt) ==
    IF Queued(q, t)
    THEN LET first == SelectInSeq(q, LAMBDA e : e.task_id = t)
         IN  Append([q EXCEPT ![first] = Entry(t, attempt)], Entry(t, attempt))
    ELSE q

(* discard does nothing.                                                   *)
StubDiscard(q, t) == q

=============================================================================
