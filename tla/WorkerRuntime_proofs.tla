------------------------ MODULE WorkerRuntime_proofs ------------------------
(***************************************************************************)
(* Proofs about WorkerRuntime, for any number of runtimes and tasks, any   *)
(* retry policy, and with faults, crashes, refusals and cancellations.     *)
(*                                                                         *)
(* Leases do not make a task exclusive by themselves: insert checks and    *)
(* inserts in two steps, and every update writes back a copy.  What does   *)
(* is that a task enqueued once is dequeued once: the requeues of the      *)
(* code find no entry to put back.  So there is one place a task can be in *)
(* before it has a lease (OnePlace), one runtime takes the lease, and no   *)
(* copy that anybody holds names another (CopiesAgree).                    *)
(***************************************************************************)
EXTENDS WorkerRuntime, TLAPS

LeaseType ==
    [state : {"None", "Active", "Completed", "Failed", "Expired", "Cancelled"},
     worker_id : Worker \cup {"none"}, attempt : Nat, expired : BOOLEAN]

Early == {"allocating", "acquiring", "inserting"}
Closing == {"Complete", "Abandon", "Retry"}
WorkerPc == Early \cup Closing \cup
    {"idle", "leased", "executing", "draining", "deciding", "backoff", "crashed"}

(* The types of the state, part by part; a runtime that is in execute_task *)
(* has a task.                                                             *)
QueueType ==
    /\ queue \in Seq([task_id : Task, attempt : Nat])
    /\ submits \in [Task -> Nat]

LeasesType == leases \in [Task -> LeaseType]

WorkerRecord ==
    [pc : WorkerPc, task_id : Task \cup {NoTask}, attempt : Nat,
     outcome : Outcome, copy : LeaseType]

WorkerType ==
    /\ worker \in [Worker -> WorkerRecord]
    /\ \A w \in Worker : worker[w].pc \in {"idle", "crashed"} \/ Current(w) \in Task

TokenType ==
    /\ active_tasks \in [Worker -> SUBSET Task]
    /\ signalled \in [Worker -> SUBSET Task]

HeartbeatRecord == [pc : {"off", "ticking", "renewing"}, copy : LeaseType]

HeartbeatType == heartbeat \in [Worker -> [Task -> HeartbeatRecord]]

ReaperType ==
    reaper \in [Worker -> [pc : {"waiting", "scanning", "expiring", "dead"},
                           scan : SUBSET Task,
                           copies : SUBSET (Task \X LeaseType),
                           collected : SUBSET (Task \X LeaseType)]]

CancelType ==
    canceller \in [Task -> [pc : {"off", "looking", "cancelling", "writing",
                                 "discarding", "cancelled", "failed"},
                           by : Worker \cup {"none"}, copy : LeaseType]]

TypeOK ==
    /\ QueueType /\ LeasesType /\ WorkerType /\ TokenType
    /\ HeartbeatType /\ ReaperType /\ CancelType

(* The runtime the store's lease of t names, or "none".                    *)
HolderOf(t) == leases[t].worker_id

(* The runtimes that have dequeued t and have not taken its lease yet.     *)
Ahead(t) == {w \in Worker : Current(w) = t /\ worker[w].pc \in Early}

(* A task is not submitted, or in one place of the queue, or with one      *)
(* runtime that has no lease yet, or it has a lease.                       *)
OnePlace(t) ==
    /\ \A i, j \in DOMAIN queue :
           queue[i].task_id = t /\ queue[j].task_id = t => i = j
    /\ submits[t] = 0 => ~Queued(queue, t) /\ Ahead(t) = {}
    /\ Queued(queue, t) => Ahead(t) = {}
    /\ \A v, w \in Ahead(t) : v = w
    /\ submits[t] = 0 \/ Queued(queue, t) \/ Ahead(t) # {} => HolderOf(t) = "none"
    /\ HolderOf(t) = "none" => ~Leased(leases[t])

(* Whoever works on t, or renews its lease, is who the lease names.        *)
OneHolder(t) ==
    \A w \in Worker : w \in OnTask(t) \/ heartbeat[w][t].pc # "off" =>
        HolderOf(t) = w

(* So does every copy of the lease that will be written back: by a runtime *)
(* that is done, a heartbeat, a reaper (which requeues what it collected)  *)
(* and a cancellation.                                                     *)
WorkerCopies(t) ==
    \A w \in Worker : Current(w) = t /\ worker[w].pc \in Closing =>
        worker[w].copy.worker_id = HolderOf(t)

HeartbeatCopies(t) ==
    \A w \in Worker : heartbeat[w][t].pc = "renewing" =>
        heartbeat[w][t].copy.worker_id = HolderOf(t)

ReaperCopies(t) ==
    \A w \in Worker :
        /\ \A c \in reaper[w].copies : c[1] = t =>
               HolderOf(t) # "none" /\ c[2].worker_id = HolderOf(t)
        /\ \A c \in reaper[w].collected : c[1] = t => HolderOf(t) # "none"

CancelCopies(t) ==
    /\ canceller[t].pc \in {"cancelling", "writing"} => HolderOf(t) # "none"
    /\ canceller[t].pc = "writing" => canceller[t].copy.worker_id = HolderOf(t)

CopiesAgree(t) ==
    WorkerCopies(t) /\ HeartbeatCopies(t) /\ ReaperCopies(t) /\ CancelCopies(t)

TaskInv(t) == OnePlace(t) /\ OneHolder(t) /\ CopiesAgree(t)

(* The inductive invariant: of every task that was enqueued once so far.   *)
OnceInv == \A t \in Task : submits[t] <= 1 => TaskInv(t)

-----------------------------------------------------------------------------
(* Facts about the operators.                                              *)

LEMMA LeaseOps ==
    /\ NoLease \in LeaseType
    /\ \A l \in LeaseType : Renewed(l) \in LeaseType
                            /\ Renewed(l).worker_id = l.worker_id
    /\ \A l \in LeaseType : \A state \in {"Completed", "Failed", "Expired", "Cancelled"} :
           /\ WithState(l, state) \in LeaseType
           /\ WithState(l, state).worker_id = l.worker_id
    /\ \A w \in Worker, a \in Nat : NewLease(w, a) \in LeaseType
                                   /\ NewLease(w, a).worker_id = w
BY DEF LeaseType, NoLease, NewLease, Renewed, WithState

(* requeue of stub.rs: it puts no other task in a new place, and nothing   *)
(* at all back that is not queued.                                         *)
LEMMA RequeueOps ==
    ASSUME TypeOK, NEW u \in Task, NEW a \in Nat, Requeue(u, a)
    PROVE  /\ queue' \in Seq([task_id : Task, attempt : Nat])
           /\ ~Queued(queue, u) => queue' = queue
           /\ \A i \in DOMAIN queue' : queue'[i].task_id # u =>
                 i \in DOMAIN queue /\ queue'[i] = queue[i]
<1> DEFINE E == [task_id : Task, attempt : Nat]
           e == Entry(u, a)
<1>1. queue \in Seq(E) /\ e \in E /\ e.task_id = u
  BY DEF TypeOK, QueueType, Entry
<1>2. CASE queue' = queue
  BY <1>1, <1>2
<1>3. CASE queue' # queue
  <2>1. queue' = StubRequeue(queue, u, a) /\ Queued(queue, u)
    BY <1>3 DEF Requeue, StubRequeue
  <2>2. PICK n : queue' = Append([queue EXCEPT ![n] = e], e)
    BY <2>1 DEF StubRequeue
  <2> HIDE DEF e, E
  <2>3. PICK r : r = [queue EXCEPT ![n] = e]
    OBVIOUS
  <2>4. /\ r \in Seq(E) /\ Len(r) = Len(queue) /\ DOMAIN r = DOMAIN queue
        /\ \A i \in DOMAIN r : r[i] = e \/ r[i] = queue[i]
    <3>1. /\ Len(queue) \in Nat /\ DOMAIN queue = 1..Len(queue)
          /\ queue \in [1..Len(queue) -> E]
      BY <1>1
    <3>2. r \in [1..Len(queue) -> E]
      BY <1>1, <2>3, <3>1
    <3>3. \A i \in DOMAIN r : r[i] = e \/ r[i] = queue[i]
      BY <2>3, <3>1, Zenon
    <3>4. r \in Seq(E) /\ Len(r) = Len(queue)
      BY <3>1, <3>2
    <3> QED
      BY <3>1, <3>2, <3>3, <3>4
  <2>5. /\ queue' \in Seq(E)
        /\ \A i \in DOMAIN queue' :
               queue'[i] = e \/ (i \in DOMAIN r /\ queue'[i] = r[i])
    BY <1>1, <2>2, <2>3, <2>4
  <2> QED
    BY <1>1, <2>1, <2>4, <2>5 DEF E
<1> QED
  BY <1>2, <1>3

-----------------------------------------------------------------------------
(* Types.                                                                  *)

LEMMA InitType == Init => TypeOK
<1> SUFFICES ASSUME Init PROVE TypeOK
  OBVIOUS
<1>1. QueueType /\ LeasesType /\ TokenType
  BY LeaseOps DEF Init, QueueType, LeasesType, TokenType
<1>2. WorkerType
  BY LeaseOps DEF Init, WorkerType, WorkerRecord, Idle, Outcome, WorkerPc
<1>3. HeartbeatType /\ ReaperType /\ CancelType
  BY LeaseOps
     DEF Init, HeartbeatType, HeartbeatRecord, ReaperType, CancelType, Off, Resting,
         CancelEnded
<1> QED
  BY <1>1, <1>2, <1>3 DEF TypeOK

(* What a step leaves alone keeps its type.                                *)
LEMMA Unmoved ==
    ASSUME TypeOK
    PROVE  /\ queue' = queue /\ submits' = submits => QueueType'
           /\ leases' = leases => LeasesType'
           /\ worker' = worker => WorkerType'
           /\ active_tasks' = active_tasks /\ signalled' = signalled => TokenType'
           /\ heartbeat' = heartbeat => HeartbeatType'
           /\ reaper' = reaper => ReaperType'
           /\ canceller' = canceller => CancelType'
BY DEF TypeOK, QueueType, LeasesType, WorkerType, TokenType, HeartbeatType,
       ReaperType, CancelType, Current

LEMMA PutType ==
    ASSUME LeasesType, NEW t \in Task, NEW l \in LeaseType, Put(t, l)
    PROVE  LeasesType'
BY DEF LeasesType, Put

LEMMA MoveType ==
    ASSUME WorkerType, NEW w \in Worker, NEW r \in WorkerRecord,
           r.pc \in {"idle", "crashed"} \/ r.task_id \in Task,
           worker' = [worker EXCEPT ![w] = r]
    PROVE  WorkerType'
BY DEF WorkerType, Current

LEMMA BeatType ==
    ASSUME HeartbeatType, NEW w \in Worker, NEW t \in Task,
           NEW r \in HeartbeatRecord, heartbeat' = [heartbeat EXCEPT ![w][t] = r]
    PROVE  HeartbeatType'
<1>1. [heartbeat[w] EXCEPT ![t] = r] \in [Task -> HeartbeatRecord]
  BY DEF HeartbeatType
<1> QED
  BY <1>1 DEF HeartbeatType

LEMMA FrontType ==
    ASSUME NEW S, NEW q \in Seq(S), q # <<>>
    PROVE  Head(q) \in S /\ Tail(q) \in Seq(S) /\ Head(q) = q[1]
OBVIOUS

LEMMA GotoType ==
    ASSUME WorkerType, NEW w \in Worker, ~At(w, "idle"), ~At(w, "crashed"),
           NEW pc \in WorkerPc, Goto(w, pc)
    PROVE  WorkerType'
BY DEF WorkerType, WorkerRecord, Goto, At, Current

LEMMA ReturnType ==
    ASSUME WorkerType, TokenType, NEW w \in Worker, Return(w), signalled' = signalled
    PROVE  WorkerType' /\ TokenType'
<1>1. Idle \in WorkerRecord /\ Idle.pc = "idle"
  BY LeaseOps DEF Idle, WorkerRecord, WorkerPc, Outcome
<1>2. WorkerType'
  BY <1>1 DEF WorkerType, Return, Current
<1>3. TokenType'
  BY DEF TokenType, Return
<1> QED
  BY <1>2, <1>3

LEMMA NextType == TypeOK /\ [Next]_vars => TypeOK'
<1> SUFFICES ASSUME TypeOK, [Next]_vars
             PROVE  TypeOK'
  OBVIOUS
<1> USE DEF TypeOK
<1>1. ASSUME NEW t \in Task, Enqueue(t)
      PROVE  TypeOK'
  <2>1. QueueType'
    BY <1>1 DEF Enqueue, QueueType, StubEnqueue, Entry
  <2> QED
    BY <1>1, <2>1, Unmoved
       DEF Enqueue
<1>2. ASSUME NEW t \in Task, Expire(t)
      PROVE  TypeOK'
  <2>1. leases[t] \in LeaseType /\ [leases[t] EXCEPT !.expired = TRUE] \in LeaseType
    BY <1>2 DEF LeasesType, LeaseType
  <2>2. LeasesType'
    BY <1>2, <2>1 DEF Expire, LeasesType
  <2> QED
    BY <1>2, <2>1, <2>2, Unmoved
       DEF Expire
<1>3. ASSUME NEW t \in Task, CancelStep(t) \/ CancelFault(t)
      PROVE  TypeOK'
  <2>1. LeasesType'
    BY <1>3, LeaseOps, PutType, Unmoved
       DEF CancelStep, CancelLook, CancelRead, CancelWrite, CancelDiscard,
           CancelFault, CancelType
  <2>2. CancelType'
    BY <1>3, LeaseOps
       DEF CancelStep, CancelLook, CancelRead, CancelWrite, CancelDiscard,
           CancelFault, CancelEnded, CancelType, LeasesType
  <2> QED
    BY <1>3, <2>1, <2>2, Unmoved
       DEF CancelStep, CancelLook, CancelRead, CancelWrite, CancelDiscard,
           CancelFault, StubDiscard
<1>4. ASSUME NEW w \in Worker, Dequeue(w)
      PROVE  TypeOK'
  <2>1. Head(queue) \in [task_id : Task, attempt : Nat]
    BY <1>4, FrontType DEF Dequeue, QueueType
  <2>2. WorkerType'
    <3> DEFINE r == [worker[w] EXCEPT !.pc = "allocating",
                                      !.task_id = Head(queue).task_id,
                                      !.attempt = Head(queue).attempt]
    <3>1. r \in WorkerRecord /\ r.task_id \in Task
      BY <2>1 DEF WorkerType, WorkerRecord, WorkerPc, Early
    <3>2. worker' = [worker EXCEPT ![w] = r]
      BY <1>4 DEF Dequeue
    <3> QED
      BY <3>1, <3>2, MoveType
  <2>3. QueueType'
    BY <1>4, FrontType DEF Dequeue, QueueType, StubPop
  <2> QED
    BY <1>4, <2>1, <2>2, <2>3, Unmoved
       DEF Dequeue
<1>5. ASSUME NEW w \in Worker, Allocate(w) \/ Drain(w)
      PROVE  TypeOK'
  <2>1. WorkerType'
    BY <1>5, GotoType DEF Allocate, Drain, At, WorkerPc, Early
  <2> QED
    BY <1>5, <2>1, Unmoved
       DEF Allocate, Drain
<1>6. ASSUME NEW w \in Worker, AcquireCheck(w)
      PROVE  TypeOK'
  <2>1. WorkerType' /\ TokenType'
    BY <1>6, GotoType, ReturnType
       DEF AcquireCheck, At, WorkerPc, Early, TokenType
  <2> QED
    BY <1>6, <2>1, Unmoved
       DEF AcquireCheck
<1>7. ASSUME NEW w \in Worker, AcquireInsert(w)
      PROVE  TypeOK'
  <2>1. Current(w) \in Task /\ AttemptOf(w) \in Nat
    BY <1>7 DEF AcquireInsert, At, AttemptOf, WorkerType, WorkerRecord
  <2>2. LeasesType'
    BY <1>7, <2>1, LeaseOps, PutType DEF AcquireInsert
  <2>3. WorkerType'
    BY <1>7, GotoType DEF AcquireInsert, At, WorkerPc
  <2> QED
    BY <1>7, <2>1, <2>2, <2>3, Unmoved
       DEF AcquireInsert
<1>8. ASSUME NEW w \in Worker, Start(w)
      PROVE  TypeOK'
  <2>1. Current(w) \in Task
    BY <1>8 DEF Start, At, WorkerType
  <2>2. WorkerType'
    BY <1>8, GotoType DEF Start, At, WorkerPc
  <2>3. TokenType'
    BY <1>8, <2>1 DEF Start, TokenType
  <2>4. HeartbeatType'
    <3> DEFINE r == [heartbeat[w][Current(w)] EXCEPT !.pc = "ticking"]
    <3>1. r \in HeartbeatRecord
      BY <2>1 DEF HeartbeatType, HeartbeatRecord
    <3>2. heartbeat' = [heartbeat EXCEPT ![w][Current(w)] = r]
      BY <1>8 DEF Start
    <3> QED
      BY <2>1, <3>1, <3>2, BeatType
  <2> QED
    BY <1>8, <2>1, <2>2, <2>3, <2>4, Unmoved
       DEF Start
<1>9. ASSUME NEW w \in Worker, NEW o \in Outcome, Exit(w, o)
      PROVE  TypeOK'
  <2>1. WorkerType'
    BY <1>9, ZenonT(40) DEF Exit, At, WorkerType, WorkerRecord, Current, WorkerPc
  <2> QED
    BY <1>9, <2>1, Unmoved
       DEF Exit
<1>10. ASSUME NEW w \in Worker, ReadLease(w)
      PROVE  TypeOK'
  <2>1. Current(w) \in Task /\ leases[Current(w)] \in LeaseType
    BY <1>10 DEF ReadLease, At, WorkerType, LeasesType
  <2>2. PICK d \in Closing : worker' = [worker EXCEPT ![w].pc = d, ![w].copy = leases[Current(w)]]
    BY <1>10 DEF ReadLease, Decide, Closing
  <2>3. WorkerType'
    <3> DEFINE r == [worker[w] EXCEPT !.pc = d, !.copy = leases[Current(w)]]
    <3>1. r \in WorkerRecord /\ r.task_id \in Task
      BY <2>1 DEF WorkerType, WorkerRecord, WorkerPc, Current
    <3>2. worker' = [worker EXCEPT ![w] = r]
      BY <2>2
    <3> QED
      BY <3>1, <3>2, MoveType
  <2> QED
    BY <1>10, <2>1, <2>2, <2>3, Unmoved
       DEF ReadLease
<1>11. ASSUME NEW w \in Worker, WriteLease(w)
      PROVE  TypeOK'
  <2>1. Current(w) \in Task /\ worker[w].copy \in LeaseType
    BY <1>11 DEF WriteLease, At, WorkerType, WorkerRecord
  <2>2. LeasesType'
    BY <1>11, <2>1, LeaseOps, PutType DEF WriteLease
  <2>3. WorkerType' /\ TokenType'
    <3>1. CASE At(w, "Retry")
      <4> DEFINE r == [worker[w] EXCEPT !.pc = "backoff", !.copy = NoLease]
      <4> NoLease \in LeaseType
        BY LeaseOps
      <4>1. r \in WorkerRecord /\ r.task_id \in Task
        BY <2>1 DEF WorkerType, WorkerRecord, WorkerPc, Current
      <4>2. worker' = [worker EXCEPT ![w] = r]
        BY <1>11, <3>1 DEF WriteLease
      <4> QED
        BY <1>11, <3>1, <4>1, <4>2, MoveType, Unmoved DEF WriteLease
    <3>2. CASE ~At(w, "Retry")
      BY <1>11, <3>2, ReturnType DEF WriteLease
    <3> QED
      BY <3>1, <3>2
  <2> QED
    BY <1>11, <2>1, <2>2, <2>3, Unmoved
       DEF WriteLease
<1>12. ASSUME NEW w \in Worker, Refuse(w) \/ AcquireFault(w) \/ RetryRequeue(w)
      PROVE  TypeOK'
  <2>1. Current(w) \in Task /\ AttemptOf(w) \in Nat /\ AttemptOf(w) + 1 \in Nat
    BY <1>12 DEF Refuse, AcquireFault, RetryRequeue, At, AttemptOf, WorkerType,
           WorkerRecord
  <2>2. queue' \in Seq([task_id : Task, attempt : Nat]) /\ submits' = submits
    BY <1>12, <2>1, RequeueOps DEF Refuse, AcquireFault, RetryRequeue
  <2>3. QueueType'
    BY <1>12, <2>2 DEF QueueType
  <2>4. WorkerType' /\ TokenType'
    BY <1>12, ReturnType DEF Refuse, AcquireFault, RetryRequeue
  <2> QED
    BY <1>12, <2>1, <2>2, <2>3, <2>4, Unmoved
       DEF Refuse, AcquireFault, RetryRequeue
<1>13. ASSUME NEW w \in Worker, ExecuteFault(w) \/ CallFault(w)
      PROVE  TypeOK'
  <2>1. WorkerType' /\ TokenType'
    BY <1>13, ReturnType DEF ExecuteFault, CallFault
  <2> QED
    BY <1>13, <2>1, Unmoved
       DEF ExecuteFault, CallFault
<1>14. ASSUME NEW w \in Worker, Crash(w)
      PROVE  TypeOK'
  <2>1. [Idle EXCEPT !.pc = "crashed"] \in WorkerRecord /\ [Idle EXCEPT !.pc = "crashed"].pc = "crashed"
    BY <1>14, LeaseOps DEF Idle, WorkerRecord, WorkerPc, Outcome
  <2>2. WorkerType'
    BY <1>14, <2>1 DEF Crash, WorkerType, Current
  <2>3. TokenType'
    BY <1>14 DEF Crash, TokenType
  <2>4. HeartbeatType'
    BY <1>14, LeaseOps DEF Crash, HeartbeatType, HeartbeatRecord, Off
  <2>5. ReaperType'
    BY <1>14 DEF Crash, ReaperType, Resting
  <2>6. CancelType'
    BY <1>14, LeaseOps DEF Crash, CancelType, CancelEnded
  <2> QED
    BY <1>14, <2>1, <2>2, <2>3, <2>4, <2>5, <2>6, Unmoved
       DEF Crash
<1>15. ASSUME NEW w \in Worker, NEW t \in Task, HeartbeatStep(w, t) \/ HeartbeatFault(w, t)
      PROVE  TypeOK'
  <2>1. HeartbeatType'
    <3>1. /\ Off \in HeartbeatRecord
          /\ [pc |-> "ticking", copy |-> NoLease] \in HeartbeatRecord
          /\ [pc |-> "renewing", copy |-> leases[t]] \in HeartbeatRecord
      BY LeaseOps DEF Off, HeartbeatRecord, LeasesType
    <3>2. PICK r \in HeartbeatRecord : heartbeat' = [heartbeat EXCEPT ![w][t] = r]
      BY <1>15, <3>1
         DEF HeartbeatStep, HeartbeatRead, HeartbeatWrite, HeartbeatFault
    <3> QED
      BY <3>2, BeatType
  <2>2. LeasesType'
    BY <1>15, LeaseOps, PutType, Unmoved
       DEF HeartbeatStep, HeartbeatRead, HeartbeatWrite, HeartbeatFault,
           HeartbeatType, HeartbeatRecord
  <2> QED
    BY <1>15, <2>1, <2>2, Unmoved
       DEF HeartbeatStep, HeartbeatRead, HeartbeatWrite, HeartbeatFault
<1>16. ASSUME NEW w \in Worker, ReaperScan(w) \/ ReaperRest(w) \/ CollectFault(w) \/ ReaperFault(w)
      PROVE  TypeOK'
  <2>1. ReaperType'
    BY <1>16
       DEF ReaperScan, ReaperRest, CollectFault, ReaperFault, Resting, ReaperType
  <2> QED
    BY <1>16, <2>1, Unmoved
       DEF ReaperScan, ReaperRest, CollectFault, ReaperFault
<1>17. ASSUME NEW w \in Worker, NEW t \in Task, ReaperRead(w, t)
      PROVE  TypeOK'
  <2>1. ReaperType'
    BY <1>17 DEF ReaperRead, ReaperType, LeasesType
  <2> QED
    BY <1>17, <2>1, Unmoved
       DEF ReaperRead
<1>18. ASSUME NEW w \in Worker, ReaperWrite(w)
      PROVE  TypeOK'
  <2>1. ReaperType'
    BY <1>18 DEF ReaperWrite, ReaperType
  <2>2. LeasesType'
    BY <1>18, LeaseOps, PutType DEF ReaperWrite, ReaperType
  <2> QED
    BY <1>18, <2>1, <2>2, Unmoved
       DEF ReaperWrite
<1>19. ASSUME NEW w \in Worker, ReaperRequeue(w)
      PROVE  TypeOK'
  <2>1. \A l \in LeaseType : l.attempt + 1 \in Nat
    BY <1>19 DEF LeaseType
  <2>2. queue' \in Seq([task_id : Task, attempt : Nat]) /\ submits' = submits
    BY <1>19, <2>1, RequeueOps DEF ReaperRequeue, ReaperType
  <2>3. QueueType'
    BY <1>19, <2>2 DEF QueueType
  <2>4. ReaperType'
    BY <1>19 DEF ReaperRequeue, ReaperType
  <2> QED
    BY <1>19, <2>1, <2>2, <2>3, <2>4, Unmoved
       DEF ReaperRequeue
<1>20. ASSUME NEW w \in Worker, NEW t \in Task, CancelCall(w, t)
      PROVE  TypeOK'
  <2>1. TokenType'
    BY <1>20 DEF CancelCall, TokenType
  <2>2. CancelType'
    BY <1>20, LeaseOps DEF CancelCall, CancelType
  <2> QED
    BY <1>20, <2>1, <2>2, Unmoved
       DEF CancelCall
<1>21. CASE UNCHANGED vars
  BY <1>21, Unmoved DEF vars
<1> HIDE DEF TypeOK
<1> QED
  BY <1>1, <1>2, <1>3, <1>4, <1>5, <1>6, <1>7, <1>8, <1>9, <1>10, <1>11, <1>12, <1>13, <1>14, <1>15, <1>16, <1>17, <1>18, <1>19, <1>20, <1>21
     DEF Next, WorkerStep, FaultStep, ReaperStep

-----------------------------------------------------------------------------
(* The invariant of a task that was enqueued once.                         *)

LEMMA InitOnce == Init => OnceInv
<1> SUFFICES ASSUME Init, NEW t \in Task
             PROVE  TaskInv(t)
  BY DEF OnceInv
<1>1. /\ ~Queued(queue, t) /\ leases[t] = NoLease
      /\ \A w \in Worker : /\ worker[w].pc = "idle" /\ Current(w) # t
                          /\ heartbeat[w][t].pc = "off"
                          /\ reaper[w].copies = {} /\ reaper[w].collected = {}
      /\ canceller[t].pc = "off"
  BY TaskAssumption
     DEF Init, Queued, Current, Idle, Off, Resting, CancelEnded
<1>2. OnePlace(t)
  BY <1>1 DEF Init, OnePlace, Ahead, HolderOf, NoLease, Leased
<1>3. OneHolder(t)
  BY <1>1 DEF OneHolder, OnTask
<1>4. CopiesAgree(t)
  BY <1>1 DEF CopiesAgree, WorkerCopies, HeartbeatCopies, ReaperCopies,
              CancelCopies
<1> QED
  BY <1>2, <1>3, <1>4 DEF TaskInv

(* What a step leaves alone keeps its part of the invariant, as long as    *)
(* the lease names the same runtime.                                       *)
LEMMA Kept ==
    ASSUME NEW t \in Task, TaskInv(t), leases'[t].worker_id = leases[t].worker_id
    PROVE  /\ worker' = worker => /\ WorkerCopies(t)' /\ Ahead(t)' = Ahead(t)
                                 /\ OnTask(t)' = OnTask(t)
           /\ heartbeat' = heartbeat => HeartbeatCopies(t)'
           /\ reaper' = reaper => ReaperCopies(t)'
           /\ canceller' = canceller => CancelCopies(t)'
BY DEF TaskInv, CopiesAgree, WorkerCopies, HeartbeatCopies, ReaperCopies,
       CancelCopies, Ahead, OnTask, HolderOf, Current

(* A task that appears nowhere new before its lease keeps its one place.   *)
LEMMA PlaceKept ==
    ASSUME NEW t \in Task, TaskInv(t),
           \A i \in DOMAIN queue' : queue'[i].task_id = t =>
               i \in DOMAIN queue /\ queue[i].task_id = t,
           submits' = submits,
           Ahead(t)' \subseteq Ahead(t),
           leases'[t].worker_id = leases[t].worker_id,
           leases'[t] = leases[t] \/ HolderOf(t) # "none"
    PROVE  OnePlace(t)'
<1>1. Queued(queue', t) => Queued(queue, t)
  BY DEF Queued
<1> QED
  BY <1>1 DEF TaskInv, OnePlace, HolderOf

(* A heartbeat is started by who works on the task.                        *)
LEMMA HolderKept ==
    ASSUME NEW t \in Task, TaskInv(t),
           OnTask(t)' \subseteq OnTask(t),
           \A w \in Worker : heartbeat'[w][t].pc # "off" =>
               heartbeat[w][t].pc # "off" \/ w \in OnTask(t),
           leases'[t].worker_id = leases[t].worker_id
    PROVE  OneHolder(t)'
BY DEF TaskInv, OneHolder, HolderOf

(* A runtime that moves on without taking up the task or its lease.        *)
LEMMA MoveKept ==
    ASSUME TypeOK, NEW t \in Task, TaskInv(t), NEW w \in Worker, NEW r,
           worker' = [worker EXCEPT ![w] = r],
           r.task_id = t =>
               /\ Current(w) = t
               /\ r.pc \in Early <=> worker[w].pc \in Early
               /\ r.pc \in Closing => r.copy.worker_id = HolderOf(t),
           leases'[t].worker_id = leases[t].worker_id
    PROVE  /\ Ahead(t)' \subseteq Ahead(t)
           /\ OnTask(t)' \subseteq OnTask(t)
           /\ WorkerCopies(t)'
<1>1. /\ worker'[w] = r
      /\ \A v \in Worker \ {w} : worker'[v] = worker[v]
  BY DEF TypeOK, WorkerType
<1>2. Ahead(t)' \subseteq Ahead(t)
  BY <1>1 DEF Ahead, Current
<1>3. OnTask(t)' \subseteq OnTask(t)
  BY <1>1 DEF OnTask, Current, Early
<1>4. WorkerCopies(t)'
  BY <1>1 DEF TaskInv, CopiesAgree, WorkerCopies, Current, HolderOf
<1> QED
  BY <1>2, <1>3, <1>4

(* execute_task returns.                                                   *)
LEMMA ReturnKept ==
    ASSUME TypeOK, NEW t \in Task, TaskInv(t), NEW w \in Worker, Return(w),
           leases'[t].worker_id = leases[t].worker_id
    PROVE  /\ Ahead(t)' \subseteq Ahead(t)
           /\ OnTask(t)' \subseteq OnTask(t)
           /\ WorkerCopies(t)'
<1>1. Idle.task_id # t
  BY TaskAssumption DEF Idle
<1> QED
  BY <1>1, MoveKept DEF Return

(* Who works on a task, and whoever has just dequeued it, finds it not     *)
(* queued: requeue puts nothing back.                                      *)
LEMMA RequeueKept ==
    ASSUME TypeOK, NEW t \in Task, NEW u \in Task, NEW a \in Nat, Requeue(u, a),
           u = t => ~Queued(queue, t)
    PROVE  \A i \in DOMAIN queue' : queue'[i].task_id = t =>
               i \in DOMAIN queue /\ queue[i].task_id = t
<1>1. CASE u = t
  BY <1>1, RequeueOps
<1>2. CASE u # t
  BY <1>2, RequeueOps
<1> QED
  BY <1>1, <1>2

(* The lease of t after somebody writes a copy back.                       *)
LEMMA PutKept ==
    ASSUME TypeOK, NEW t \in Task, NEW u \in Task, NEW l, Put(u, l),
           u = t => l.worker_id = HolderOf(t) /\ HolderOf(t) # "none"
    PROVE  /\ leases'[t].worker_id = leases[t].worker_id
           /\ leases'[t] = leases[t] \/ HolderOf(t) # "none"
BY DEF TypeOK, LeasesType, Put, HolderOf

(* The holder is a runtime.                                                *)
LEMMA HolderIsLive ==
    ASSUME NEW t \in Task, TaskInv(t), NEW w \in Worker,
           w \in OnTask(t) \/ heartbeat[w][t].pc # "off"
    PROVE  HolderOf(t) = w /\ HolderOf(t) # "none" /\ ~Queued(queue, t)
BY WorkerAssumption DEF TaskInv, OneHolder, OnePlace

LEMMA EnqueueOnce ==
    ASSUME TypeOK, OnceInv, NEW t \in Task, NEW u \in Task, Enqueue(u),
           submits'[t] <= 1
    PROVE  TaskInv(t)'
<1>1. /\ submits[t] \in Nat /\ submits[t] <= 1 /\ TaskInv(t)
      /\ u = t => submits[t] = 0 /\ submits'[t] = 1
      /\ u # t => submits'[t] = submits[t]
  BY DEF Enqueue, TypeOK, QueueType, OnceInv
<1>2. /\ Ahead(t)' = Ahead(t) /\ OnTask(t)' = OnTask(t)
      /\ CopiesAgree(t)'
  BY <1>1, Kept DEF Enqueue, CopiesAgree
<1>3. OneHolder(t)'
  BY <1>1, <1>2 DEF Enqueue, OneHolder, HolderOf, TaskInv
<1>4. /\ Len(queue) \in Nat /\ DOMAIN queue = 1..Len(queue)
      /\ DOMAIN queue' = 1..(Len(queue) + 1)
      /\ queue'[Len(queue) + 1].task_id = u
      /\ \A i \in DOMAIN queue : queue'[i] = queue[i]
  BY DEF Enqueue, TypeOK, QueueType, StubEnqueue, Entry
<1>5. CASE u # t
  <2>1. \A i \in DOMAIN queue' : queue'[i].task_id = t =>
            i \in DOMAIN queue /\ queue[i].task_id = t
    BY <1>4, <1>5
  <2>2. Queued(queue', t) => Queued(queue, t)
    BY <2>1 DEF Queued
  <2>3. leases' = leases
    BY DEF Enqueue
  <2>4. OnePlace(t)'
    BY <1>1, <1>2, <1>5, <2>1, <2>2, <2>3 DEF OnePlace, HolderOf, TaskInv
  <2> QED
    BY <1>2, <1>3, <2>4 DEF TaskInv
<1>6. CASE u = t
  <2>1. ~Queued(queue, t) /\ Ahead(t) = {} /\ HolderOf(t) = "none"
        /\ ~Leased(leases[t])
    BY <1>1, <1>6 DEF TaskInv, OnePlace
  <2>2. \A i \in DOMAIN queue : queue[i].task_id # t
    BY <2>1 DEF Queued
  <2>3. \A i \in DOMAIN queue' : queue'[i].task_id = t => i = Len(queue) + 1
    BY <1>4, <2>2
  <2>4. HolderOf(t)' = "none" /\ ~Leased(leases[t])'
    BY <2>1 DEF Enqueue, HolderOf, Leased
  <2>5. OnePlace(t)'
    BY <1>1, <1>2, <1>6, <2>1, <2>3, <2>4 DEF OnePlace
  <2> QED
    BY <1>2, <1>3, <2>5 DEF TaskInv
<1> QED
  BY <1>5, <1>6

(* The front of the queue was the only entry of its task.                  *)
LEMMA DequeueOnce ==
    ASSUME TypeOK, NEW t \in Task, TaskInv(t), NEW w \in Worker, Dequeue(w)
    PROVE  TaskInv(t)'
<1>1. PICK u \in Task : u = Head(queue).task_id /\ queue[1].task_id = u
  <2>1. Head(queue) \in [task_id : Task, attempt : Nat] /\ Head(queue) = queue[1]
    BY FrontType DEF Dequeue, TypeOK, QueueType
  <2> QED
    BY <2>1
<1>2. /\ 1 \in DOMAIN queue
      /\ \A i \in DOMAIN queue' : i + 1 \in DOMAIN queue /\ i + 1 # 1
                                /\ queue'[i] = queue[i + 1]
      /\ \A i, j \in DOMAIN queue' : i + 1 = j + 1 => i = j
  BY SMTT(30) DEF Dequeue, TypeOK, QueueType, StubPop
<1>3. /\ worker'[w].pc = "allocating" /\ worker'[w].task_id = u
      /\ worker'[w].copy = worker[w].copy
      /\ \A v \in Worker \ {w} : worker'[v] = worker[v]
  BY <1>1 DEF Dequeue, TypeOK, WorkerType, WorkerRecord
<1>4. /\ u # t => Ahead(t)' \subseteq Ahead(t)
      /\ u = t => Ahead(t)' \subseteq Ahead(t) \cup {w}
      /\ OnTask(t)' \subseteq OnTask(t)
  BY <1>3 DEF Ahead, OnTask, Current, Early
<1>5. /\ leases' = leases /\ submits' = submits /\ heartbeat' = heartbeat
      /\ reaper' = reaper /\ canceller' = canceller
  BY DEF Dequeue
<1>6. WorkerCopies(t)'
  BY <1>3, <1>5 DEF TaskInv, CopiesAgree, WorkerCopies, Current, HolderOf,
                    Early, Closing
<1>7. CopiesAgree(t)' /\ OneHolder(t)'
  BY <1>4, <1>5, <1>6, Kept, HolderKept DEF CopiesAgree
<1>8. Queued(queue', t) => Queued(queue, t)
  BY <1>2 DEF Queued
<1>9. \A i, j \in DOMAIN queue' :
          queue'[i].task_id = t /\ queue'[j].task_id = t => i = j
  BY <1>2 DEF TaskInv, OnePlace
<1>10. CASE u # t
  BY <1>4, <1>5, <1>7, <1>8, <1>9, <1>10 DEF TaskInv, OnePlace, HolderOf
<1>11. CASE u = t
  <2>1. Queued(queue, t)
    BY <1>1, <1>2, <1>11 DEF Queued
  <2>2. ~Queued(queue', t)
    BY <1>1, <1>2, <1>11 DEF Queued, TaskInv, OnePlace
  <2>3. Ahead(t) = {} /\ HolderOf(t) = "none" /\ submits[t] # 0
        /\ ~Leased(leases[t])
    BY <2>1 DEF TaskInv, OnePlace
  <2>4. OnePlace(t)'
    BY <1>4, <1>5, <1>9, <1>11, <2>2, <2>3 DEF OnePlace, HolderOf
  <2> QED
    BY <1>7, <2>4 DEF TaskInv
<1> QED
  BY <1>10, <1>11

(* Whoever inserts the lease was the only one on the way to it.            *)
LEMMA InsertOnce ==
    ASSUME TypeOK, NEW t \in Task, TaskInv(t), NEW w \in Worker, AcquireInsert(w)
    PROVE  TaskInv(t)'
<1>1. Current(w) \in Task /\ AttemptOf(w) \in Nat
  BY DEF AcquireInsert, At, TypeOK, WorkerType, WorkerRecord, AttemptOf
<1>2. /\ worker'[w].pc = "leased" /\ worker'[w].task_id = worker[w].task_id
      /\ \A v \in Worker \ {w} : worker'[v] = worker[v]
  BY DEF AcquireInsert, Goto, TypeOK, WorkerType, WorkerRecord
<1>3. /\ queue' = queue /\ submits' = submits /\ heartbeat' = heartbeat
      /\ reaper' = reaper /\ canceller' = canceller
  BY DEF AcquireInsert
<1>4. CASE Current(w) # t
  <2>1. leases'[t] = leases[t]
    BY <1>1, <1>4 DEF AcquireInsert, Put, TypeOK, LeasesType
  <2>2. Ahead(t)' \subseteq Ahead(t) /\ OnTask(t)' \subseteq OnTask(t)
        /\ WorkerCopies(t)'
    BY <1>2, <1>4, <2>1 DEF Ahead, OnTask, WorkerCopies, Current, HolderOf,
                            TaskInv, CopiesAgree
  <2>3. CopiesAgree(t)' /\ OneHolder(t)'
    BY <1>3, <2>1, <2>2, Kept, HolderKept DEF CopiesAgree
  <2>4. OnePlace(t)'
    BY <1>3, <2>1, <2>2, PlaceKept
  <2> QED
    BY <2>3, <2>4 DEF TaskInv
<1>5. CASE Current(w) = t
  <2>1. w \in Ahead(t)
    BY <1>5 DEF AcquireInsert, Ahead, At, Early
  <2>2. /\ HolderOf(t) = "none" /\ submits[t] # 0 /\ ~Queued(queue, t)
        /\ \A v \in Ahead(t) : v = w
    BY <2>1 DEF TaskInv, OnePlace
  <2>3. OnTask(t) = {} /\ \A v \in Worker : heartbeat[v][t].pc = "off"
    BY <2>2, HolderIsLive DEF OnTask
  <2>4. HolderOf(t)' = w /\ w # "none"
    BY <1>1, <1>5, WorkerAssumption
       DEF AcquireInsert, Put, HolderOf, TypeOK, LeasesType, NewLease
  <2>5. Ahead(t)' = {}
    BY <1>2, <2>2 DEF Ahead, Current, Early
  <2>6. OnTask(t)' \subseteq {w}
    BY <1>2, <2>3 DEF OnTask, Current
  <2>7. OnePlace(t)'
    BY <1>3, <2>2, <2>4, <2>5 DEF OnePlace, TaskInv
  <2>8. OneHolder(t)'
    BY <1>3, <2>3, <2>4, <2>6 DEF OneHolder
  <2>9. WorkerCopies(t)'
    <3>1. \A v \in Worker \ {w} : ~(Current(v) = t /\ worker[v].pc \in Closing)
      BY <2>3 DEF OnTask, Closing
    <3> QED
      BY <1>2, <3>1 DEF WorkerCopies, Current, Closing
  <2>10. HeartbeatCopies(t)'
    BY <1>3, <2>3 DEF HeartbeatCopies
  <2>11. ReaperCopies(t)' /\ CancelCopies(t)'
    BY <1>3, <2>2 DEF ReaperCopies, CancelCopies, TaskInv, CopiesAgree
  <2> QED
    BY <2>7, <2>8, <2>9, <2>10, <2>11 DEF TaskInv, CopiesAgree
<1> QED
  BY <1>4, <1>5

(* The steps of a runtime between two places of execute_task.              *)
LEMMA StepOnce ==
    ASSUME TypeOK, NEW t \in Task, TaskInv(t), NEW w \in Worker, NEW r,
           worker' = [worker EXCEPT ![w] = r],
           r.task_id = t =>
               /\ Current(w) = t
               /\ r.pc \in Early <=> worker[w].pc \in Early
               /\ r.pc \in Closing => r.copy.worker_id = HolderOf(t),
           UNCHANGED <<queue, submits, leases, heartbeat, reaper, canceller>>
    PROVE  TaskInv(t)'
<1>1. Ahead(t)' \subseteq Ahead(t) /\ OnTask(t)' \subseteq OnTask(t)
      /\ WorkerCopies(t)'
  BY MoveKept
<1>2. CopiesAgree(t)' /\ OneHolder(t)'
  BY <1>1, Kept, HolderKept DEF CopiesAgree
<1>3. OnePlace(t)'
  BY <1>1, PlaceKept
<1> QED
  BY <1>2, <1>3 DEF TaskInv

LEMMA MovesOnce ==
    ASSUME TypeOK, NEW t \in Task, TaskInv(t), NEW w \in Worker,
           \/ Allocate(w) \/ AcquireCheck(w) \/ Drain(w) \/ ReadLease(w)
           \/ \E o \in Outcome : Exit(w, o)
           \/ ExecuteFault(w) \/ CallFault(w)
    PROVE  TaskInv(t)'
<1> USE DEF At, Current, Early, Closing
<1>r. worker[w] \in WorkerRecord
  BY DEF TypeOK, WorkerType
<1>0. Idle.task_id # t
  BY TaskAssumption DEF Idle
<1>1. ASSUME NEW pc, pc \notin Closing, Goto(w, pc),
             pc \in Early <=> worker[w].pc \in Early,
             UNCHANGED <<queue, submits, leases, heartbeat, reaper, canceller>>
      PROVE  TaskInv(t)'
  <2> DEFINE r == [worker[w] EXCEPT !.pc = pc]
  <2>1. worker' = [worker EXCEPT ![w] = r] /\ r.task_id = worker[w].task_id
        /\ r.pc = pc
    BY <1>r, <1>1 DEF Goto, WorkerRecord
  <2> HIDE DEF r
  <2> QED
    BY <1>1, <2>1, StepOnce
<1>2. ASSUME Return(w),
             UNCHANGED <<queue, submits, leases, heartbeat, reaper, canceller>>
      PROVE  TaskInv(t)'
  BY <1>0, <1>2, StepOnce DEF Return
<1>3. CASE Allocate(w) \/ AcquireCheck(w) \/ Drain(w)
  BY <1>1, <1>2, <1>3 DEF Allocate, AcquireCheck, Drain
<1>4. CASE ExecuteFault(w) \/ CallFault(w)
  BY <1>2, <1>4 DEF ExecuteFault, CallFault
<1>5. ASSUME NEW o \in Outcome, Exit(w, o)
      PROVE  TaskInv(t)'
  <2> DEFINE r == [worker[w] EXCEPT !.pc = "draining", !.outcome = o]
  <2>1. worker' = [worker EXCEPT ![w] = r] /\ r.task_id = worker[w].task_id
        /\ r.pc = "draining" /\ worker[w].pc = "executing"
    BY <1>r, <1>5 DEF Exit, WorkerRecord
  <2> HIDE DEF r
  <2>2. UNCHANGED <<queue, submits, leases, heartbeat, reaper, canceller>>
    BY <1>5 DEF Exit
  <2>3. r.pc \notin Early /\ r.pc \notin Closing /\ worker[w].pc \notin Early
    BY <2>1
  <2> QED
    BY <2>1, <2>2, <2>3, StepOnce
<1>6. CASE ReadLease(w)
  <2>1. PICK d \in Closing : worker' = [worker EXCEPT ![w].pc = d,
                                                     ![w].copy = leases[Current(w)]]
    BY <1>6 DEF ReadLease, Decide
  <2> DEFINE r == [worker[w] EXCEPT !.pc = d, !.copy = leases[Current(w)]]
  <2>2. worker' = [worker EXCEPT ![w] = r] /\ r.task_id = worker[w].task_id
        /\ r.pc = d /\ r.copy = leases[Current(w)]
        /\ worker[w].pc = "deciding"
    BY <1>r, <1>6, <2>1, ZenonT(40) DEF ReadLease, WorkerRecord
  <2> HIDE DEF r
  <2>3. r.task_id = t => r.copy.worker_id = HolderOf(t)
    BY <2>2 DEF HolderOf
  <2>4. UNCHANGED <<queue, submits, leases, heartbeat, reaper, canceller>>
    BY <1>6 DEF ReadLease
  <2>5. r.pc \notin Early /\ worker[w].pc \notin Early
    BY <2>2
  <2> QED
    BY <2>2, <2>3, <2>4, <2>5, StepOnce
<1> QED
  BY <1>3, <1>4, <1>5, <1>6

(* The requeues of a runtime find no entry of the task it holds.           *)
LEMMA RequeuesOnce ==
    ASSUME TypeOK, NEW t \in Task, TaskInv(t), NEW w \in Worker,
           Refuse(w) \/ AcquireFault(w) \/ RetryRequeue(w)
    PROVE  TaskInv(t)'
<1>1. /\ Current(w) \in Task /\ AttemptOf(w) \in Nat /\ AttemptOf(w) + 1 \in Nat
      /\ worker[w].pc \in {"allocating", "acquiring", "leased", "backoff"}
  BY DEF Refuse, AcquireFault, RetryRequeue, At, AttemptOf, TypeOK, WorkerType,
         WorkerRecord
<1>2. Current(w) = t => ~Queued(queue, t)
  <2>1. CASE worker[w].pc \in {"allocating", "acquiring"}
    BY <2>1 DEF TaskInv, OnePlace, Ahead, Early
  <2>2. CASE worker[w].pc \in {"leased", "backoff"}
    <3>1. Current(w) = t => w \in OnTask(t)
      BY <2>2 DEF OnTask
    <3> QED
      BY <3>1, HolderIsLive
  <2> QED
    BY <1>1, <2>1, <2>2
<1>3. \E a \in Nat : Requeue(Current(w), a)
  BY <1>1 DEF Refuse, AcquireFault, RetryRequeue
<1>4. \A i \in DOMAIN queue' : queue'[i].task_id = t =>
          i \in DOMAIN queue /\ queue[i].task_id = t
  BY <1>1, <1>2, <1>3, RequeueKept
<1>5. /\ Return(w) /\ submits' = submits /\ leases' = leases
      /\ heartbeat' = heartbeat /\ reaper' = reaper /\ canceller' = canceller
  BY DEF Refuse, AcquireFault, RetryRequeue
<1>6. Ahead(t)' \subseteq Ahead(t) /\ OnTask(t)' \subseteq OnTask(t)
      /\ WorkerCopies(t)'
  BY <1>5, ReturnKept
<1>7. CopiesAgree(t)' /\ OneHolder(t)'
  BY <1>5, <1>6, Kept, HolderKept DEF CopiesAgree
<1>8. OnePlace(t)'
  BY <1>4, <1>5, <1>6, PlaceKept
<1> QED
  BY <1>7, <1>8 DEF TaskInv

(* The heartbeat of a new execution belongs to the holder.                 *)
LEMMA StartOnce ==
    ASSUME TypeOK, NEW t \in Task, TaskInv(t), NEW w \in Worker, Start(w)
    PROVE  TaskInv(t)'
<1>1. Current(w) \in Task /\ worker[w].pc = "leased"
  BY DEF Start, At, TypeOK, WorkerType
<1>2. /\ queue' = queue /\ submits' = submits /\ leases' = leases
      /\ reaper' = reaper /\ canceller' = canceller
  BY DEF Start
<1>3. Ahead(t)' \subseteq Ahead(t) /\ OnTask(t)' \subseteq OnTask(t)
      /\ WorkerCopies(t)'
  <2> DEFINE r == [worker[w] EXCEPT !.pc = "executing"]
  <2>1. worker' = [worker EXCEPT ![w] = r] /\ r.task_id = worker[w].task_id
        /\ r.pc = "executing"
    BY DEF Start, Goto, TypeOK, WorkerType, WorkerRecord
  <2> HIDE DEF r
  <2> QED
    BY <1>1, <1>2, <2>1, MoveKept DEF Current, Early, Closing
<1>4. \A v \in Worker :
          /\ heartbeat'[v][t].pc # "off" =>
                 heartbeat[v][t].pc # "off" \/ v \in OnTask(t)
          /\ heartbeat'[v][t].pc = "renewing" => heartbeat'[v][t] = heartbeat[v][t]
  <2>1. CASE Current(w) = t
    <3>1. w \in OnTask(t)
      BY <1>1, <2>1 DEF OnTask
    <3>2. /\ heartbeat'[w][t].pc = "ticking"
          /\ \A v \in Worker \ {w} : heartbeat'[v] = heartbeat[v]
      BY <2>1 DEF Start, TypeOK, HeartbeatType, HeartbeatRecord
    <3> QED
      BY <3>1, <3>2
  <2>2. CASE Current(w) # t
    <3>1. \A v \in Worker : heartbeat'[v][t] = heartbeat[v][t]
      BY <1>1, <2>2 DEF Start, TypeOK, HeartbeatType
    <3> QED
      BY <3>1
  <2> QED
    BY <2>1, <2>2
<1>5. HeartbeatCopies(t)'
  BY <1>2, <1>4 DEF HeartbeatCopies, HolderOf, TaskInv, CopiesAgree
<1>6. OneHolder(t)'
  BY <1>2, <1>3, <1>4, HolderKept
<1>7. OnePlace(t)'
  BY <1>2, <1>3, PlaceKept
<1> QED
  BY <1>2, <1>3, <1>5, <1>6, <1>7, Kept DEF TaskInv, CopiesAgree

(* The update of complete or fail writes back the holder's own copy.       *)
LEMMA WriteOnce ==
    ASSUME TypeOK, NEW t \in Task, TaskInv(t), NEW w \in Worker, WriteLease(w)
    PROVE  TaskInv(t)'
<1>1. /\ Current(w) \in Task /\ worker[w].pc \in Closing
      /\ worker[w].copy \in LeaseType
  BY DEF WriteLease, At, TypeOK, WorkerType, WorkerRecord, Closing
<1>2. Current(w) = t => /\ worker[w].copy.worker_id = HolderOf(t)
                        /\ HolderOf(t) # "none"
  <2>1. Current(w) = t => w \in OnTask(t)
    BY <1>1 DEF OnTask, Closing
  <2> QED
    BY <1>1, <2>1, HolderIsLive DEF TaskInv, CopiesAgree, WorkerCopies
<1>3. /\ leases'[t].worker_id = leases[t].worker_id
      /\ leases'[t] = leases[t] \/ HolderOf(t) # "none"
  <2>1. PICK l : /\ Put(Current(w), l)
                 /\ l.worker_id = worker[w].copy.worker_id
    BY <1>1, LeaseOps DEF WriteLease
  <2> QED
    BY <1>1, <1>2, <2>1, PutKept
<1>4. /\ queue' = queue /\ submits' = submits /\ heartbeat' = heartbeat
      /\ reaper' = reaper /\ canceller' = canceller
  BY DEF WriteLease
<1>5. Ahead(t)' \subseteq Ahead(t) /\ OnTask(t)' \subseteq OnTask(t)
      /\ WorkerCopies(t)'
  <2>1. CASE At(w, "Retry")
    <3> DEFINE r == [worker[w] EXCEPT !.pc = "backoff", !.copy = NoLease]
    <3>1. worker' = [worker EXCEPT ![w] = r] /\ r.task_id = worker[w].task_id
          /\ r.pc = "backoff"
      BY <2>1 DEF WriteLease, TypeOK, WorkerType, WorkerRecord
    <3> HIDE DEF r
    <3> QED
      BY <1>1, <1>3, <3>1, MoveKept DEF Current, Early, Closing
  <2>2. CASE ~At(w, "Retry")
    BY <1>3, <2>2, ReturnKept DEF WriteLease
  <2> QED
    BY <2>1, <2>2
<1>6. CopiesAgree(t)' /\ OneHolder(t)'
  BY <1>3, <1>4, <1>5, Kept, HolderKept DEF CopiesAgree
<1>7. OnePlace(t)'
  BY <1>3, <1>4, <1>5, PlaceKept
<1> QED
  BY <1>6, <1>7 DEF TaskInv

(* A crash forgets the runtime's task, heartbeats, scan and cancellations. *)
LEMMA CrashOnce ==
    ASSUME TypeOK, NEW t \in Task, TaskInv(t), NEW w \in Worker, Crash(w)
    PROVE  TaskInv(t)'
<1>1. queue' = queue /\ submits' = submits /\ leases' = leases
  BY DEF Crash
<1>2. Ahead(t)' \subseteq Ahead(t) /\ OnTask(t)' \subseteq OnTask(t)
      /\ WorkerCopies(t)'
  <2> DEFINE r == [Idle EXCEPT !.pc = "crashed"]
  <2>1. worker' = [worker EXCEPT ![w] = r] /\ r.task_id # t
    BY TaskAssumption DEF Crash, Idle
  <2> HIDE DEF r
  <2> QED
    BY <1>1, <2>1, MoveKept
<1>3. \A v \in Worker : heartbeat'[v][t].pc # "off" =>
          heartbeat'[v][t] = heartbeat[v][t]
  BY DEF Crash, TypeOK, HeartbeatType, Off
<1>4. HeartbeatCopies(t)'
  BY <1>1, <1>3 DEF HeartbeatCopies, HolderOf, TaskInv, CopiesAgree
<1>5. ReaperCopies(t)'
  <2>1. /\ reaper'[w].copies = {} /\ reaper'[w].collected = {}
        /\ \A v \in Worker \ {w} : reaper'[v] = reaper[v]
    BY DEF Crash, TypeOK, ReaperType, Resting
  <2> QED
    BY <1>1, <2>1 DEF ReaperCopies, HolderOf, TaskInv, CopiesAgree
<1>6. CancelCopies(t)'
  <2>1. canceller'[t] = canceller[t] \/ canceller'[t].pc = "failed"
    BY DEF Crash, CancelEnded
  <2> QED
    BY <1>1, <2>1 DEF CancelCopies, HolderOf, TaskInv, CopiesAgree
<1>7. OneHolder(t)'
  BY <1>1, <1>2, <1>3, HolderKept
<1>8. OnePlace(t)'
  BY <1>1, <1>2, PlaceKept
<1> QED
  BY <1>2, <1>4, <1>5, <1>6, <1>7, <1>8 DEF TaskInv, CopiesAgree

(* A heartbeat reads the lease that names its runtime and writes the same  *)
(* name back.                                                              *)
LEMMA HeartbeatOnce ==
    ASSUME TypeOK, NEW t \in Task, TaskInv(t), NEW w \in Worker, NEW u \in Task,
           HeartbeatStep(w, u) \/ HeartbeatFault(w, u)
    PROVE  TaskInv(t)'
<1>1. heartbeat[w][u] \in HeartbeatRecord /\ heartbeat[w][u].copy \in LeaseType
  BY DEF TypeOK, HeartbeatType, HeartbeatRecord
<1>2. heartbeat[w][u].pc # "off"
  BY DEF HeartbeatStep, HeartbeatRead, HeartbeatWrite, HeartbeatFault
<1>3. /\ queue' = queue /\ submits' = submits /\ worker' = worker
      /\ reaper' = reaper /\ canceller' = canceller
  BY DEF HeartbeatStep, HeartbeatRead, HeartbeatWrite, HeartbeatFault
<1>4. /\ leases'[t].worker_id = leases[t].worker_id
      /\ leases'[t] = leases[t] \/ HolderOf(t) # "none"
  <2>1. CASE HeartbeatWrite(w, u)
    <3>1. u = t => /\ heartbeat[w][u].copy.worker_id = HolderOf(t)
                   /\ HolderOf(t) # "none"
      BY <1>2, <2>1, HolderIsLive
         DEF HeartbeatWrite, TaskInv, CopiesAgree, HeartbeatCopies
    <3>2. PICK l : Put(u, l) /\ l.worker_id = heartbeat[w][u].copy.worker_id
      BY <1>1, <2>1, LeaseOps DEF HeartbeatWrite
    <3> QED
      BY <3>1, <3>2, PutKept
  <2>2. CASE ~HeartbeatWrite(w, u)
    BY <2>2 DEF HeartbeatStep, HeartbeatRead, HeartbeatFault
  <2> QED
    BY <2>1, <2>2
<1>5. PICK r : /\ heartbeat' = [heartbeat EXCEPT ![w][u] = r]
               /\ r.pc = "renewing" => r.copy = leases[u] /\ leases' = leases
  <2>1. CASE HeartbeatRead(w, u)
    <3> DEFINE r == IF Leased(leases[u])
                    THEN [pc |-> "renewing", copy |-> leases[u]] ELSE Off
    <3>1. r.pc = "renewing" => r.copy = leases[u]
      BY DEF Off
    <3>2. heartbeat' = [heartbeat EXCEPT ![w][u] = r] /\ leases' = leases
      BY <2>1 DEF HeartbeatRead
    <3> QED
      BY <3>1, <3>2
  <2>2. CASE HeartbeatWrite(w, u) \/ HeartbeatFault(w, u)
    <3> DEFINE r == [pc |-> "ticking", copy |-> NoLease]
    <3>1. heartbeat' = [heartbeat EXCEPT ![w][u] = r] /\ r.pc = "ticking"
      BY <2>2 DEF HeartbeatWrite, HeartbeatFault
    <3> QED
      BY <3>1
  <2> QED
    BY <2>1, <2>2 DEF HeartbeatStep
<1>6. \A v \in Worker :
          \/ heartbeat'[v][t] = heartbeat[v][t]
          \/ v = w /\ u = t /\ heartbeat'[v][t] = r
  BY <1>5 DEF TypeOK, HeartbeatType
<1>7. HeartbeatCopies(t)'
  BY <1>4, <1>5, <1>6 DEF HeartbeatCopies, HolderOf, TaskInv, CopiesAgree
<1>8. Ahead(t)' = Ahead(t) /\ OnTask(t)' = OnTask(t)
  BY <1>3, <1>4, Kept
<1>9. OneHolder(t)'
  BY <1>2, <1>4, <1>6, <1>8, HolderKept
<1>10. OnePlace(t)'
  BY <1>3, <1>4, <1>8, PlaceKept
<1> QED
  BY <1>3, <1>4, <1>7, <1>9, <1>10, Kept DEF TaskInv, CopiesAgree

(* A reaper copies leases that name somebody, and changes no name.         *)
LEMMA ReaperOnce ==
    ASSUME TypeOK, NEW t \in Task, TaskInv(t), NEW w \in Worker,
           ReaperStep(w) \/ CollectFault(w) \/ ReaperFault(w)
    PROVE  TaskInv(t)'
<1> DEFINE Agree(r) ==
        /\ \A c \in r.copies : c[1] = t =>
               HolderOf(t) # "none" /\ c[2].worker_id = HolderOf(t)
        /\ \A c \in r.collected : c[1] = t => HolderOf(t) # "none"
<1>1. /\ submits' = submits /\ worker' = worker
      /\ heartbeat' = heartbeat /\ canceller' = canceller
  BY DEF ReaperStep, ReaperScan, ReaperRead, ReaperWrite, ReaperRequeue,
         ReaperRest, CollectFault, ReaperFault
<1>2. Agree(reaper[w])
  BY DEF TaskInv, CopiesAgree, ReaperCopies
<1>r. /\ reaper[w] \in [pc : {"waiting", "scanning", "expiring", "dead"},
                        scan : SUBSET Task,
                        copies : SUBSET (Task \X LeaseType),
                        collected : SUBSET (Task \X LeaseType)]
      /\ DOMAIN reaper = Worker
  BY DEF TypeOK, ReaperType
<1>3. ASSUME NEW r, reaper' = [reaper EXCEPT ![w] = r], Agree(r),
             leases'[t].worker_id = leases[t].worker_id,
             leases'[t] = leases[t] \/ HolderOf(t) # "none",
             \A i \in DOMAIN queue' : queue'[i].task_id = t =>
                 i \in DOMAIN queue /\ queue[i].task_id = t
      PROVE  TaskInv(t)'
  <2>1. ReaperCopies(t)'
    <3>1. reaper'[w] = r /\ \A v \in Worker \ {w} : reaper'[v] = reaper[v]
      BY <1>3, <1>r
    <3> QED
      BY <1>3, <3>1 DEF ReaperCopies, HolderOf, TaskInv, CopiesAgree
  <2>2. Ahead(t)' = Ahead(t) /\ OnTask(t)' = OnTask(t)
    BY <1>1, <1>3, Kept
  <2>3. OneHolder(t)'
    BY <1>1, <1>3, <2>2, HolderKept
  <2>4. OnePlace(t)'
    BY <1>1, <1>3, <2>2, PlaceKept
  <2> QED
    BY <1>1, <1>3, <2>1, <2>3, <2>4, Kept DEF TaskInv, CopiesAgree
<1>4. CASE ReaperScan(w)
  <2> DEFINE r == [reaper[w] EXCEPT !.pc = "scanning",
                                    !.scan = {u \in Task : Reapable(leases[u])}]
  <2>1. /\ reaper' = [reaper EXCEPT ![w] = r]
        /\ r.copies = reaper[w].copies /\ r.collected = reaper[w].collected
    BY <1>4, <1>r DEF ReaperScan
  <2>2. queue' = queue /\ leases' = leases
    BY <1>4 DEF ReaperScan
  <2> HIDE DEF r
  <2> QED
    BY <1>2, <1>3, <2>1, <2>2
<1>5. CASE ReaperRest(w) \/ CollectFault(w) \/ ReaperFault(w)
  <2>1. PICK r : /\ reaper' = [reaper EXCEPT ![w] = r]
                 /\ r.copies = {} /\ r.collected = {}
    BY <1>5 DEF ReaperRest, CollectFault, ReaperFault, Resting
  <2>2. queue' = queue /\ leases' = leases
    BY <1>5 DEF ReaperRest, CollectFault, ReaperFault
  <2> QED
    BY <1>3, <2>1, <2>2
<1>6. ASSUME NEW u \in Task, ReaperRead(w, u)
      PROVE  TaskInv(t)'
  <2>1. queue' = queue /\ leases' = leases
    BY <1>6 DEF ReaperRead
  <2>2. CASE Reapable(leases[u])
    <3> DEFINE r == [reaper[w] EXCEPT !.pc = "expiring",
                                      !.copies = {<<u, leases[u]>>},
                                      !.scan = @ \ {u}]
    <3>1. /\ reaper' = [reaper EXCEPT ![w] = r]
          /\ r.copies = {<<u, leases[u]>>}
          /\ r.collected = reaper[w].collected
      BY <1>6, <1>r, <2>2 DEF ReaperRead
    <3> HIDE DEF r
    <3>2. u = t => HolderOf(t) # "none"
      BY <2>2 DEF Reapable, IsActive, Leased, TaskInv, OnePlace
    <3>3. Agree(r)
      BY <1>2, <3>1, <3>2 DEF HolderOf
    <3> QED
      BY <1>3, <2>1, <3>1, <3>3
  <2>3. CASE ~Reapable(leases[u])
    <3> DEFINE r == [reaper[w] EXCEPT !.scan = @ \ {u}]
    <3>1. /\ reaper' = [reaper EXCEPT ![w] = r]
          /\ r.copies = reaper[w].copies /\ r.collected = reaper[w].collected
      BY <1>6, <1>r, <2>3 DEF ReaperRead
    <3> HIDE DEF r
    <3> QED
      BY <1>2, <1>3, <2>1, <3>1
  <2> QED
    BY <2>2, <2>3
<1>7. CASE ReaperWrite(w)
  <2>1. PICK c \in reaper[w].copies :
            /\ Put(c[1], WithState(c[2], "Expired"))
            /\ reaper' = [reaper EXCEPT ![w].pc = "scanning",
                                        ![w].copies = {},
                                        ![w].collected = @ \cup {c}]
    BY <1>7 DEF ReaperWrite
  <2>2. c[1] \in Task /\ c[2] \in LeaseType
    BY <1>r, <2>1
  <2> DEFINE r == [reaper[w] EXCEPT !.pc = "scanning", !.copies = {},
                                    !.collected = @ \cup {c}]
  <2>3. /\ reaper' = [reaper EXCEPT ![w] = r]
        /\ r.copies = {} /\ r.collected = reaper[w].collected \cup {c}
    BY <1>r, <2>1
  <2> HIDE DEF r
  <2>4. /\ leases'[t].worker_id = leases[t].worker_id
        /\ leases'[t] = leases[t] \/ HolderOf(t) # "none"
    <3>1. PICK l : Put(c[1], l) /\ l.worker_id = c[2].worker_id
      BY <2>1, <2>2, LeaseOps
    <3> QED
      BY <1>2, <2>1, <2>2, <3>1, PutKept
  <2>5. Agree(r)
    BY <1>2, <2>1, <2>3
  <2>6. queue' = queue
    BY <1>7 DEF ReaperWrite
  <2> QED
    BY <1>3, <2>3, <2>4, <2>5, <2>6
<1>8. CASE ReaperRequeue(w)
  <2>1. PICK c \in reaper[w].collected :
            /\ Requeue(c[1], c[2].attempt + 1)
            /\ reaper' = [reaper EXCEPT ![w].collected = @ \ {c}]
    BY <1>8 DEF ReaperRequeue
  <2>2. c[1] \in Task /\ c[2].attempt + 1 \in Nat
    BY <1>r, <2>1 DEF LeaseType
  <2> DEFINE r == [reaper[w] EXCEPT !.collected = @ \ {c}]
  <2>3. /\ reaper' = [reaper EXCEPT ![w] = r]
        /\ r.copies = reaper[w].copies /\ r.collected = reaper[w].collected \ {c}
    BY <1>r, <2>1
  <2> HIDE DEF r
  <2>4. c[1] = t => ~Queued(queue, t)
    BY <1>2, <2>1 DEF TaskInv, OnePlace
  <2>5. \A i \in DOMAIN queue' : queue'[i].task_id = t =>
            i \in DOMAIN queue /\ queue[i].task_id = t
    BY <2>1, <2>2, <2>4, RequeueKept
  <2>6. leases' = leases
    BY <1>8 DEF ReaperRequeue
  <2>7. Agree(r)
    BY <1>2, <2>3
  <2> QED
    BY <1>3, <2>3, <2>5, <2>6, <2>7
<1> QED
  BY <1>4, <1>5, <1>6, <1>7, <1>8 DEF ReaperStep

(* cancel_task copies and writes back a lease only when there is one.      *)
LEMMA CancelOnce ==
    ASSUME TypeOK, NEW t \in Task, TaskInv(t), NEW u \in Task,
           CancelStep(u) \/ CancelFault(u) \/ \E w \in Worker : CancelCall(w, u)
    PROVE  TaskInv(t)'
<1> USE DEF CancelStep, CancelLook, CancelRead, CancelWrite, CancelDiscard,
            CancelFault, CancelCall
<1>1. /\ queue' = queue /\ submits' = submits /\ worker' = worker
      /\ heartbeat' = heartbeat /\ reaper' = reaper
  BY DEF StubDiscard
<1>c. /\ DOMAIN canceller = Task
      /\ canceller[u] \in [pc : {"off", "looking", "cancelling", "writing",
                                 "discarding", "cancelled", "failed"},
                           by : Worker \cup {"none"}, copy : LeaseType]
  BY DEF TypeOK, CancelType
<1>2. /\ leases'[t].worker_id = leases[t].worker_id
      /\ leases'[t] = leases[t] \/ HolderOf(t) # "none"
  <2>1. CASE CancelWrite(u)
    <3>1. u = t => /\ canceller[u].copy.worker_id = HolderOf(t)
                   /\ HolderOf(t) # "none"
      BY <2>1 DEF TaskInv, CopiesAgree, CancelCopies
    <3>2. PICK l : Put(u, l) /\ l.worker_id = canceller[u].copy.worker_id
      BY <1>c, <2>1, LeaseOps
    <3> QED
      BY <3>1, <3>2, PutKept
  <2>2. CASE ~CancelWrite(u)
    <3>1. leases' = leases
      BY <2>2
    <3> QED
      BY <3>1
  <2> QED
    BY <2>1, <2>2
<1>3. CancelCopies(t)'
  <2>1. CASE u # t
    <3>1. canceller'[t] = canceller[t]
      BY <1>c, <2>1
    <3> QED
      BY <1>2, <3>1 DEF CancelCopies, HolderOf, TaskInv, CopiesAgree
  <2>2. CASE u = t /\ CancelLook(u)
    <3>1. canceller'[t].pc = IF Leased(leases[t]) THEN "cancelling" ELSE "discarding"
      BY <1>c, <2>2
    <3>2. Leased(leases[t]) => HolderOf(t) # "none"
      BY DEF TaskInv, OnePlace
    <3> QED
      BY <1>2, <3>1, <3>2 DEF CancelCopies, HolderOf
  <2>3. CASE u = t /\ CancelRead(u)
    <3>1. canceller'[t].copy = leases[t] /\ leases' = leases
      BY <1>c, <2>3
    <3>2. HolderOf(t) # "none"
      BY <2>3 DEF TaskInv, CopiesAgree, CancelCopies
    <3> QED
      BY <3>1, <3>2 DEF CancelCopies, HolderOf
  <2>4. CASE u = t /\ ~CancelLook(u) /\ ~CancelRead(u)
    <3>1. canceller'[t].pc \in {"looking", "discarding", "cancelled", "failed"}
      BY <1>c, <2>4 DEF CancelEnded
    <3> QED
      BY <3>1 DEF CancelCopies
  <2> QED
    BY <2>1, <2>2, <2>3, <2>4
<1>4. Ahead(t)' = Ahead(t) /\ OnTask(t)' = OnTask(t)
  BY <1>1, <1>2, Kept
<1>5. OneHolder(t)'
  BY <1>1, <1>2, <1>4, HolderKept
<1>6. OnePlace(t)'
  BY <1>1, <1>2, <1>4, PlaceKept
<1> QED
  BY <1>1, <1>2, <1>3, <1>5, <1>6, Kept DEF TaskInv, CopiesAgree

LEMMA NextOnce == TypeOK /\ OnceInv /\ [Next]_vars => OnceInv'
<1> SUFFICES ASSUME TypeOK, OnceInv, [Next]_vars,
                    NEW t \in Task, submits'[t] <= 1
             PROVE  TaskInv(t)'
  BY DEF OnceInv
<1>1. ASSUME NEW u \in Task, Enqueue(u)
      PROVE  TaskInv(t)'
  BY <1>1, EnqueueOnce
<1>2. ASSUME submits' = submits
      PROVE  TaskInv(t)
  BY <1>2 DEF OnceInv
<1>3. ASSUME NEW u \in Task, Expire(u)
      PROVE  TaskInv(t)'
  <2>1. TaskInv(t)
    BY <1>2, <1>3 DEF Expire
  <2>2. /\ leases'[t].worker_id = leases[t].worker_id
        /\ leases'[t] = leases[t] \/ HolderOf(t) # "none"
    <3>1. /\ leases'[t].worker_id = leases[t].worker_id
          /\ u # t => leases'[t] = leases[t]
      BY <1>3 DEF Expire, TypeOK, LeasesType, LeaseType
    <3>2. u = t => HolderOf(t) # "none"
      BY <1>3, <2>1 DEF Expire, IsActive, Leased, TaskInv, OnePlace
    <3> QED
      BY <3>1, <3>2
  <2>3. Ahead(t)' = Ahead(t) /\ OnTask(t)' = OnTask(t) /\ CopiesAgree(t)'
    BY <1>3, <2>1, <2>2, Kept DEF Expire, CopiesAgree
  <2>4. OneHolder(t)' /\ OnePlace(t)'
    BY <1>3, <2>1, <2>2, <2>3, HolderKept, PlaceKept DEF Expire
  <2> QED
    BY <2>3, <2>4 DEF TaskInv
<1>4. ASSUME NEW u \in Task,
             CancelStep(u) \/ CancelFault(u) \/ \E w \in Worker : CancelCall(w, u)
      PROVE  TaskInv(t)'
  <2>1. TaskInv(t)
    BY <1>2, <1>4 DEF CancelStep, CancelLook, CancelRead, CancelWrite,
                      CancelDiscard, CancelFault, CancelCall
  <2> QED
    BY <1>4, <2>1, CancelOnce
<1>5. ASSUME NEW w \in Worker,
             WorkerStep(w) \/ Refuse(w) \/ \E o \in Outcome : Exit(w, o)
      PROVE  TaskInv(t)'
  <2>1. TaskInv(t)
    BY <1>2, <1>5
       DEF WorkerStep, Dequeue, Allocate, AcquireCheck, AcquireInsert, Start,
           Drain, ReadLease, WriteLease, RetryRequeue, Refuse, Exit
  <2> QED
    BY <1>5, <2>1, DequeueOnce, InsertOnce, MovesOnce, StartOnce, WriteOnce,
       RequeuesOnce DEF WorkerStep
<1>6. ASSUME NEW w \in Worker, FaultStep(w) \/ Crash(w) \/ ReaperStep(w)
      PROVE  TaskInv(t)'
  <2>1. TaskInv(t)
    BY <1>2, <1>6
       DEF FaultStep, AcquireFault, ExecuteFault, CallFault, CollectFault,
           ReaperFault, Crash, ReaperStep, ReaperScan, ReaperRead, ReaperWrite,
           ReaperRequeue, ReaperRest
  <2> QED
    BY <1>6, <2>1, RequeuesOnce, MovesOnce, ReaperOnce, CrashOnce DEF FaultStep
<1>7. ASSUME NEW w \in Worker, NEW u \in Task,
             HeartbeatStep(w, u) \/ HeartbeatFault(w, u)
      PROVE  TaskInv(t)'
  <2>1. TaskInv(t)
    BY <1>2, <1>7
       DEF HeartbeatStep, HeartbeatRead, HeartbeatWrite, HeartbeatFault
  <2> QED
    BY <1>7, <2>1, HeartbeatOnce
<1>8. CASE UNCHANGED vars
  <2>1. TaskInv(t) /\ UNCHANGED <<queue, submits, leases, worker, heartbeat,
                                 reaper, canceller>>
    BY <1>2, <1>8 DEF vars
  <2>2. Ahead(t)' = Ahead(t) /\ OnTask(t)' = OnTask(t) /\ CopiesAgree(t)'
    BY <2>1, Kept DEF CopiesAgree
  <2>3. OneHolder(t)' /\ OnePlace(t)'
    BY <2>1, <2>2, HolderKept, PlaceKept
  <2> QED
    BY <2>2, <2>3 DEF TaskInv
<1> QED
  BY <1>1, <1>3, <1>4, <1>5, <1>6, <1>7, <1>8 DEF Next

-----------------------------------------------------------------------------
(* Every reachable state is well typed: a runtime inside execute_task has  *)
(* a task, whatever fails or crashes.                                      *)
THEOREM TypeCorrect == Spec => []TypeOK
BY InitType, NextType, PTL DEF Spec

(* The invariant of the tasks that were enqueued once.                     *)
THEOREM OnceInvariance == Spec => []OnceInv
BY InitOnce, NextOnce, TypeCorrect, PTL DEF Spec

(* For any number of runtimes and tasks, with crashes, expired leases,     *)
(* reapers, retries, cancellations and failing calls in any order: a task  *)
(* enqueued once is worked on by one runtime only, the one its lease       *)
(* names, and heartbeats that outlive the work still belong to it          *)
(* (execute_task, renew and collect_expired of the code).                  *)
THEOREM OneRuntimePerTask == Spec => []LeaseNamesTheOnlyHolder
<1>1. OnceInv => LeaseNamesTheOnlyHolder
  BY DEF OnceInv, TaskInv, OneHolder, HolderOf, LeaseNamesTheOnlyHolder
<1> QED
  BY <1>1, OnceInvariance, PTL

=============================================================================
