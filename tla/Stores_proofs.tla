---------------------------- MODULE Stores_proofs ---------------------------
(***************************************************************************)
(* Proofs about DurableRecord, for every set of tasks, every lease time    *)
(* and every number of crashes and refused statements: SqliteLeaseStore    *)
(* implements LeaseStoreContract, and a lease that is Completed on disk    *)
(* has its Completed event there too.  And about ArtifactCache, for every  *)
(* set of contents and sizes and every budget: its index tells the truth   *)
(* about the directory, and a store evicts what it must and no more.       *)
(***************************************************************************)
EXTENDS Stores, Totals_proofs, Integers, FiniteSetTheorems,
        SequenceTheorems, TLAPS

Row == {NoRow} \cup {RowOf(lease) : lease \in Lease}

(* What the refinement rests on: a row is a lease with its own columns     *)
(* next to it, and clients write back leases they have read.               *)
RecordInv ==
    /\ now \in 0..MaxTime
    /\ rows \in [Task -> Row]
    /\ copy \in [Task -> [Client -> Lease \cup {NoLease}]]
    /\ listed \subseteq Task

(* What a row says of its lease.                                           *)
LEMMA RowFacts ==
    ASSUME NEW row \in Row
    PROVE  /\ row.json \in Lease \cup {NoLease}
           /\ row.json = NoLease <=> row = NoRow
           /\ row.state = "Active" <=> row.json # NoLease /\ row.json.state = "Active"
           /\ row.json # NoLease => row = RowOf(row.json)
<1>1. CASE row = NoRow
  BY <1>1 DEF NoRow, NoLease, Lease, LeaseState
<1>2. CASE row \in {RowOf(lease) : lease \in Lease}
  <2>1. PICK lease \in Lease : row = RowOf(lease)
    BY <1>2
  <2>2. lease.state \in LeaseState
    BY DEF Lease
  <2>. QED  BY <2>1, <2>2 DEF RowOf, NoRow, NoLease, LeaseState
<1>. QED  BY <1>1, <1>2 DEF Row

(* LeaseManager::acquire makes a lease.                                    *)
LEMMA NewLeaseType ==
    ASSUME now \in 0..MaxTime
    PROVE  NewLease \in Lease
BY ClockAssumption DEF NewLease, Lease, LeaseState

(* What complete, fail, renew and collect_expired write back is a lease.   *)
LEMMA ChangedType ==
    ASSUME now \in 0..MaxTime, NEW t \in Task, NEW c \in Client,
           copy[t][c] \in Lease
    PROVE  Changed(t, c) \in Lease
BY ClockAssumption DEF Changed, Lease, LeaseState, Client

(* Every step keeps RecordInv and is a step of the abstract store.         *)
LEMMA RecordSimulates ==
    ASSUME RecordInv, [Next]_vars
    PROVE  RecordInv' /\ [Store!Next]_(Store!svars)
<1>. USE DEF RecordInv
<1>r. \A t \in Task : rows[t] \in Row
  OBVIOUS
<1>u. CASE UNCHANGED <<rows, copy, listed, now>>
  BY <1>u DEF Store!svars
<1>f. ASSUME UNCHANGED <<rows, copy, now>>, listed' \subseteq listed
      PROVE  RecordInv' /\ [Store!Next]_(Store!svars)
  BY <1>f DEF Store!svars, Store!Next, Store!Forget
<1>1. ASSUME NEW t \in Task, Execute(t)
      PROVE  RecordInv' /\ [Store!Next]_(Store!svars)
  <2>1. CASE Acquire(t)
    <3>1. NewLease \in Lease
      BY NewLeaseType
    <3>2. RowOf(NewLease) \in Row
      BY <3>1 DEF Row
    <3>3. RecordInv'
      BY <2>1, <3>2 DEF Acquire, insert, process
    <3>4. rows[t] = NoRow /\ rows' = [rows EXCEPT ![t] = RowOf(NewLease)]
      BY <2>1 DEF Acquire, insert
    <3>5. rows[t].json = NoLease /\ RowOf(NewLease).json = NewLease
      BY <3>4 DEF NoRow, RowOf
    <3>6. UNCHANGED listed
      BY <2>1 DEF Acquire
    <3>7. Store!Insert(t, NewLease)
      BY <3>4, <3>5, <3>6 DEF Store!Insert
    <3>8. \E lease \in Lease : Store!Insert(t, lease) \/ Store!Update(t, lease)
      BY <3>1, <3>7 DEF Store!Insert
    <3>. QED  BY <3>3, <3>8 DEF Store!Next
  <2>2. CASE \E e \in Emitter : EmitEvent(t, e)
    BY <1>u, <2>2 DEF EmitEvent, process
  <2>3. CASE EmitLog(t)
    BY <1>u, <2>3 DEF EmitLog, process
  <2>4. CASE \E decision \in {"complete", "retry", "abandon"} : Finish(t, decision)
    BY <1>u, <2>4 DEF Finish, process
  <2>. QED  BY <1>1, <2>1, <2>2, <2>3, <2>4 DEF Execute
<1>2. ASSUME NEW t \in Task, NEW c \in Client, Read(t, c)
      PROVE  RecordInv' /\ [Store!Next]_(Store!svars)
  <2>1. get(t) \in Lease
    BY <1>2, RowFacts DEF Read, Kept, get
  <2>2. RecordInv'
    BY <1>2, <2>1 DEF Read, process
  <2>3. listed' \subseteq listed /\ rows' = rows
    BY <1>2 DEF Read
  <2>. QED  BY <2>2, <2>3 DEF Store!svars, Store!Next, Store!Forget
<1>3. ASSUME NEW t \in Task, NEW c \in Client, ReadNothing(t, c)
      PROVE  RecordInv' /\ [Store!Next]_(Store!svars)
  BY <1>3, <1>f DEF ReadNothing, process
<1>4. ASSUME NEW t \in Task, NEW c \in Client, Write(t, c)
      PROVE  RecordInv' /\ [Store!Next]_(Store!svars)
  <2>1. copy[t][c] \in Lease
    BY <1>4 DEF Write
  <2>2. Changed(t, c) \in Lease
    BY <2>1, ChangedType
  <2>3. RowOf(Changed(t, c)) \in Row
    BY <2>2 DEF Row
  <2>4. rows' \in [Task -> Row]
    BY <1>4, <2>3 DEF Write, update, Updated
  <2>5. RecordInv'
    BY <1>4, <2>4 DEF Write, process
  <2>6. CASE rows[t] = NoRow
    BY <1>4, <2>5, <2>6 DEF Write, update, Store!svars
  <2>7. CASE rows[t] # NoRow
    <3>1. Store!Update(t, Changed(t, c))
      BY <1>4, <2>7, RowFacts DEF Write, update, Updated, Store!Update, RowOf
    <3>2. \E lease \in Lease : Store!Insert(t, lease) \/ Store!Update(t, lease)
      BY <2>2, <3>1 DEF Store!Update
    <3>. QED  BY <2>5, <3>2 DEF Store!Next
  <2>. QED  BY <2>6, <2>7
<1>5. ASSUME NEW t \in Task, NEW c \in Client, WriteFails(t, c)
      PROVE  RecordInv' /\ [Store!Next]_(Store!svars)
  <2>1. RecordInv'
    BY <1>5 DEF WriteFails, process
  <2>2. listed' \subseteq listed /\ rows' = rows
    BY <1>5 DEF WriteFails
  <2>. QED  BY <2>1, <2>2 DEF Store!svars, Store!Next, Store!Forget
<1>6. ASSUME NEW t \in Task, RemoveLease(t)
      PROVE  RecordInv' /\ [Store!Next]_(Store!svars)
  <2>1. RecordInv'
    BY <1>6 DEF RemoveLease, process, Row
  <2>2. Store!Remove(t)
    BY <1>6 DEF RemoveLease, Store!Remove, NoRow
  <2>. QED  BY <2>1, <2>2 DEF Store!Next
<1>7. CASE ListActive
  <2>1. active_leases = Store!Active
    BY <1>r, RowFacts DEF active_leases, Store!Active
  <2>2. RecordInv'
    BY <1>7 DEF ListActive, active_leases, process
  <2>3. Store!ActiveLeases
    BY <1>7, <2>1 DEF ListActive, Store!ActiveLeases
  <2>. QED  BY <2>2, <2>3 DEF Store!Next
<1>8. CASE Tick
  BY <1>8, ClockAssumption DEF Tick, Store!svars
<1>9. CASE Crash
  <2>1. RecordInv'
    BY <1>9 DEF Crash, NoCopy
  <2>2. listed' \subseteq listed /\ rows' = rows
    BY <1>9 DEF Crash
  <2>. QED  BY <2>1, <2>2 DEF Store!svars, Store!Next, Store!Forget
<1>10. CASE Restart
  BY <1>10, <1>u DEF Restart
<1>11. CASE UNCHANGED vars
  BY <1>11, <1>u DEF vars
<1>. QED
  BY <1>1, <1>2, <1>3, <1>4, <1>5, <1>6, <1>7, <1>8, <1>9, <1>10, <1>11
     DEF Next, Manage

(* The first process starts with empty tables.                             *)
LEMMA RecordInit ==
    ASSUME Init
    PROVE  RecordInv /\ Store!Init
BY ClockAssumption DEF Init, RecordInv, Row, NoCopy, NoRow, Store!Init

(* SqliteLeaseStore keeps the promise of the LeaseStore trait: under every *)
(* interleaving of acquire, heartbeat, complete, fail and collect_expired, *)
(* each writing back a copy it read earlier, and through every crash, the  *)
(* table is one map of leases and its state column lists the Active ones.  *)
THEOREM SqliteIsLeaseStore == Spec => IsLeaseStore
<1>1. Init => RecordInv /\ Store!Init
  BY RecordInit
<1>2. RecordInv /\ [Next]_vars => RecordInv' /\ [Store!Next]_(Store!svars)
  BY RecordSimulates
<1>. QED  BY <1>1, <1>2, PTL DEF Spec, IsLeaseStore, Store!Spec

-----------------------------------------------------------------------------
Kind == {"Acquired", "Completed", "WillRetry", "Abandoned", "LeaseExpired"}
Stage == EmitStage \cup {"queued", "running", "completing", "failing",
                         "giving_up", "returned", "idle", "ended"}

(* execute_task is with LeaseManager::complete or fail.                    *)
Settling == {"completing", "failing", "giving_up"}

(* The Completed event of a task is on disk, or was refused.               *)
Logged(t) == "Completed" \in db_events[t] \/ <<t, "Completed">> \in refused

(* CompletedIsLogged is not inductive: whatever may still write Completed  *)
(* to the table (a copy, an executor past its report) is past the event    *)
(* too, and an emission starts at the first sink, the database.            *)
LogInv ==
    /\ RecordInv
    /\ stage \in [Task -> [Emitter -> Stage]]
    /\ emitting \in [Task -> [Emitter -> 1..3]]
    /\ db_events \in [Task -> SUBSET Kind]
    /\ \A t \in Task :
          /\ rows[t].json.state = "Completed" => Logged(t)
          /\ \A c \in Client : copy[t][c].state = "Completed" => Logged(t)
          /\ stage[t]["executor"] = "completing" => Logged(t)
          /\ stage[t]["executor"] = "complete" /\ emitting[t]["executor"] > 1
             => Logged(t)
          /\ stage[t]["executor"] \notin EmitStage => emitting[t]["executor"] = 1
          /\ copy[t]["executor"] # NoLease => stage[t]["executor"] \in Settling

(* Nothing is ever taken out of the event log.                             *)
LEMMA LoggedStays ==
    ASSUME LogInv, Next, NEW t \in Task, Logged(t)
    PROVE  Logged(t)'
<1>. USE DEF Logged, LogInv
<1>1. CASE UNCHANGED <<db_events, refused>>
  BY <1>1
<1>2. ASSUME NEW u \in Task, NEW e \in Emitter, EmitEvent(u, e)
      PROVE  Logged(t)'
  BY <1>2 DEF EmitEvent, EmitTo, EmitFails
<1>. QED
  BY <1>1, <1>2, ZenonT(40) DEF Next, Execute, Manage, Acquire, EmitLog, Finish, Read,
     ReadNothing, Write, WriteFails, RemoveLease, ListActive, Tick, Crash,
     Restart, logs

(* An emission: by the time the loop over the sinks is left, the database  *)
(* has recorded Completed or refused it.                                   *)
LEMMA LogStepEmit ==
    ASSUME LogInv, RecordInv', Next,
           NEW t \in Task, NEW e \in Emitter, EmitEvent(t, e)
    PROVE  LogInv'
<1>. USE DEF LogInv, Emitter
<1>1. UNCHANGED <<rows, copy>>
  BY DEF EmitEvent
<1>2. \A u \in Task : Logged(u) => Logged(u)'
  BY LoggedStays
<1>c. copy[t]["executor"] # NoLease =>
          stage[t]["executor"] \notin EmitStage \cup {"returned"}
  BY DEF Settling, EmitStage
<1>3. CASE EmitTo(t, e, sinks[emitting[t][e]])
  <2>1. stage[t][e] \in EmitStage /\ Emits(stage[t][e]) \in Kind
    BY DEF EmitEvent, MayEmit, EmitStage, Emits, Kind
  <2>2. db_events' \in [Task -> SUBSET Kind]
    BY <1>3, <2>1 DEF EmitTo
  <2>3. emitting[t][e] = 1 /\ stage[t][e] = "complete" => Logged(t)'
    BY <1>3 DEF EmitTo, Logged, sinks, Emits
  <2>4. CASE emitting[t][e] = 3
    <3>1. Leave(t, e, AfterEmit(stage[t][e]))
      BY <1>3, <2>4 DEF EmitTo, sinks
    <3>2. AfterEmit(stage[t][e]) \in Stage
      BY <2>1 DEF AfterEmit, EmitStage, Stage
    <3>3. AfterEmit(stage[t][e]) = "completing" => stage[t][e] = "complete"
      BY <2>1 DEF AfterEmit, EmitStage
    <3>4. AfterEmit(stage[t][e]) # "complete"
      BY <2>1 DEF AfterEmit, EmitStage
    <3>5. Idle \in [Emitter -> Stage] /\ Idle["executor"] = "queued"
      BY DEF Idle, Stage
    <3>. HIDE DEF Idle
    <3>6. /\ stage' \in [Task -> [Emitter -> Stage]]
          /\ emitting' \in [Task -> [Emitter -> 1..3]]
      BY <3>1, <3>2, <3>5 DEF Leave
    <3>7. \A u \in Task : u # t => stage'[u] = stage[u] /\ emitting'[u] = emitting[u]
      BY <3>1 DEF Leave
    <3>8. CASE e = "executor"
      <4>1. emitting'[t]["executor"] = 1
        BY <3>1, <3>8 DEF Leave
      <4>2. stage'[t]["executor"] \in {"queued", AfterEmit(stage[t][e])}
        BY <3>1, <3>5, <3>8 DEF Leave
      <4>3. stage'[t]["executor"] = "completing" => Logged(t)'
        BY <1>2, <2>4, <3>3, <3>8, <4>2
      <4>. QED  BY <1>1, <1>2, <1>c, <2>1, <2>2, <3>6, <3>7, <3>8, <4>1, <4>3
    <3>9. CASE e = "reaper"
      <4>1. emitting'[t]["executor"] = emitting[t]["executor"]
        BY <3>1, <3>9 DEF Leave
      <4>2. \/ stage'[t]["executor"] = stage[t]["executor"]
            \/ stage[t]["executor"] = "returned" /\ stage'[t]["executor"] = "queued"
        BY <3>1, <3>5, <3>9 DEF Leave
      <4>3. stage[t]["executor"] = "returned" => emitting[t]["executor"] = 1
        BY DEF EmitStage
      <4>. QED  BY <1>1, <1>2, <1>c, <2>2, <3>6, <3>7, <4>1, <4>2, <4>3
    <3>. QED  BY <3>8, <3>9
  <2>5. CASE emitting[t][e] # 3
    <3>1. GoesOn(t, e)
      BY <1>3, <2>5 DEF EmitTo, sinks
    <3>2. emitting' \in [Task -> [Emitter -> 1..3]]
      BY <2>5, <3>1 DEF GoesOn
    <3>3. stage' = stage
      BY <3>1 DEF GoesOn
    <3>4. \A u \in Task : u # t => emitting'[u] = emitting[u]
      BY <3>1 DEF GoesOn
    <3>5. e = "reaper" => emitting'[t]["executor"] = emitting[t]["executor"]
      BY <3>1 DEF GoesOn
    <3>6. e = "executor" /\ stage[t]["executor"] = "complete" => Logged(t)'
      BY <1>2, <2>3
    <3>. QED  BY <1>1, <1>2, <2>1, <2>2, <3>2, <3>3, <3>4, <3>5, <3>6
  <2>. QED  BY <2>4, <2>5
<1>4. CASE EmitFails(t, e)
  <2>1. stage[t][e] \in EmitStage
    BY DEF EmitEvent, MayEmit
  <2>2. stage[t][e] = "complete" => Logged(t)'
    BY <1>4 DEF EmitFails, Logged, Emits
  <2>3. Leave(t, e, AfterError(stage[t][e])) /\ db_events' = db_events
    BY <1>4 DEF EmitFails, StopsAtError
  <2>4. AfterError(stage[t][e]) \in Stage
    BY <2>1 DEF AfterError, AfterEmit, EmitStage, Stage
  <2>5. AfterError(stage[t][e]) = "completing" => stage[t][e] = "complete"
    BY <2>1 DEF AfterError, AfterEmit, EmitStage
  <2>6. AfterError(stage[t][e]) # "complete"
    BY <2>1 DEF AfterError, AfterEmit, EmitStage
  <2>7. Idle \in [Emitter -> Stage] /\ Idle["executor"] = "queued"
    BY DEF Idle, Stage
  <2>. HIDE DEF Idle
  <2>8. /\ stage' \in [Task -> [Emitter -> Stage]]
        /\ emitting' \in [Task -> [Emitter -> 1..3]]
    BY <2>3, <2>4, <2>7 DEF Leave
  <2>9. \A u \in Task : u # t => stage'[u] = stage[u] /\ emitting'[u] = emitting[u]
    BY <2>3 DEF Leave
  <2>d. db_events' \in [Task -> SUBSET Kind]
    BY <2>3
  <2>10. CASE e = "executor"
    <3>1. emitting'[t]["executor"] = 1
      BY <2>3, <2>10 DEF Leave
    <3>2. stage'[t]["executor"] \in {"queued", AfterError(stage[t][e])}
      BY <2>3, <2>7, <2>10 DEF Leave
    <3>3. stage'[t]["executor"] = "completing" => Logged(t)'
      BY <2>2, <2>5, <3>2
    <3>. QED  BY <1>1, <1>2, <1>c, <2>1, <2>d, <2>8, <2>9, <2>10, <3>1, <3>3
  <2>11. CASE e = "reaper"
    <3>1. emitting'[t]["executor"] = emitting[t]["executor"]
      BY <2>3, <2>11 DEF Leave
    <3>2. \/ stage'[t]["executor"] = stage[t]["executor"]
          \/ stage[t]["executor"] = "returned" /\ stage'[t]["executor"] = "queued"
      BY <2>3, <2>7, <2>11 DEF Leave
    <3>3. stage[t]["executor"] = "returned" => emitting[t]["executor"] = 1
      BY DEF EmitStage
    <3>. QED  BY <1>1, <1>2, <1>c, <2>d, <2>8, <2>9, <3>1, <3>2, <3>3
  <2>. QED  BY <2>10, <2>11
<1>. QED  BY <1>3, <1>4 DEF EmitEvent

(* Every step keeps LogInv.                                                *)
LEMMA LogStep ==
    ASSUME LogInv, [Next]_vars
    PROVE  LogInv'
<1>. USE DEF LogInv
<1>r. RecordInv'
  BY RecordSimulates
<1>s. CASE UNCHANGED vars
  BY <1>s, <1>r DEF vars, Logged
<1>n. SUFFICES ASSUME Next PROVE LogInv'
  BY <1>s
<1>l. \A u \in Task : Logged(u) => Logged(u)'
  BY <1>n, LoggedStays
<1>t. rows \in [Task -> Row] /\ copy \in [Task -> [Client -> Lease \cup {NoLease}]]
  BY DEF RecordInv
<1>1. ASSUME NEW t \in Task, Acquire(t)
      PROVE  LogInv'
  <2>1. rows' = [rows EXCEPT ![t] = RowOf(NewLease)] /\ RowOf(NewLease).json.state = "Active"
    BY <1>1 DEF Acquire, insert, RowOf, NewLease
  <2>2. \A u \in Task : rows'[u].json.state = "Completed" => Logged(u)'
    BY <1>l, <1>t, <2>1
  <2>3. stage' = [stage EXCEPT ![t]["executor"] = "acquired"]
    BY <1>1 DEF Acquire
  <2>4. UNCHANGED <<emitting, copy, db_events>> /\ emitting[t]["executor"] = 1
    BY <1>1 DEF Acquire, logs, EmitStage
  <2>5. stage' \in [Task -> [Emitter -> Stage]]
    BY <2>3 DEF Stage, EmitStage, Emitter
  <2>6. copy[t]["executor"] = NoLease
    BY <1>1 DEF Acquire, Settling
  <2>. QED  BY <1>r, <1>l, <2>2, <2>3, <2>4, <2>5, <2>6
<1>2. ASSUME NEW t \in Task, NEW e \in Emitter, EmitEvent(t, e)
      PROVE  LogInv'
  BY <1>2, <1>n, <1>r, LogStepEmit
<1>3. ASSUME NEW t \in Task, NEW decision \in {"complete", "retry", "abandon"},
             Finish(t, decision)
      PROVE  LogInv'
  <2>1. stage' = [stage EXCEPT ![t]["executor"] = decision]
    BY <1>3 DEF Finish, Reported
  <2>2. UNCHANGED <<emitting, copy, db_events, rows>> /\ emitting[t]["executor"] = 1
    BY <1>3 DEF Finish, logs, EmitStage
  <2>3. stage' \in [Task -> [Emitter -> Stage]]
    BY <2>1 DEF Stage, EmitStage, Emitter
  <2>4. decision \in EmitStage /\ decision # "completing"
    BY DEF EmitStage
  <2>5. copy[t]["executor"] = NoLease
    BY <1>3 DEF Finish, Settling
  <2>. QED  BY <1>r, <1>l, <2>1, <2>2, <2>3, <2>4, <2>5
<1>4. ASSUME NEW t \in Task, NEW c \in Client, Read(t, c)
      PROVE  LogInv'
  <2>1. copy' = [copy EXCEPT ![t][c] = rows[t].json]
    BY <1>4 DEF Read, get
  <2>2. UNCHANGED <<emitting, stage, db_events, rows>>
    BY <1>4 DEF Read, logs, runtime
  <2>3. \A u \in Task, d \in Client :
          copy'[u][d] \in {copy[u][d], rows[u].json}
    BY <1>t, <2>1
  <2>4. \A u \in Task, d \in Client :
          copy'[u][d].state = "Completed" => Logged(u)'
    BY <1>l, <2>3
  <2>5. \A u \in Task : copy'[u]["executor"] # NoLease =>
                          stage[u]["executor"] \in Settling
    <3>1. c = "executor" => stage[t]["executor"] \in Settling
      BY <1>4, Zenon DEF Read, Wants, Settling, Client
    <3>2. \A u \in Task : \/ copy'[u]["executor"] = copy[u]["executor"]
                          \/ u = t /\ c = "executor"
      BY <1>t, <2>1 DEF Client
    <3>3. \A u \in Task : copy[u]["executor"] # NoLease =>
                            stage[u]["executor"] \in Settling
      BY <1>l
    <3>. QED  BY <3>1, <3>2, <3>3
  <2>. QED  BY <1>r, <1>l, <2>2, <2>4, <2>5
<1>5. ASSUME NEW t \in Task, NEW c \in Client, ReadNothing(t, c)
      PROVE  LogInv'
  <2>1. UNCHANGED <<emitting, copy, db_events, rows>>
    BY <1>5 DEF ReadNothing, logs
  <2>2. CASE c = "executor"
    <3>1. /\ stage' = [stage EXCEPT ![t][c] = "returned"]
          /\ emitting[t][c] = 1
          /\ copy[t][c] = NoLease
      BY <1>5, <2>2 DEF ReadNothing, Wants, EmitStage
    <3>2. stage' \in [Task -> [Emitter -> Stage]]
      BY <2>2, <3>1 DEF Stage, Emitter
    <3>. QED  BY <1>r, <1>l, <2>1, <2>2, <3>1, <3>2 DEF Emitter
  <2>3. CASE c # "executor"
    BY <1>5, <1>r, <1>l, <2>1, <2>3 DEF ReadNothing
  <2>. QED  BY <2>2, <2>3
<1>6. ASSUME NEW t \in Task, NEW c \in Client, Write(t, c)
      PROVE  LogInv'
  <2>1. UNCHANGED <<emitting, db_events>>
    BY <1>6 DEF Write, logs
  <2>2. copy' = [copy EXCEPT ![t][c] = NoLease] /\ copy[t][c] \in Lease
    BY <1>6, <1>t DEF Write
  <2>3. \A u \in Task, d \in Client :
          copy'[u][d].state = "Completed" => Logged(u)'
    BY <1>l, <1>t, <2>2 DEF NoLease
  <2>4. Changed(t, c).state = "Completed" => Logged(t)
    BY <1>6, <2>2 DEF Changed, Client, Lease
  <2>5. \A u \in Task : rows'[u].json.state = "Completed" => Logged(u)'
    <3>1. \A u \in Task : \/ rows'[u] = rows[u]
                          \/ u = t /\ rows'[u] = RowOf(Changed(t, c))
      BY <1>6, <1>t DEF Write, update, Updated
    <3>2. RowOf(Changed(t, c)).json = Changed(t, c)
      BY DEF RowOf
    <3>. QED  BY <1>l, <2>4, <3>1, <3>2
  <2>6. CASE c = "executor"
    <3>1. stage' = [stage EXCEPT ![t]["executor"] = Settled(stage[t]["executor"])]
      BY <1>6, <2>6 DEF Write
    <3>2. Settled(stage[t]["executor"]) \in {"queued", "returned"}
      BY DEF Settled
    <3>3. stage' \in [Task -> [Emitter -> Stage]]
      BY <3>1, <3>2 DEF Stage, Emitter
    <3>4. copy[t]["executor"] # NoLease /\ copy'[t]["executor"] = NoLease
      BY <1>6, <1>t, <2>2, <2>6 DEF Write
    <3>5. emitting[t]["executor"] = 1
      BY <3>4 DEF Settling, EmitStage
    <3>6. \A u \in Task : u # t => copy'[u] = copy[u] /\ stage'[u] = stage[u]
      BY <1>t, <2>2, <3>1
    <3>7. stage'[t]["executor"] \in {"queued", "returned"}
      BY <3>1, <3>2 DEF Emitter
    <3>. QED  BY <1>r, <1>l, <2>1, <2>3, <2>5, <3>3, <3>4, <3>5, <3>6, <3>7
  <2>7. CASE c # "executor"
    <3>1. stage' \in {stage, [stage EXCEPT ![t]["reaper"] = "expired"]}
      BY <1>6, <2>7 DEF Write, Client
    <3>2. stage' \in [Task -> [Emitter -> Stage]]
      BY <3>1 DEF Stage, EmitStage, Emitter
    <3>3. \A u \in Task : stage'[u]["executor"] = stage[u]["executor"]
      BY <3>1 DEF Emitter
    <3>4. \A u \in Task : copy'[u]["executor"] = copy[u]["executor"]
      BY <1>t, <2>2, <2>7 DEF Client
    <3>. QED  BY <1>r, <1>l, <2>1, <2>3, <2>5, <3>2, <3>3, <3>4
  <2>. QED  BY <2>6, <2>7
<1>7. ASSUME NEW t \in Task, NEW c \in Client, WriteFails(t, c)
      PROVE  LogInv'
  <2>1. UNCHANGED <<emitting, db_events, rows>>
    BY <1>7 DEF WriteFails, logs
  <2>2. copy' = [copy EXCEPT ![t][c] = NoLease]
    BY <1>7 DEF WriteFails
  <2>3. \A u \in Task, d \in Client :
          copy'[u][d].state = "Completed" => Logged(u)'
    BY <1>l, <1>t, <2>2 DEF NoLease
  <2>4. CASE c = "executor"
    <3>1. stage' = [stage EXCEPT ![t]["executor"] = "returned"]
      BY <1>7, <2>4 DEF WriteFails
    <3>2. stage' \in [Task -> [Emitter -> Stage]]
      BY <3>1 DEF Stage, Emitter
    <3>3. copy[t]["executor"] # NoLease /\ copy'[t]["executor"] = NoLease
      BY <1>7, <1>t, <2>2, <2>4 DEF WriteFails
    <3>4. emitting[t]["executor"] = 1
      BY <3>3 DEF Settling, EmitStage
    <3>5. \A u \in Task : u # t => copy'[u] = copy[u] /\ stage'[u] = stage[u]
      BY <1>t, <2>2, <3>1
    <3>6. stage'[t]["executor"] = "returned"
      BY <3>1 DEF Emitter
    <3>. QED  BY <1>r, <1>l, <2>1, <2>3, <3>2, <3>3, <3>4, <3>5, <3>6
  <2>5. CASE c # "executor"
    <3>1. \/ stage' = stage
          \/ stage' = [u \in Task |-> [stage[u] EXCEPT !["reaper"] = "idle"]]
      BY <1>7, <2>5 DEF WriteFails, Client
    <3>2. stage' \in [Task -> [Emitter -> Stage]]
      BY <3>1 DEF Stage, Emitter
    <3>3. \A u \in Task : stage'[u]["executor"] = stage[u]["executor"]
      BY <3>1 DEF Emitter
    <3>4. \A u \in Task : copy'[u]["executor"] = copy[u]["executor"]
      BY <1>t, <2>2, <2>5 DEF Client
    <3>. QED  BY <1>r, <1>l, <2>1, <2>3, <3>2, <3>3, <3>4
  <2>. QED  BY <2>4, <2>5
<1>8. ASSUME NEW t \in Task, RemoveLease(t)
      PROVE  LogInv'
  <2>1. UNCHANGED <<emitting, stage, db_events, copy>>
    BY <1>8 DEF RemoveLease, logs, runtime
  <2>2. \A u \in Task : rows'[u].json.state = "Completed" => Logged(u)'
    BY <1>8, <1>l, <1>t DEF RemoveLease, NoRow, NoLease
  <2>. QED  BY <1>r, <1>l, <2>1, <2>2
<1>9. CASE Crash
  <2>1. UNCHANGED <<rows, db_events>>
    BY <1>9 DEF Crash
  <2>2. /\ stage' = [t \in Task |-> Idle]
        /\ emitting' = [t \in Task |-> FirstSink]
        /\ copy' = [t \in Task |-> NoCopy]
    BY <1>9 DEF Crash
  <2>3. /\ Idle \in [Emitter -> Stage] /\ Idle["executor"] = "queued"
        /\ FirstSink \in [Emitter -> 1..3] /\ FirstSink["executor"] = 1
        /\ \A c \in Client : NoCopy[c].state = "None"
        /\ NoCopy["executor"] = NoLease
    BY DEF Idle, FirstSink, NoCopy, NoLease, Emitter, Client, Stage
  <2>. QED  BY <1>r, <1>l, <2>1, <2>2, <2>3
<1>10. ASSUME UNCHANGED <<rows, db_events, copy, stage, emitting>>
       PROVE  LogInv'
  BY <1>10, <1>r, <1>l
<1>11. ASSUME NEW t \in Task, EmitLog(t)
       PROVE  LogInv'
  BY <1>11, <1>10 DEF EmitLog, runtime
<1>12. CASE ListActive \/ Tick \/ Restart
  BY <1>12, <1>10 DEF ListActive, Tick, Restart, runtime, logs
<1>. QED
  BY <1>1, <1>2, <1>3, <1>4, <1>5, <1>6, <1>7, <1>8, <1>9, <1>11, <1>12, <1>n
     DEF Next, Execute, Manage

(* A lease is Completed on disk only with its Completed event, or with the *)
(* refusal of that event: for any tasks, crashes, refusals and late writes *)
(* of the heartbeat, the reaper and execute_task.                          *)
THEOREM CompletedAfterItsEvent == Spec => []CompletedIsLogged
<1>1. Init => LogInv
  <2>. SUFFICES ASSUME Init PROVE LogInv
    OBVIOUS
  <2>1. RecordInv
    BY RecordInit
  <2>2. /\ Idle \in [Emitter -> Stage] /\ Idle["executor"] = "queued"
        /\ FirstSink \in [Emitter -> 1..3] /\ FirstSink["executor"] = 1
        /\ \A c \in Client : NoCopy[c].state = "None"
        /\ NoCopy["executor"] = NoLease /\ NoRow.json.state = "None"
    BY DEF Idle, FirstSink, NoCopy, NoLease, NoRow, Emitter, Client, Stage
  <2>. QED  BY <2>1, <2>2 DEF Init, LogInv
<1>2. LogInv /\ [Next]_vars => LogInv'
  BY LogStep
<1>3. LogInv => CompletedIsLogged
  BY DEF LogInv, CompletedIsLogged, Logged, get
<1>. QED  BY <1>1, <1>2, <1>3, PTL DEF Spec

-----------------------------------------------------------------------------
(* A later moment is not on an earlier day.                                *)
LEMMA DayMonotonic ==
    ASSUME NEW x \in Nat, NEW y \in Nat, x <= y
    PROVE  Day(x) <= Day(y)
BY ClockAssumption, SMTT(30) DEF Day

(* A lease that is Active and not expired at a restart is recovered,       *)
(* whatever the length of a day in the text comparison of expires_at with  *)
(* datetime('now').                                                        *)
THEOREM RecoveryFindsLiveLeases == Spec => LiveLeaseIsRecovered
<1>. DEFINE Live == {t \in Task : get(t).state = "Active" /\ ~is_expired(get(t))}
<1>1. RecordInv /\ [Next]_vars => [~up /\ (up') => Live \subseteq recovered']_vars
  <2>. SUFFICES ASSUME RecordInv, Next, ~up, up', NEW t \in Live
                PROVE  t \in recovered'
    OBVIOUS
  <2>1. Restart
    <3>1. ASSUME NEW u \in Task, Execute(u) PROVE FALSE
      BY <3>1, Zenon DEF Execute, Acquire, EmitEvent, EmitLog, Finish
    <3>2. ASSUME NEW u \in Task, NEW c \in Client,
                 Read(u, c) \/ ReadNothing(u, c) \/ Write(u, c) \/ WriteFails(u, c)
          PROVE  FALSE
      BY <3>2, Zenon DEF Read, ReadNothing, Wants, Write, WriteFails
    <3>3. ASSUME NEW u \in Task, RemoveLease(u) PROVE FALSE
      BY <3>3, Zenon DEF RemoveLease
    <3>4. ~ListActive /\ ~Crash
      BY Zenon DEF ListActive, Crash
    <3>5. ~Tick
      <4>1. Tick => up' = up
        BY DEF Tick
      <4>. QED  BY <4>1
    <3>. QED  BY <3>1, <3>2, <3>3, <3>4, <3>5 DEF Next, Manage
  <2>2. rows[t] \in Row /\ now \in Nat
    BY ClockAssumption DEF RecordInv
  <2>3. get(t) \in Lease /\ rows[t] = RowOf(get(t)) /\ rows[t] # NoRow
    BY <2>2, RowFacts DEF get, NoLease
  <2>4. get(t).expires_at \in Nat /\ rows[t].expires_at = get(t).expires_at
    BY <2>3, ClockAssumption DEF Lease, RowOf
  <2>5. Day(now) <= Day(get(t).expires_at)
    BY <2>2, <2>4, DayMonotonic DEF is_expired
  <2>6. Day(now) \in Int /\ Day(get(t).expires_at) \in Int
    BY <2>2, <2>4, ClockAssumption DEF Day
  <2>. QED  BY <2>1, <2>3, <2>4, <2>5, <2>6 DEF Restart, recover_active_leases
<1>2. Init => RecordInv
  BY RecordInit
<1>3. RecordInv /\ [Next]_vars => RecordInv'
  BY RecordSimulates
<1>. QED  BY <1>1, <1>2, <1>3, PTL DEF Spec, LiveLeaseIsRecovered

-----------------------------------------------------------------------------
(* ArtifactCache.                                                          *)

(* s lists every member of S once.                                         *)
OrderOf(s, S) ==
    /\ s \in Seq(S)
    /\ \A i, j \in 1..Len(s) : s[i] = s[j] => i = j
    /\ \A c \in S : \E i \in 1..Len(s) : s[i] = c

(* Nothing in s was used after something that follows it.                  *)
InOrder(s, later) ==
    \A i, j \in 1..Len(s) : i < j => s[i] \notin later[s[j]]

(* IndexMatchesDirectory is inductive only with what the index is made of: *)
(* the order lists what is indexed, nothing is longer than its content,    *)
(* and what store makes room for is not there yet; EvictsLeastRecent needs *)
(* that nothing was used after something that follows it in the order.     *)
CacheInv ==
    /\ open \in BOOLEAN
    /\ DOMAIN files \subseteq Content /\ IsFiniteSet(DOMAIN files)
    /\ \A c \in DOMAIN files : files[c] \in 0..Size[c]
    /\ DOMAIN entries \subseteq DOMAIN files
    /\ \A c \in DOMAIN entries : entries[c] = files[c]
    /\ total_bytes = Cache!Bytes(entries)
    /\ OrderOf(access, DOMAIN entries)
    /\ open => \A c \in DOMAIN files \ DOMAIN entries : files[c] < Size[c]
    /\ DOMAIN since = DOMAIN entries
    /\ InOrder(access, since)
    /\ storing # Cache!NotStoring =>
           open /\ storing.content \in Content \ DOMAIN files

(* The instance's own copy of Cardinality.                                 *)
LEMMA SameCardinality ==
    ASSUME NEW S
    PROVE  Cache!Cardinality(S) = Cardinality(S)
BY Zenon DEF Cache!Cardinality, Cardinality

(* The bytes of a map are a sum over its keys.                             *)
LEMMA BytesIsTotal ==
    ASSUME NEW f
    PROVE  Cache!Bytes(f) = Total(f, DOMAIN f)
<1>1. Cache!Cardinality(Units(f, DOMAIN f)) = Cardinality(Units(f, DOMAIN f))
  BY SameCardinality
<1>. QED  BY <1>1 DEF Cache!Bytes, Cache!Total, Cache!Units, Total, Units

LEMMA BytesType ==
    ASSUME NEW f, IsFiniteSet(DOMAIN f), \A x \in DOMAIN f : f[x] \in Nat
    PROVE  Cache!Bytes(f) \in Nat
BY BytesIsTotal, TotalType

LEMMA BytesWith ==
    ASSUME NEW f, IsFiniteSet(DOMAIN f), \A x \in DOMAIN f : f[x] \in Nat,
           NEW c, c \notin DOMAIN f, NEW n \in Nat
    PROVE  Cache!Bytes(Cache!With(f, c, n)) = Cache!Bytes(f) + n
<1>. DEFINE g == Cache!With(f, c, n)
<1>1. DOMAIN g = DOMAIN f \cup {c} /\ g[c] = n
      /\ \A x \in DOMAIN f : g[x] = f[x]
  BY DEF Cache!With
<1>. HIDE DEF g
<1>2. Total(g, DOMAIN f \cup {c}) = Total(g, DOMAIN f) + g[c]
  BY <1>1, TotalAdd
<1>3. Total(g, DOMAIN f) = Total(f, DOMAIN f)
  BY <1>1, TotalSame
<1>4. Cache!Bytes(g) = Cache!Bytes(f) + n
  BY <1>1, <1>2, <1>3, BytesIsTotal
<1>. QED  BY <1>4 DEF g

LEMMA BytesWithout ==
    ASSUME NEW f, IsFiniteSet(DOMAIN f), \A x \in DOMAIN f : f[x] \in Nat,
           NEW c \in DOMAIN f
    PROVE  /\ Cache!Bytes(f) = Cache!Bytes(Cache!Without(f, c)) + f[c]
           /\ Cache!Bytes(Cache!Without(f, c)) \in Nat
<1>. DEFINE g == Cache!Without(f, c)
<1>1. DOMAIN g = DOMAIN f \ {c} /\ \A x \in DOMAIN g : g[x] = f[x]
  BY DEF Cache!Without, Cache!Restrict
<1>. HIDE DEF g
<1>2. IsFiniteSet(DOMAIN g) /\ c \notin DOMAIN g /\ DOMAIN g \cup {c} = DOMAIN f
  BY <1>1, FS_RemoveElement
<1>3. Total(f, DOMAIN g \cup {c}) = Total(f, DOMAIN g) + f[c]
  BY <1>1, <1>2, TotalAdd
<1>4. Total(g, DOMAIN g) = Total(f, DOMAIN g)
  BY <1>1, TotalSame
<1>5. Cache!Bytes(f) = Cache!Bytes(g) + f[c] /\ Cache!Bytes(g) \in Nat
  BY <1>1, <1>2, <1>3, <1>4, BytesIsTotal, TotalType
<1>. QED  BY <1>5 DEF g

(* Touching one moves it to the end of the same order.                     *)
LEMMA MoveToEndOrder ==
    ASSUME NEW S, NEW s, OrderOf(s, S), NEW c \in S
    PROVE  /\ OrderOf(Cache!MoveToEnd(s, c), S)
           /\ \A i, j \in 1..Len(Cache!MoveToEnd(s, c)) : i < j =>
                  \/ Cache!MoveToEnd(s, c)[j] = c
                  \/ /\ Cache!MoveToEnd(s, c)[i] # c
                     /\ \E k, l \in 1..Len(s) :
                            /\ k < l /\ s[k] = Cache!MoveToEnd(s, c)[i]
                            /\ s[l] = Cache!MoveToEnd(s, c)[j]
<1>. DEFINE m == Cache!MoveToEnd(s, c)
            n == Len(s)
<1>1. s \in Seq(S) /\ n \in Nat /\ DOMAIN s = 1..n /\ \A i \in 1..n : s[i] \in S
  BY DEF OrderOf
<1>2. PICK k \in 1..n : s[k] = c
  BY DEF OrderOf
<1>3. \A i, j \in 1..n : s[i] = s[j] => i = j
  BY DEF OrderOf
<1>4. (CHOOSE i \in DOMAIN s : s[i] = c) = k
  BY <1>1, <1>2, <1>3
<1>5. m = [i \in 1..n |-> IF i < k THEN s[i] ELSE IF i < n THEN s[i + 1] ELSE c]
  BY <1>1, <1>4 DEF Cache!MoveToEnd
<1>. HIDE DEF m, n
<1>6. \A i \in 1..n : m[i] = IF i < k THEN s[i]
                             ELSE IF i < n THEN s[i + 1] ELSE s[k]
  BY <1>2, <1>5
<1>7. \A i \in 1..n : m[i] \in S
  BY <1>1, <1>2, <1>6
<1>8. m \in Seq(S) /\ Len(m) = n
  BY <1>1, <1>5, <1>7
<1>9. \A i, j \in 1..n : m[i] = m[j] => i = j
  BY <1>1, <1>2, <1>3, <1>6
<1>10. ASSUME NEW d \in S
       PROVE  \E i \in 1..n : m[i] = d
  <2>1. PICK j \in 1..n : s[j] = d
    BY DEF OrderOf, n
  <2>2. CASE j < k
    BY <1>1, <1>6, <2>1, <2>2
  <2>3. CASE j = k
    BY <1>1, <1>2, <1>6, <2>1, <2>3
  <2>4. CASE j > k
    <3>1. j - 1 \in 1..n /\ ~(j - 1 < k) /\ j - 1 < n /\ (j - 1) + 1 = j
      BY <1>1, <1>2, <2>1, <2>4
    <3>. QED  BY <1>6, <2>1, <3>1
  <2>. QED  BY <1>1, <1>2, <2>1, <2>2, <2>3, <2>4
<1>11. ASSUME NEW i \in 1..n, NEW j \in 1..n, i < j
       PROVE  \/ m[j] = c
              \/ m[i] # c /\ \E x, y \in 1..n : x < y /\ s[x] = m[i] /\ s[y] = m[j]
  <2>1. CASE j = n
    BY <1>1, <1>2, <1>6, <2>1
  <2>2. CASE j # n
    <3>1. PICK x \in 1..n : x = IF i < k THEN i ELSE i + 1
      BY <1>1, <1>11, <2>2
    <3>2. PICK y \in 1..n : y = IF j < k THEN j ELSE j + 1
      BY <1>1, <1>11, <2>2
    <3>3. x < y /\ x # k /\ s[x] = m[i] /\ s[y] = m[j]
      BY <1>1, <1>2, <1>6, <1>11, <2>2, <3>1, <3>2
    <3>. QED  BY <1>2, <1>3, <3>3
  <2>. QED  BY <2>1, <2>2
<1>12. OrderOf(m, S)
  BY <1>8, <1>9, <1>10 DEF OrderOf
<1>. QED  BY <1>8, <1>11, <1>12 DEF m, n

(* Evicting the first leaves the order of the rest.                        *)
LEMMA TailOrder ==
    ASSUME NEW S, NEW s, OrderOf(s, S), S # {}
    PROVE  /\ Head(s) = s[1] /\ Len(s) \in Nat /\ Len(s) > 0 /\ s[1] \in S
           /\ OrderOf(Tail(s), S \ {s[1]})
           /\ Len(Tail(s)) = Len(s) - 1
           /\ \A i \in 1..(Len(s) - 1) : Tail(s)[i] = s[i + 1]
<1>. DEFINE n == Len(s)
<1>1. s \in Seq(S) /\ n \in Nat /\ \A i \in 1..n : s[i] \in S
  BY DEF OrderOf
<1>2. n > 0
  BY <1>1 DEF OrderOf
<1>3. \A i, j \in 1..n : s[i] = s[j] => i = j
  BY DEF OrderOf
<1>4. \A d \in S : \E i \in 1..n : s[i] = d
  BY DEF OrderOf
<1>5. /\ Head(s) = s[1] /\ Len(Tail(s)) = n - 1
      /\ \A i \in 1..(n - 1) : Tail(s)[i] = s[i + 1]
  BY <1>1, <1>2
<1>6. \A i \in 1..(n - 1) : Tail(s)[i] \in S \ {s[1]}
  BY <1>1, <1>2, <1>3, <1>5
<1>7. Tail(s) \in Seq(S \ {s[1]})
  <2>1. Tail(s) \in Seq(S) /\ s # <<>>
    BY <1>1, <1>2
  <2>2. Tail(s) \in [1..(n - 1) -> S]
    BY <1>5, <2>1, LenProperties
  <2>3. Tail(s) \in [1..(n - 1) -> S \ {s[1]}]
    BY <1>6, <2>2
  <2>4. n - 1 \in Nat
    BY <1>1, <1>2
  <2>. QED  BY <2>3, <2>4, SeqDef
<1>8. \A i, j \in 1..(n - 1) : Tail(s)[i] = Tail(s)[j] => i = j
  BY <1>1, <1>3, <1>5
<1>9. ASSUME NEW d \in S \ {s[1]}
      PROVE  \E i \in 1..(n - 1) : Tail(s)[i] = d
  <2>1. PICK j \in 1..n : s[j] = d
    BY <1>4
  <2>2. j - 1 \in 1..(n - 1) /\ (j - 1) + 1 = j
    BY <1>1, <2>1
  <2>. QED  BY <1>5, <2>1, <2>2
<1>10. OrderOf(Tail(s), S \ {s[1]})
  BY <1>5, <1>7, <1>8, <1>9 DEF OrderOf
<1>. QED  BY <1>1, <1>2, <1>5, <1>10

(* A new one goes last.                                                    *)
LEMMA AppendOrder ==
    ASSUME NEW S, NEW s, OrderOf(s, S), NEW c, c \notin S
    PROVE  /\ OrderOf(Append(s, c), S \cup {c})
           /\ Len(s) \in Nat /\ Len(Append(s, c)) = Len(s) + 1
           /\ Append(s, c)[Len(s) + 1] = c
           /\ \A i \in 1..Len(s) : Append(s, c)[i] = s[i]
<1>. DEFINE n == Len(s)
            a == Append(s, c)
<1>1. s \in Seq(S) /\ n \in Nat /\ \A i \in 1..n : s[i] \in S
  BY DEF OrderOf
<1>2. /\ Len(a) = n + 1 /\ a[n + 1] = c
      /\ \A i \in 1..n : a[i] = s[i]
  BY <1>1
<1>3. a \in Seq(S \cup {c})
  <2>1. s \in Seq(S \cup {c})
    BY <1>1
  <2>. QED  BY <2>1
<1>. HIDE DEF a
<1>4. \A i, j \in 1..(n + 1) : a[i] = a[j] => i = j
  <2>1. \A i, j \in 1..n : s[i] = s[j] => i = j
    BY DEF OrderOf
  <2>. QED  BY <1>1, <1>2, <2>1
<1>5. \A d \in S \cup {c} : \E i \in 1..(n + 1) : a[i] = d
  <2>1. \A d \in S : \E i \in 1..n : s[i] = d
    BY DEF OrderOf
  <2>2. n + 1 \in 1..(n + 1) /\ 1..n \subseteq 1..(n + 1)
    BY <1>1
  <2>3. \A d \in S : \E i \in 1..n : a[i] = d
    BY <1>2, <2>1
  <2>. QED  BY <1>2, <2>2, <2>3
<1>6. OrderOf(a, S \cup {c})
  BY <1>1, <1>2, <1>3, <1>4, <1>5 DEF OrderOf
<1>. QED  BY <1>1, <1>2, <1>6 DEF a

(* An empty index, as the process starts and as it ends.                   *)
LEMMA EmptyIndex ==
    /\ DOMAIN <<>> = {}
    /\ Cache!Bytes(<<>>) = 0
    /\ OrderOf(<<>>, {})
    /\ Len(<<>>) = 0
<1>1. DOMAIN <<>> = {} /\ Len(<<>>) = 0 /\ <<>> \in Seq({})
  OBVIOUS
<1>2. Cache!Bytes(<<>>) = 0
  BY <1>1, BytesIsTotal, TotalEmpty
<1>. QED  BY <1>1, <1>2 DEF OrderOf

LEMMA CacheInit == Cache!Init => CacheInv
<1>. SUFFICES ASSUME Cache!Init PROVE CacheInv
  OBVIOUS
<1>1. /\ files = <<>> /\ entries = <<>> /\ access = <<>> /\ total_bytes = 0
      /\ storing = Cache!NotStoring /\ since = <<>> /\ open = TRUE
  BY DEF Cache!Init
<1>2. IsFiniteSet({})
  BY FS_EmptySet
<1>. QED  BY <1>1, <1>2, EmptyIndex DEF CacheInv, InOrder

(* What the sizes in a map of files or entries are.                        *)
LEMMA SizesAreNat ==
    ASSUME CacheInv
    PROVE  /\ \A c \in Content : Size[c] \in Nat
           /\ \A c \in DOMAIN files : files[c] \in Nat
           /\ \A c \in DOMAIN entries : entries[c] \in Nat /\ entries[c] <= Size[c]
           /\ IsFiniteSet(DOMAIN entries)
           /\ total_bytes \in Nat
<1>1. \A c \in Content : Size[c] \in Nat
  BY SizeAssumption
<1>2. \A c \in DOMAIN files : files[c] \in Nat /\ files[c] <= Size[c]
  BY <1>1 DEF CacheInv
<1>3. \A c \in DOMAIN entries : entries[c] \in Nat /\ entries[c] <= Size[c]
  BY <1>2 DEF CacheInv
<1>4. IsFiniteSet(DOMAIN entries)
  BY FS_Subset DEF CacheInv
<1>5. total_bytes \in Nat
  BY <1>3, <1>4, BytesType DEF CacheInv
<1>. QED  BY <1>1, <1>2, <1>3, <1>4, <1>5

(* store of what is there, and retrieve: at most the order changes.        *)
LEMMA TouchInv ==
    ASSUME CacheInv, open, NEW c, Cache!Touch(c), Cache!Uses(c),
           UNCHANGED <<files, entries, total_bytes, storing, open>>
    PROVE  CacheInv'
<1>1. CASE c \in DOMAIN entries
  <2>1. access' = Cache!MoveToEnd(access, c)
    BY <1>1 DEF Cache!Touch, Cache!Indexed
  <2>2. /\ DOMAIN since' = DOMAIN entries /\ since'[c] = {}
        /\ \A x \in DOMAIN entries : since'[x] \subseteq since[x] \cup {c}
    BY <1>1 DEF Cache!Uses, Cache!UsedNow, Cache!Indexed
  <2>3. /\ OrderOf(access', DOMAIN entries)
        /\ \A i, j \in 1..Len(access') : i < j =>
               \/ access'[j] = c
               \/ /\ access'[i] # c
                  /\ \E k, l \in 1..Len(access) :
                         k < l /\ access[k] = access'[i] /\ access[l] = access'[j]
    BY <1>1, <2>1, MoveToEndOrder DEF CacheInv
  <2>4. \A i \in 1..Len(access') : access'[i] \in DOMAIN entries
    BY <2>3 DEF OrderOf
  <2>5. InOrder(access', since')
    <3>. SUFFICES ASSUME NEW i \in 1..Len(access'), NEW j \in 1..Len(access'), i < j
                  PROVE  access'[i] \notin since'[access'[j]]
      BY DEF InOrder
    <3>1. CASE access'[j] = c
      BY <2>2, <3>1
    <3>2. CASE access'[j] # c
      <4>1. access'[i] # c /\ access'[i] \notin since[access'[j]]
        BY <2>3, <3>2 DEF CacheInv, InOrder
      <4>. QED  BY <2>2, <2>4, <4>1
    <3>. QED  BY <3>1, <3>2
  <2>. QED  BY <2>2, <2>3, <2>5 DEF CacheInv
<1>2. CASE c \notin DOMAIN entries
  <2>1. access' = access /\ since' = since
    BY <1>2 DEF Cache!Touch, Cache!Uses, Cache!Indexed
  <2>. QED  BY <2>1 DEF CacheInv
<1>. QED  BY <1>1, <1>2

(* evict_lru takes the first of the order off every map.                   *)
LEMMA EvictInv ==
    ASSUME CacheInv, Cache!Evict
    PROVE  CacheInv'
<1>. DEFINE h == access[1]
<1>1. /\ storing # Cache!NotStoring /\ DOMAIN entries # {}
      /\ Cache!DropFile(Head(access)) /\ access' = Tail(access)
      /\ since' = [x \in DOMAIN entries' |-> since[x] \ {Head(access)}]
      /\ storing' = storing /\ open' = open
  BY DEF Cache!Evict, Cache!MustEvict, Cache!Indexed
<1>2. /\ Head(access) = h /\ Len(access) \in Nat /\ Len(access) > 0
      /\ h \in DOMAIN entries
      /\ OrderOf(Tail(access), DOMAIN entries \ {h})
      /\ Len(Tail(access)) = Len(access) - 1
      /\ \A i \in 1..(Len(access) - 1) : Tail(access)[i] = access[i + 1]
  BY <1>1, TailOrder DEF CacheInv
<1>. HIDE DEF h
<1>3. /\ files' = Cache!Without(files, h) /\ entries' = Cache!Without(entries, h)
      /\ total_bytes' = IF total_bytes >= entries[h]
                        THEN total_bytes - entries[h] ELSE 0
  BY <1>1, <1>2 DEF Cache!DropFile
<1>4. /\ DOMAIN files' = DOMAIN files \ {h}
      /\ DOMAIN entries' = DOMAIN entries \ {h}
      /\ \A c \in DOMAIN files' : files'[c] = files[c]
      /\ \A c \in DOMAIN entries' : entries'[c] = entries[c]
  BY <1>3 DEF Cache!Without, Cache!Restrict
<1>5. IsFiniteSet(DOMAIN files')
  <2>1. IsFiniteSet(DOMAIN files)
    BY DEF CacheInv
  <2>2. IsFiniteSet(DOMAIN files \ {h})
    BY <2>1, FS_RemoveElement
  <2>. QED  BY <1>4, <2>2
<1>6. total_bytes' = Cache!Bytes(entries')
  <2>1. /\ Cache!Bytes(entries) = Cache!Bytes(entries') + entries[h]
        /\ Cache!Bytes(entries') \in Nat
    BY <1>2, <1>3, SizesAreNat, BytesWithout
  <2>2. entries[h] \in Nat /\ total_bytes = Cache!Bytes(entries)
    BY <1>2, SizesAreNat DEF CacheInv
  <2>. QED  BY <1>3, <2>1, <2>2
<1>7. DOMAIN since' = DOMAIN entries' /\ InOrder(access', since')
  <2>1. DOMAIN since' = DOMAIN entries'
        /\ \A x \in DOMAIN entries' : since'[x] \subseteq since[x]
    BY <1>1
  <2>. SUFFICES ASSUME NEW i \in 1..Len(access'), NEW j \in 1..Len(access'), i < j
                PROVE  access'[i] \notin since'[access'[j]]
    BY <2>1 DEF InOrder
  <2>2. /\ i + 1 \in 1..Len(access) /\ j + 1 \in 1..Len(access) /\ i + 1 < j + 1
        /\ access'[i] = access[i + 1] /\ access'[j] = access[j + 1]
    BY <1>1, <1>2
  <2>3. access'[i] \notin since[access'[j]]
    BY <2>2 DEF CacheInv, InOrder
  <2>4. access'[j] \in DOMAIN entries'
    BY <1>1, <1>2, <1>4 DEF OrderOf
  <2>. QED  BY <2>1, <2>3, <2>4
<1>8. storing'.content \in Content \ DOMAIN files' /\ open'
  BY <1>1, <1>4 DEF CacheInv
<1>9. OrderOf(access', DOMAIN entries')
  BY <1>1, <1>2, <1>4
<1>10. /\ DOMAIN files' \subseteq Content /\ open' \in BOOLEAN
       /\ \A c \in DOMAIN files' : files'[c] \in 0..Size[c]
       /\ DOMAIN entries' \subseteq DOMAIN files'
       /\ \A c \in DOMAIN entries' : entries'[c] = files'[c]
       /\ \A c \in DOMAIN files' \ DOMAIN entries' : files'[c] < Size[c]
  BY <1>1, <1>4, <1>8 DEF CacheInv
<1>. QED  BY <1>5, <1>6, <1>7, <1>8, <1>9, <1>10 DEF CacheInv

(* A write that succeeds adds file and entry together, last in the order.  *)
LEMMA WriteFileInv ==
    ASSUME CacheInv, Cache!WriteFile
    PROVE  CacheInv'
<1>. DEFINE c == storing.content
<1>1. /\ storing # Cache!NotStoring
      /\ files' = Cache!With(files, c, Size[c])
      /\ entries' = Cache!With(entries, c, Size[c])
      /\ access' = Append(access, c) /\ total_bytes' = total_bytes + Size[c]
      /\ since' = Cache!UsedNow(c, DOMAIN entries \cup {c})
      /\ storing' = Cache!NotStoring /\ open' = open
  BY DEF Cache!WriteFile, Cache!Indexed
<1>2. c \in Content /\ c \notin DOMAIN files /\ c \notin DOMAIN entries /\ open
      /\ Size[c] \in Nat
  BY <1>1, SizesAreNat DEF CacheInv
<1>. HIDE DEF c
<1>3. /\ DOMAIN files' = DOMAIN files \cup {c} /\ files'[c] = Size[c]
      /\ \A x \in DOMAIN files : files'[x] = files[x]
  BY <1>1, <1>2 DEF Cache!With
<1>4. /\ DOMAIN entries' = DOMAIN entries \cup {c} /\ entries'[c] = Size[c]
      /\ \A x \in DOMAIN entries : entries'[x] = entries[x]
  BY <1>1, <1>2 DEF Cache!With
<1>5. IsFiniteSet(DOMAIN files')
  BY <1>3, FS_AddElement DEF CacheInv
<1>6. total_bytes' = Cache!Bytes(entries')
  <2>1. Cache!Bytes(entries') = Cache!Bytes(entries) + Size[c]
    BY <1>1, <1>2, SizesAreNat, BytesWith
  <2>. QED  BY <1>1, <2>1 DEF CacheInv
<1>7. /\ OrderOf(access', DOMAIN entries')
      /\ DOMAIN since' = DOMAIN entries' /\ InOrder(access', since')
  <2>1. /\ OrderOf(access', DOMAIN entries')
        /\ Len(access) \in Nat /\ Len(access') = Len(access) + 1
        /\ access'[Len(access) + 1] = c
        /\ \A i \in 1..Len(access) : access'[i] = access[i]
    BY <1>1, <1>2, <1>4, AppendOrder DEF CacheInv
  <2>2. /\ DOMAIN since' = DOMAIN entries' /\ since'[c] = {}
        /\ \A x \in DOMAIN entries : since'[x] \subseteq since[x] \cup {c}
    BY <1>1, <1>4 DEF Cache!UsedNow
  <2>3. \A i \in 1..Len(access) : access[i] \in DOMAIN entries
    BY DEF CacheInv, OrderOf
  <2>. SUFFICES ASSUME NEW i \in 1..Len(access'), NEW j \in 1..Len(access'), i < j
                PROVE  access'[i] \notin since'[access'[j]]
    BY <2>1, <2>2 DEF InOrder
  <2>4. i \in 1..Len(access) /\ access'[i] = access[i] /\ access'[i] # c
    BY <1>2, <2>1, <2>3
  <2>5. CASE j = Len(access) + 1
    BY <2>1, <2>2, <2>5
  <2>6. CASE j # Len(access) + 1
    <3>1. j \in 1..Len(access) /\ access'[j] = access[j]
      BY <2>1, <2>6
    <3>2. access[i] \notin since[access[j]]
      BY <2>4, <3>1 DEF CacheInv, InOrder
    <3>. QED  BY <2>2, <2>3, <2>4, <3>1, <3>2
  <2>. QED  BY <2>5, <2>6
<1>8. /\ DOMAIN files' \subseteq Content /\ open'
      /\ \A x \in DOMAIN files' : files'[x] \in 0..Size[x]
      /\ DOMAIN entries' \subseteq DOMAIN files'
      /\ \A x \in DOMAIN entries' : entries'[x] = files'[x]
      /\ \A x \in DOMAIN files' \ DOMAIN entries' : files'[x] < Size[x]
  BY <1>1, <1>2, <1>3, <1>4 DEF CacheInv
<1>. QED  BY <1>1, <1>5, <1>6, <1>7, <1>8 DEF CacheInv

(* What a write that stopped after n bytes leaves.                         *)
LEMMA TornFile ==
    ASSUME CacheInv, storing # Cache!NotStoring,
           NEW n \in 0..Size[storing.content],
           files' = Cache!With(files, storing.content, n)
    PROVE  /\ DOMAIN files' \subseteq Content /\ IsFiniteSet(DOMAIN files')
           /\ \A c \in DOMAIN files' : files'[c] \in 0..Size[c]
           /\ DOMAIN files' = DOMAIN files \cup {storing.content}
           /\ storing.content \notin DOMAIN entries
           /\ files'[storing.content] = n
           /\ \A c \in DOMAIN files : files'[c] = files[c]
<1>1. storing.content \in Content \ DOMAIN files
  BY DEF CacheInv
<1>2. /\ DOMAIN files' = DOMAIN files \cup {storing.content}
      /\ files'[storing.content] = n
      /\ \A c \in DOMAIN files : files'[c] = files[c]
  BY <1>1 DEF Cache!With
<1>3. IsFiniteSet(DOMAIN files')
  BY <1>2, FS_AddElement DEF CacheInv
<1>. QED  BY <1>1, <1>2, <1>3 DEF CacheInv

LEMMA StoreFailsInv ==
    ASSUME CacheInv, Cache!StoreFails
    PROVE  CacheInv'
<1>1. /\ storing # Cache!NotStoring /\ storing' = Cache!NotStoring
      /\ UNCHANGED <<entries, access, total_bytes, since, open>>
  BY DEF Cache!StoreFails, Cache!index
<1>2. CASE files' = files
  BY <1>1, <1>2 DEF CacheInv
<1>3. ASSUME NEW n \in 0..(Size[storing.content] - 1),
             files' = Cache!With(files, storing.content, n)
      PROVE  CacheInv'
  <2>1. Size[storing.content] \in Nat
    BY <1>1, SizesAreNat DEF CacheInv
  <2>2. n \in 0..Size[storing.content] /\ n < Size[storing.content]
    BY <1>3, <2>1
  <2>3. /\ DOMAIN files' \subseteq Content /\ IsFiniteSet(DOMAIN files')
        /\ \A c \in DOMAIN files' : files'[c] \in 0..Size[c]
        /\ DOMAIN files' = DOMAIN files \cup {storing.content}
        /\ storing.content \notin DOMAIN entries
        /\ files'[storing.content] = n
        /\ \A c \in DOMAIN files : files'[c] = files[c]
    BY <1>1, <1>3, <2>2, TornFile
  <2>. QED  BY <1>1, <2>2, <2>3 DEF CacheInv
<1>. QED  BY <1>2, <1>3 DEF Cache!StoreFails

LEMMA KillInv ==
    ASSUME CacheInv, Cache!Kill
    PROVE  CacheInv'
<1>1. /\ open' = FALSE /\ entries' = <<>> /\ access' = <<>> /\ total_bytes' = 0
      /\ storing' = Cache!NotStoring /\ since' = <<>>
  BY DEF Cache!Kill
<1>2. /\ DOMAIN files' \subseteq Content /\ IsFiniteSet(DOMAIN files')
      /\ \A c \in DOMAIN files' : files'[c] \in 0..Size[c]
  <2>1. CASE files' = files
    BY <2>1 DEF CacheInv
  <2>2. CASE /\ storing # Cache!NotStoring
             /\ \E n \in 0..Size[storing.content] :
                    files' = Cache!With(files, storing.content, n)
    BY <2>2, TornFile
  <2>. QED  BY <2>1, <2>2 DEF Cache!Kill
<1>3. DOMAIN since' = DOMAIN entries' /\ InOrder(access', since')
  BY <1>1, EmptyIndex DEF InOrder
<1>. QED  BY <1>1, <1>2, <1>3, EmptyIndex DEF CacheInv

(* scan_existing: every file is an entry, in some order.                   *)
LEMMA OpenInv ==
    ASSUME CacheInv, Cache!Open
    PROVE  CacheInv'
<1>. DEFINE n == Cardinality(DOMAIN files)
<1>1. /\ ~open /\ open' = TRUE /\ entries' = files
      /\ total_bytes' = Cache!Bytes(files)
      /\ since' = [c \in DOMAIN files |-> {}]
      /\ UNCHANGED <<files, storing>>
      /\ access' \in Cache!Bijection(1..Cache!Cardinality(DOMAIN files), DOMAIN files)
  BY DEF Cache!Open, Cache!Stored
<1>2. Cache!Cardinality(DOMAIN files) = n /\ n \in Nat
  BY SameCardinality, FS_CardinalityType DEF CacheInv
<1>3. /\ access' \in [1..n -> DOMAIN files]
      /\ \A i, j \in 1..n : access'[i] = access'[j] => i = j
      /\ \A c \in DOMAIN files : \E i \in 1..n : access'[i] = c
  BY <1>1, <1>2 DEF Cache!Bijection, Cache!Injection, Cache!IsInjective,
                    Cache!Surjection
<1>. HIDE DEF n
<1>4. access' \in Seq(DOMAIN files) /\ Len(access') = n
  BY <1>2, <1>3
<1>5. OrderOf(access', DOMAIN files)
  BY <1>3, <1>4 DEF OrderOf
<1>6. storing = Cache!NotStoring
  BY <1>1 DEF CacheInv
<1>7. DOMAIN since' = DOMAIN files /\ InOrder(access', since')
  BY <1>1, <1>5 DEF InOrder, OrderOf
<1>. QED  BY <1>1, <1>5, <1>6, <1>7 DEF CacheInv

(* Every step keeps CacheInv.                                              *)
LEMMA CacheKept ==
    ASSUME CacheInv, [Cache!Next]_(Cache!vars)
    PROVE  CacheInv'
<1>1. ASSUME NEW i, NEW c \in Content, Cache!StoreCached(i, c) PROVE CacheInv'
  BY <1>1, TouchInv DEF Cache!StoreCached, Cache!Ready
<1>2. ASSUME NEW i, NEW c \in Content, Cache!StoreNew(i, c) PROVE CacheInv'
  <2>1. /\ UNCHANGED <<files, entries, access, total_bytes, since, open>>
        /\ storing'.content = c /\ c \notin DOMAIN files /\ open
    BY <1>2 DEF Cache!StoreNew, Cache!Ready, Cache!Stored, Cache!index
  <2>. QED  BY <2>1 DEF CacheInv
<1>3. ASSUME NEW k, Cache!retrieve(k) PROVE CacheInv'
  <2>1. open /\ UNCHANGED <<files, entries, total_bytes, storing, open>>
    BY <1>3 DEF Cache!retrieve, Cache!Ready
  <2>2. CASE Cache!Touch(k) /\ Cache!Uses(k)
    BY <2>1, <2>2, TouchInv
  <2>3. CASE UNCHANGED <<access, since>>
    BY <2>1, <2>3 DEF CacheInv
  <2>. QED  BY <1>3, <2>2, <2>3 DEF Cache!retrieve
<1>4. CASE UNCHANGED Cache!vars
  BY <1>4 DEF Cache!vars, CacheInv
<1>. QED
  BY <1>1, <1>2, <1>3, <1>4, EvictInv, WriteFileInv, StoreFailsInv, KillInv,
     OpenInv DEF Cache!Next

(* What a step of the composition is to each of its parts.                 *)
LEMMA StepOfParts ==
    [CacheStep \/ RecordStep]_<<part, vars, cacheVars>> =>
        [Cache!Next]_(Cache!vars) /\ [Next]_vars
BY DEF CacheStep, RecordStep, cacheVars, Cache!vars, vars

LEMMA CacheInvariance == StoresSpec => []CacheInv
<1>1. StoresInit => CacheInv
  BY CacheInit DEF StoresInit
<1>2. CacheInv /\ [Cache!Next]_(Cache!vars) => CacheInv'
  BY CacheKept
<1>. QED  BY <1>1, <1>2, StepOfParts, PTL DEF StoresSpec

(* The composition runs DurableRecord unchanged, so what is proved of it   *)
(* above is true of every behaviour of StoresSpec.                         *)
THEOREM CompositionImplementsRecord == StoresSpec => Spec
<1>1. StoresInit => Init
  BY DEF StoresInit
<1>. QED  BY <1>1, StepOfParts, PTL DEF StoresSpec, Spec

(* Across evictions, failed writes and restarts the index is the truth     *)
(* about the directory, up to files whose write was cut short.             *)
THEOREM IndexIsTrue == StoresSpec => []IndexMatchesDirectory
<1>1. CacheInv => IndexMatchesDirectory
  BY DEF CacheInv, IndexMatchesDirectory, Cache!IndexMatchesDirectory,
         Cache!Indexed, Cache!Stored
<1>. QED  BY <1>1, CacheInvariance, PTL

(* evict_lru takes the first of the order, which was not used after any    *)
(* other, and only when all that is there leaves no room.                  *)
LEMMA EvictedFirst ==
    ASSUME CacheInv, Cache!Evict
    PROVE  \E h \in DOMAIN entries :
              /\ DOMAIN entries' = DOMAIN entries \ {h}
              /\ \A k \in DOMAIN entries \ {h} : h \notin since[k]
              /\ Cache!Total(entries, DOMAIN entries) + Size[storing.content]
                     > max_bytes
<1>1. /\ DOMAIN entries # {}
      /\ total_bytes + Size[storing.content] > max_bytes
      /\ entries' = Cache!Without(entries, Head(access))
  BY DEF Cache!Evict, Cache!MustEvict, Cache!Indexed, Cache!DropFile
<1>2. /\ Head(access) = access[1] /\ Len(access) \in Nat /\ Len(access) > 0
      /\ access[1] \in DOMAIN entries
  BY <1>1, TailOrder DEF CacheInv
<1>3. DOMAIN entries' = DOMAIN entries \ {access[1]}
  BY <1>1, <1>2 DEF Cache!Without, Cache!Restrict
<1>4. ASSUME NEW k \in DOMAIN entries \ {access[1]}
      PROVE  access[1] \notin since[k]
  <2>1. PICK j \in 1..Len(access) : access[j] = k
    BY DEF CacheInv, OrderOf
  <2>2. 1 \in 1..Len(access) /\ 1 < j
    BY <1>2, <1>4, <2>1
  <2>. QED  BY <2>1, <2>2 DEF CacheInv, InOrder
<1>5. total_bytes = Cache!Total(entries, DOMAIN entries)
  BY DEF CacheInv, Cache!Bytes
<1>. QED  BY <1>1, <1>2, <1>3, <1>4, <1>5

(* A store evicts what has not been used for longest, never more than the  *)
(* new content needs, and leaves the cache within its budget, or with      *)
(* nothing but that content.                                               *)
THEOREM EvictionIsLeastRecent == StoresSpec => EvictsLeastRecent
<1>. DEFINE c == storing.content
            stays == DOMAIN entries \cap DOMAIN entries'
            goes == DOMAIN entries \ stays
            Ordered == \A g \in goes : \A k \in stays : g \notin since[k]
            Needed == \A g \in goes :
                         Cache!Total(entries, stays \cup {g}) + Size[c] > max_bytes
            Within == c \in DOMAIN entries' =>
                          \/ total_bytes' <= max_bytes
                          \/ DOMAIN entries' = {c}
<1>1. ASSUME CacheInv, Cache!Next, storing # Cache!NotStoring, open'
      PROVE  Ordered /\ Needed /\ Within
  <2>1. c \in Content /\ c \notin DOMAIN entries /\ Size[c] \in Nat /\ open
    BY <1>1, SizesAreNat DEF CacheInv
  <2>2. DOMAIN entries \subseteq DOMAIN entries' => Ordered /\ Needed
    OBVIOUS
  <2>3. CASE Cache!Evict
    <3>1. PICK h \in DOMAIN entries :
              /\ DOMAIN entries' = DOMAIN entries \ {h}
              /\ \A k \in DOMAIN entries \ {h} : h \notin since[k]
              /\ Cache!Total(entries, DOMAIN entries) + Size[c] > max_bytes
      BY <1>1, <2>3, EvictedFirst
    <3>2. goes = {h} /\ stays = DOMAIN entries \ {h} /\ stays \cup {h} = DOMAIN entries
      BY <3>1
    <3>3. Ordered /\ Needed
      BY <3>1, <3>2
    <3>. QED  BY <2>1, <3>1, <3>3
  <2>4. CASE Cache!WriteFile
    <3>1. /\ entries' = Cache!With(entries, c, Size[c])
          /\ total_bytes' = total_bytes + Size[c]
          /\ \/ ~(total_bytes + Size[c] > max_bytes)
             \/ DOMAIN entries = {}
      BY <2>4 DEF Cache!WriteFile, Cache!MustEvict, Cache!Indexed
    <3>2. DOMAIN entries' = DOMAIN entries \cup {c}
      BY <3>1 DEF Cache!With
    <3>3. total_bytes \in Nat
      BY <1>1, SizesAreNat
    <3>4. Within
      BY <2>1, <3>1, <3>2, <3>3, SizeAssumption
    <3>. QED  BY <2>2, <3>2, <3>4
  <2>5. CASE Cache!StoreFails
    <3>1. entries' = entries
      BY <2>5 DEF Cache!StoreFails, Cache!index
    <3>. QED  BY <2>1, <2>2, <3>1
  <2>6. ~Cache!Kill /\ ~Cache!Open
    BY <1>1, <2>1 DEF Cache!Kill, Cache!Open
  <2>7. ASSUME NEW i, NEW k PROVE /\ ~Cache!StoreCached(i, k)
                                  /\ ~Cache!StoreNew(i, k)
                                  /\ ~Cache!retrieve(k)
    BY <1>1 DEF Cache!StoreCached, Cache!StoreNew, Cache!retrieve, Cache!Ready
  <2>. QED  BY <1>1, <2>3, <2>4, <2>5, <2>6, <2>7 DEF Cache!Next
<1>2. CacheInv /\ [Cache!Next]_(Cache!vars) =>
          [storing # Cache!NotStoring /\ open' =>
               Ordered /\ Needed /\ Within]_(Cache!vars)
  BY <1>1
<1>. QED
  BY <1>2, CacheInvariance, StepOfParts, PTL
     DEF StoresSpec, EvictsLeastRecent, Cache!EvictsLeastRecent, Cache!Indexed

=============================================================================
