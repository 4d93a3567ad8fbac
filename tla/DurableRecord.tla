--------------------------- MODULE DurableRecord ---------------------------
(***************************************************************************)
(* What a scheduler process leaves behind when it crashes: the leases of   *)
(* SqliteLeaseStore (crates/core/src/persistent_lease.rs) and the events   *)
(* of a MultiEventSink (event_log.rs) over SqliteEventLog, MemoryEventLog  *)
(* and the AIVCS ledger (aivcs_ledger.rs), written by execute_task, its    *)
(* heartbeat and the reaper (crates/worker) through LeaseManager.          *)
(*                                                                         *)
(* A SQL statement is one step, and so is a sink's emit.  LeaseManager     *)
(* reads a lease and writes it back in two.  The clock is a number, and a  *)
(* day is DayLength of it: expires_at is kept as RFC 3339 text and         *)
(* compared with datetime('now'), which differs in its eleventh character. *)
(*                                                                         *)
(* Left out: LeaseManager::cancel, and with it the state Cancelled that    *)
(* insert and update can also write.  It is one more client that reads a   *)
(* lease and writes it back, on the path that Failed takes here;           *)
(* WorkerRuntime has it among the steps of cancel_task.                    *)
(***************************************************************************)
EXTENDS Naturals, Sequences

CONSTANTS
    Task,
    Ttl,         \* lease_ttl
    DayLength,
    max_events,  \* of the MemoryEventLog
    MaxTime,     \* bound: the last moment
    MaxCrashes,  \* bound: how often the process dies
    MaxFailures  \* bound: how often a database refuses a statement

ASSUME ClockAssumption ==
    Ttl \in Nat \ {0} /\ DayLength \in Nat \ {0} /\ MaxTime \in Nat

VARIABLES
    rows,       \* table leases: json_data and the columns next to it
    db_events,  \* table task_events: the kinds recorded for each task
    db_logs,    \* table log_lines: the tasks with a line
    events,     \* MemoryEventLog: the last max_events events
    stage,      \* where execute_task and the reaper are with each task
    emitting,   \* the sink their current emission has come to
    beating,    \* the tasks with a heartbeat
    copy,       \* the lease each client has read and is about to write
    listed,     \* the reaper's answer of active_leases
    recovered,  \* what recover_active_leases found at the last start
    up,         \* is the process running?
    now,
    crashes,
    failures,
    refused     \* the events SqliteEventLog refused

vars == <<rows, db_events, db_logs, events, stage, emitting, beating, copy,
          listed, recovered, up, now, crashes, failures, refused>>

(* All of them but Cancelled.                                              *)
LeaseState == {"Active", "Completed", "Failed", "Expired"}
Lease == [state : LeaseState, expires_at : 0..(MaxTime + Ttl)]
NoLease == [state |-> "None", expires_at |-> 0]
NoRow == [json |-> NoLease, state |-> "None", expires_at |-> 0]

(* Who emits, and who holds a copy of a lease across an await.             *)
Emitter == {"executor", "reaper"}
Client == {"executor", "heartbeat", "reaper"}

(* What a process starts with.                                             *)
Idle == [e \in Emitter |-> IF e = "executor" THEN "queued" ELSE "idle"]
FirstSink == [e \in Emitter |-> 1]
NoCopy == [c \in Client |-> NoLease]

Init ==
    /\ rows = [t \in Task |-> NoRow]
    /\ db_events = [t \in Task |-> {}]
    /\ db_logs = {}
    /\ events = <<>>
    /\ stage = [t \in Task |-> Idle]
    /\ emitting = [t \in Task |-> FirstSink]
    /\ beating = {}
    /\ copy = [t \in Task |-> NoCopy]
    /\ listed = {}
    /\ recovered = {}
    /\ up = TRUE
    /\ now = 0
    /\ crashes = 0
    /\ failures = 0
    /\ refused = {}

logs == <<db_events, db_logs, events, refused>>
runtime == <<stage, emitting, beating>>
process == <<up, now, crashes, recovered>>

(* A database refuses a statement.                                         *)
Refuses == failures < MaxFailures /\ failures' = failures + 1

-----------------------------------------------------------------------------
(* SqliteLeaseStore                                                        *)

RowOf(lease) ==
    [json |-> lease, state |-> lease.state, expires_at |-> lease.expires_at]

(* INSERT; a row for the task makes it fail.                               *)
insert(t, lease) ==
    /\ rows[t] = NoRow
    /\ rows' = [rows EXCEPT ![t] = RowOf(lease)]

get(t) == rows[t].json

(* UPDATE ... WHERE task_id: Ok and no effect when there is no such row.   *)
(* The mutants forget a column.                                            *)
UpdatedOldState(row, lease) == [RowOf(lease) EXCEPT !.state = row.state]
UpdatedOldExpiry(row, lease) == [RowOf(lease) EXCEPT !.expires_at = row.expires_at]
Updated(row, lease) == RowOf(lease)

update(t, lease) ==
    rows' = IF rows[t] = NoRow THEN rows
            ELSE [rows EXCEPT ![t] = Updated(rows[t], lease)]

active_leases == {t \in Task : rows[t].state = "Active"}

(* WHERE expires_at > datetime('now'): 'T' sorts after ' ', so on the day  *)
(* the lease expires the text is still the larger one.                     *)
Day(time) == time \div DayLength
recover_active_leases ==
    {t \in Task : rows[t] # NoRow /\ Day(rows[t].expires_at) >= Day(now)}
find_expired_leases ==
    {t \in Task : rows[t] # NoRow /\ Day(rows[t].expires_at) < Day(now)}

is_expired(lease) == now > lease.expires_at

-----------------------------------------------------------------------------
(* Events.  The sinks in the order MultiEventSink calls them.              *)

sinks == <<"sqlite", "memory", "ledger">>

(* What execute_task and the reaper emit at a stage, and where they go on: *)
(* an error after Acquired and Completed is only logged; after WillRetry   *)
(* and Abandoned it is returned, with the lease as it is; and after        *)
(* LeaseExpired it ends reaper_loop.                                       *)
Emits(s) == CASE s = "acquired"   -> "Acquired"
              [] s \in {"complete", "retry", "abandon"} -> "Completed"
              [] s = "retrying"   -> "WillRetry"
              [] s = "abandoning" -> "Abandoned"
              [] s = "expired"    -> "LeaseExpired"

EmitStage == {"acquired", "complete", "retry", "abandon", "retrying",
              "abandoning", "expired"}

AfterEmit(s) == CASE s = "acquired"   -> "running"
                  [] s = "complete"   -> "completing"
                  [] s = "retry"      -> "retrying"
                  [] s = "abandon"    -> "abandoning"
                  [] s = "retrying"   -> "failing"
                  [] s = "abandoning" -> "giving_up"
                  [] s = "expired"    -> "idle"

AfterError(s) == CASE s \in {"retrying", "abandoning"} -> "returned"
                   [] s = "expired" -> "ended"
                   [] OTHER -> AfterEmit(s)

(* MultiEventSink comes to its next sink.                                  *)
GoesOn(t, e) ==
    /\ emitting' = [emitting EXCEPT ![t][e] = @ + 1]
    /\ UNCHANGED <<stage, beating>>

(* The loop is left.  After Acquired the heartbeat starts, and after       *)
(* LeaseExpired the reaper requeues the task.                              *)
Leave(t, e, after) ==
    /\ stage' = [stage EXCEPT ![t] =
                    IF after = "idle" /\ @["executor"] = "returned" THEN Idle
                    ELSE [@ EXCEPT ![e] = after]]
    /\ emitting' = [emitting EXCEPT ![t][e] = 1]
    /\ beating' = IF after = "running" THEN beating \cup {t} ELSE beating

(* An error ends the loop: the sinks that follow do not see the event.     *)
StopsAtError(t, e) == Leave(t, e, AfterError(stage[t][e]))

(* push_back, and pop_front while there are too many.                      *)
Recent(log) ==
    IF Len(log) > max_events
    THEN SubSeq(log, Len(log) - max_events + 1, Len(log)) ELSE log

EmitTo(t, e, sink) ==
    LET kind == Emits(stage[t][e])
    IN  /\ db_events' = IF sink # "sqlite" THEN db_events
                        ELSE [db_events EXCEPT ![t] = @ \cup {kind}]
        /\ events' = IF sink # "memory" THEN events
                     ELSE Recent(Append(events, [task |-> t, kind |-> kind]))
        /\ IF emitting[t][e] = Len(sinks)
           THEN Leave(t, e, AfterEmit(stage[t][e]))
           ELSE GoesOn(t, e)
        /\ UNCHANGED <<refused, failures>>

EmitFails(t, e) ==
    /\ Refuses
    /\ refused' = refused \cup {<<t, Emits(stage[t][e])>>}
    /\ StopsAtError(t, e)
    /\ UNCHANGED <<db_events, events>>

(* The reaper emits once collect_expired has returned, for one lease after *)
(* the other.                                                              *)
Collecting == listed # {} \/ \E t \in Task : copy[t]["reaper"] # NoLease
MayEmit(t, e) ==
    /\ stage[t][e] \in EmitStage
    /\ e = "reaper" => /\ ~Collecting
                       /\ \A u \in Task \ {t} : emitting[u][e] = 1
                       /\ \A u \in Task : stage[u][e] # "ended"

(* MultiEventSink::emit_event, one sink.  Only the database may refuse.    *)
EmitEvent(t, e) ==
    /\ up
    /\ MayEmit(t, e)
    /\ LET sink == sinks[emitting[t][e]]
       IN  EmitTo(t, e, sink) \/ (sink = "sqlite" /\ EmitFails(t, e))
    /\ UNCHANGED <<rows, db_logs, copy, listed, process>>

(* MultiEventSink::emit_log for a line of a running task; the reader that  *)
(* emits it ignores errors.                                                *)
EmitLog(t) ==
    /\ up
    /\ stage[t]["executor"] = "running"
    /\ db_logs' = db_logs \cup {t}
    /\ UNCHANGED <<rows, db_events, events, refused, runtime, copy, listed,
                   process, failures>>

(* SqliteEventLog::get_logs_by_task selects the lines and returns none.    *)
get_logs_by_task(t) == {}

-----------------------------------------------------------------------------
(* execute_task                                                            *)

NewLease == [state |-> "Active", expires_at |-> now + Ttl]

(* A refused insert requeues the task, which changes nothing here.         *)
Acquire(t) ==
    /\ up
    /\ stage[t]["executor"] = "queued"
    /\ insert(t, NewLease)
    /\ stage' = [stage EXCEPT ![t]["executor"] = "acquired"]
    /\ UNCHANGED <<logs, emitting, beating, copy, listed, process, failures>>

(* The process of the task ends, and RetryHandler decides; the report      *)
(* comes first.  The mutant forgets it.                                    *)
Unreported(decision) == AfterEmit(decision)
Reported(decision) == decision

Finish(t, decision) ==
    /\ up
    /\ stage[t]["executor"] = "running"
    /\ stage' = [stage EXCEPT ![t]["executor"] = Reported(decision)]
    /\ UNCHANGED <<rows, logs, emitting, beating, copy, listed, process,
                   failures>>

(* Where execute_task is once it has written the lease: a retry requeues.  *)
Settled(s) == IF s = "failing" THEN "queued" ELSE "returned"

(* LeaseManager::complete, fail, renew and collect_expired: get, ...       *)
Wants(t, c) ==
    /\ up
    /\ copy[t][c] = NoLease
    /\ CASE c = "executor"  -> stage[t][c] \in {"completing", "failing", "giving_up"}
         [] c = "heartbeat" -> t \in beating
         [] c = "reaper"    -> t \in listed

Kept(t, c) ==
    /\ get(t) # NoLease
    /\ c = "reaper" => get(t).state = "Active" /\ is_expired(get(t))

Read(t, c) ==
    /\ Wants(t, c)
    /\ Kept(t, c)
    /\ copy' = [copy EXCEPT ![t][c] = get(t)]
    /\ listed' = IF c = "reaper" THEN listed \ {t} ELSE listed
    /\ UNCHANGED <<rows, logs, runtime, process, failures>>

(* ... there is none (the heartbeat ends, complete and fail return an      *)
(* error), or the reaper finds it renewed ...                              *)
ReadNothing(t, c) ==
    /\ Wants(t, c)
    /\ ~Kept(t, c)
    /\ listed' = IF c = "reaper" THEN listed \ {t} ELSE listed
    /\ beating' = IF c = "heartbeat" THEN beating \ {t} ELSE beating
    /\ stage' = IF c = "executor" THEN [stage EXCEPT ![t][c] = "returned"]
                ELSE stage
    /\ UNCHANGED <<rows, logs, emitting, copy, process, failures>>

(* ... and update with what was read, changed.                             *)
Changed(t, c) ==
    LET lease == copy[t][c]
    IN  CASE c = "heartbeat" -> [lease EXCEPT !.expires_at = now + Ttl]
          [] c = "reaper"    -> [lease EXCEPT !.state = "Expired"]
          [] c = "executor"  -> [lease EXCEPT !.state =
                                    IF stage[t][c] = "completing"
                                    THEN "Completed" ELSE "Failed"]

Write(t, c) ==
    /\ up
    /\ copy[t][c] # NoLease
    /\ update(t, Changed(t, c))
    /\ copy' = [copy EXCEPT ![t][c] = NoLease]
    /\ stage' = CASE c = "executor"  -> [stage EXCEPT ![t][c] = Settled(@)]
                  [] c = "heartbeat" -> stage
                  [] c = "reaper"    -> [stage EXCEPT ![t][c] = "expired"]
    /\ UNCHANGED <<logs, emitting, beating, listed, process, failures>>

(* The update is refused: collect_expired returns the error, and with it   *)
(* nothing of what it has already marked.                                  *)
WriteFails(t, c) ==
    /\ up
    /\ copy[t][c] # NoLease
    /\ Refuses
    /\ copy' = [copy EXCEPT ![t][c] = NoLease]
    /\ listed' = IF c = "reaper" THEN {} ELSE listed
    /\ stage' = CASE c = "executor"  -> [stage EXCEPT ![t][c] = "returned"]
                  [] c = "heartbeat" -> stage
                  [] c = "reaper"    -> [u \in Task |-> [stage[u] EXCEPT ![c] = "idle"]]
    /\ UNCHANGED <<rows, logs, emitting, beating, process>>

(* collect_expired: store.active_leases().                                 *)
ListActive ==
    /\ up
    /\ ~Collecting
    /\ \A t \in Task : stage[t]["reaper"] = "idle"
    /\ active_leases # {}
    /\ listed' = active_leases
    /\ UNCHANGED <<rows, logs, runtime, copy, process, failures>>

(* LeaseManager::remove, by whoever owns the store.                        *)
RemoveLease(t) ==
    /\ up
    /\ rows[t] # NoRow
    /\ rows' = [rows EXCEPT ![t] = NoRow]
    /\ UNCHANGED <<logs, runtime, copy, listed, process, failures>>

-----------------------------------------------------------------------------
Tick ==
    /\ now < MaxTime
    /\ now' = now + 1
    /\ UNCHANGED <<rows, logs, runtime, copy, listed, up, crashes, recovered,
                   failures>>

(* The process dies: what is left is in the two databases.                 *)
Crash ==
    /\ up
    /\ crashes < MaxCrashes
    /\ crashes' = crashes + 1
    /\ up' = FALSE
    /\ events' = <<>>
    /\ stage' = [t \in Task |-> Idle]
    /\ emitting' = [t \in Task |-> FirstSink]
    /\ beating' = {}
    /\ copy' = [t \in Task |-> NoCopy]
    /\ listed' = {}
    /\ recovered' = {}
    /\ UNCHANGED <<rows, db_events, db_logs, now, failures, refused>>

(* SqliteLeaseStore::new and SqliteEventLog::new find their tables, and    *)
(* recover_active_leases is called.                                        *)
Restart ==
    /\ ~up
    /\ up' = TRUE
    /\ recovered' = recover_active_leases
    /\ UNCHANGED <<rows, logs, runtime, copy, listed, now, crashes, failures>>

Execute(t) ==
    \/ Acquire(t)
    \/ \E e \in Emitter : EmitEvent(t, e)
    \/ EmitLog(t)
    \/ \E decision \in {"complete", "retry", "abandon"} : Finish(t, decision)

Manage(t) ==
    \E c \in Client : Read(t, c) \/ ReadNothing(t, c) \/ Write(t, c)
                      \/ WriteFails(t, c)

Next ==
    \/ \E t \in Task : Execute(t) \/ Manage(t) \/ RemoveLease(t)
    \/ ListActive
    \/ Tick
    \/ Crash
    \/ Restart

Spec == Init /\ [][Next]_vars

-----------------------------------------------------------------------------
(* Properties.                                                             *)

(* SqliteLeaseStore is a lease store: json_data is the map, the state      *)
(* column always lists exactly the Active leases of it, and a crash        *)
(* changes neither, however copies are written back late.                  *)
Store == INSTANCE LeaseStoreContract
             WITH leases <- [t \in Task |-> rows[t].json], listed <- listed

IsLeaseStore == Store!Spec

(* "Saves lease state to disk so tasks can be recovered after scheduler    *)
(* crashes": a lease that is Active and not yet expired at a restart is    *)
(* recovered, also when the last heartbeat moved its expiry past midnight. *)
LiveLeaseIsRecovered ==
    [][~up /\ up' =>
          {t \in Task : get(t).state = "Active" /\ ~is_expired(get(t))}
              \subseteq recovered']_vars

(* A lease is Completed on disk only when its Completed event is: a crash  *)
(* between the two leaves the event, never the lease alone, unless the     *)
(* event log refused that event.                                           *)
CompletedIsLogged ==
    \A t \in Task :
        get(t).state = "Completed" =>
            "Completed" \in db_events[t] \/ <<t, "Completed">> \in refused

-----------------------------------------------------------------------------
(* What comments say and the code does not do; README.md, section 5.       *)

(* persistent_lease.rs: "Find expired leases for cleanup."                 *)
ExpiredAreFound ==
    \A t \in Task : get(t).state = "Active" /\ is_expired(get(t)) =>
        t \in find_expired_leases

(* persistent_lease.rs: "Load all active leases from the store".           *)
RecoveredAreActive == \A t \in recovered : get(t).state = "Active"

(* event_log.rs: "Get logs for a specific task."                           *)
LogsAreReturned == \A t \in db_logs : get_logs_by_task(t) # {}

=============================================================================
