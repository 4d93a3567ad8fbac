---------------------------- MODULE Coordinator ----------------------------
(***************************************************************************)
(* The coordinator (crates/coordinator) and the connections of its worker  *)
(* nodes (crates/node): node registry, cache index, connection handlers,   *)
(* node reaper and health monitor on one side, NodeConnection with its     *)
(* request, heartbeat and reconnect loops on the other.                    *)
(*                                                                         *)
(* A NodeConnection sends one request at a time and holds its mutex until  *)
(* the reply is there.  Handlers, reaper and monitor are tasks of their    *)
(* own that meet in the registry and the index; removing a node from the   *)
(* registry and evicting its cache entries are separate steps, and so are  *)
(* the two halves of AnnounceCache and of record_probe_failure.            *)
(*                                                                         *)
(* Data kept abstract: node details and paths are left out, an index entry *)
(* is a key and a node.  The requests whose handlers change nothing and    *)
(* whose answers nothing here depends on (ActiveLeases, QueryCache, and    *)
(* EmitEvent and EmitLog, which the coordinator drops) are one kind, Read. *)
(* Of a node's runtime there is the order in which it asks; its heartbeats *)
(* and reaper and what happens between the calls are in WorkerRuntime.     *)
(***************************************************************************)
EXTENDS Integers, Sequences, FiniteSets, Lease, StubScheduler

CONSTANTS
    Node,          \* worker nodes
    Task,
    NoTask,
    Key,           \* cache keys
    Requests,      \* the kinds of requests the nodes make
    ClientSees,    \* what a node sees of a connection the other side lost
    ServerSees,    \* what a handler sees of one: "eof", "err" or "silent"
    Faults,        \* what may go wrong: "break", "garble", "restart"
    Loops,         \* the background tasks of serve() the instance runs
    Stalls,        \* TRUE: a connected node's heartbeats may be late
    MaxFaults      \* bound: how many faults there are

ASSUME EndAssumption ==
    /\ ClientSees \subseteq {"eof", "err", "silent"} /\ ClientSees # {}
    /\ ServerSees \subseteq {"eof", "err", "silent"} /\ ServerSees # {}
ASSUME NodeAssumption == IsFiniteSet(Node) /\ "none" \notin Node
ASSUME TaskAssumption == IsFiniteSet(Task) /\ NoTask \notin Task
ASSUME BoundAssumption ==
    /\ Faults \subseteq {"break", "garble", "restart"}
    /\ Loops \subseteq {"reaper", "monitor"}
    /\ Stalls \in BOOLEAN
    /\ MaxFaults \in Nat

VARIABLES
    nodes,           \* NodeRegistry: the nodes with a NodeInfo
    last_seen,       \* whether a node's last heartbeat is within the timeout
    probe_failures,  \* consecutive failures, NoEntry when absent
    entries,         \* CacheIndex: pairs of key and node
    queue,           \* StubScheduler
    leases,          \* InMemoryLeaseStore
    submitted,       \* the tasks clients have enqueued
    faults,          \* how much has gone wrong so far
    handler,         \* handle_connection of each connection
    wire,            \* each connection: what is under way, what the ends see
    client,          \* the request each node has under way
    link,            \* NodeConnection::inner: a connection, or 0 for None
    holding,         \* the task each node has, and how far it is with it
    reaper,          \* node_reaper_loop
    monitor          \* SshHealthMonitor::run

registry == <<nodes, last_seen, probe_failures>>
store == <<queue, leases, submitted, faults>>
network == <<handler, wire>>
nodeVars == <<client, link, holding>>
vars == <<nodes, last_seen, probe_failures, entries, queue, leases, submitted,
          faults, handler, wire, client, link, holding, reaper, monitor>>

(* A fault costs a node at most one connection.                            *)
Conn == 1..(MaxFaults + 1)

UNHEALTHY_THRESHOLD == 3
NoEntry == -1

None == [kind |-> "None", arg |-> NoTask]
Msg(kind, arg) == [kind |-> kind, arg |-> arg]

Unused == [pc |-> "unused", registered |-> FALSE, job |-> None]
Quiet == [request |-> None, reply |-> None, server |-> "ok", client |-> "ok"]
NotHolding == [task |-> NoTask, step |-> "none", lease |-> NoLease]
Resting == [pc |-> "unhealthy", todo |-> {}, step |-> "next", evicting |-> "none",
            found |-> {}]
Watching == [todo |-> {}, failed |-> "none", read |-> NoEntry]

Alive(n) == client[n].pc \notin {"off", "dead"}

(* The node holds a connection that works and whose handler serves it.     *)
Connected(n) ==
    /\ Alive(n)
    /\ link[n] # 0
    /\ wire[n][link[n]].client = "ok"

Init ==
    /\ nodes = {}
    /\ last_seen = [n \in Node |-> "absent"]
    /\ probe_failures = [n \in Node |-> NoEntry]
    /\ entries = {}
    /\ queue = <<>>
    /\ leases = [t \in Task |-> NoLease]
    /\ submitted = {}
    /\ faults = 0
    /\ handler = [n \in Node |-> [k \in Conn |-> Unused]]
    /\ wire = [n \in Node |-> [k \in Conn |-> Quiet]]
    /\ client = [n \in Node |-> [pc |-> "off", req |-> None]]
    /\ link = [n \in Node |-> 0]
    /\ holding = [n \in Node |-> NotHolding]
    /\ reaper = Resting
    /\ monitor = Watching

-----------------------------------------------------------------------------
(* NodeRegistry and CacheIndex.                                            *)

Register(n) ==
    /\ nodes' = nodes \cup {n}
    /\ last_seen' = [last_seen EXCEPT ![n] = "fresh"]
    /\ probe_failures' = [probe_failures EXCEPT ![n] = 0]

Forget(n) ==
    /\ last_seen' = [last_seen EXCEPT ![n] = "absent"]
    /\ probe_failures' = [probe_failures EXCEPT ![n] = NoEntry]

Remove(n) == nodes' = nodes \ {n} /\ Forget(n)

EntriesOf(n) == {e \in entries : e[2] = n}

EvictNode(n) == entries' = entries \ EntriesOf(n)

StaleNodes == {n \in Node : last_seen[n] = "stale"}

UnhealthyNodes == {n \in Node : probe_failures[n] >= UNHEALTHY_THRESHOLD}

-----------------------------------------------------------------------------
(* The node: NodeConnection.                                               *)

(* A new stream, on which RegisterNode is the first request.               *)
Opens(n, k) ==
    /\ handler[n][k].pc = "unused"
    /\ \A j \in 1..(k - 1) : handler[n][j].pc # "unused"
    /\ handler' = [handler EXCEPT ![n][k].pc = "receive"]
    /\ wire' = [wire EXCEPT ![n][k].request = Msg("RegisterNode", k)]
    /\ client' = [client EXCEPT ![n] = [pc |-> "waiting",
                                        req |-> Msg("RegisterNode", k)]]
    /\ UNCHANGED <<registry, entries, store, link, holding, reaper, monitor>>

(* WorkerNode::connect.                                                    *)
Join(n) == client[n].pc = "off" /\ Opens(n, 1)

(* One round of start_reconnect_loop while inner is None.                  *)
Connect(n, k) == client[n].pc = "idle" /\ link[n] = 0 /\ Opens(n, k)

(* What the queue of a node's runtime asks for.                            *)
QueueRequests(n) ==
    LET h == holding[n]
    IN  CASE h.step = "none"      -> {Msg("Dequeue", NoTask)}
          [] h.step = "requeue"   -> {Msg("Requeue", h.task)}
          [] h.step = "cancelled" -> {Msg("Discard", h.task)}
          [] OTHER                -> {}

(* What its lease store asks for: the lease of a task it was handed, and   *)
(* then the copies LeaseManager reads and writes back, renewed or ended.   *)
Endings == {"Completed", "Failed", "Cancelled"}
LeaseRequests(n) ==
    LET h == holding[n]
    IN  CASE h.step = "handed" -> {Msg("InsertLease", h.task)}
          [] h.step = "leased" -> {Msg("GetLease", h.task), Msg("RemoveLease", h.task)}
          [] h.step = "read"   -> {Msg("UpdateLease", [task |-> h.task, lease |-> l]) :
                                      l \in {Renewed(h.lease)}
                                            \cup {WithState(h.lease, e) : e \in Endings}}
          [] OTHER             -> {}

(* What its cache client asks for.                                         *)
CacheRequests == {Msg("AnnounceCache", key) : key \in Key}

(* What its event sink asks for; errors are ignored.                       *)
SinkRequests == {Msg("Read", NoTask)}

(* build_runtime: they share the connection with the heartbeat loop.       *)
Wanted(n) ==
    {r \in {Msg("NodeHeartbeat", NoTask)} \cup QueueRequests(n)
           \cup LeaseRequests(n) \cup CacheRequests \cup SinkRequests :
        r.kind \in Requests}

(* Bytes sent on a connection that is lost go nowhere.                     *)
Sends(n, req) ==
    /\ client' = [client EXCEPT ![n] = [pc |-> "waiting", req |-> req]]
    /\ wire' = IF wire[n][link[n]].client = "ok"
               THEN [wire EXCEPT ![n][link[n]].request = req]
               ELSE wire
    /\ UNCHANGED <<registry, entries, store, handler, link, holding, reaper,
                   monitor>>

(* request: lock, send.  The mutant does not hold the lock for the reply.  *)
SendUnlocked(n, req) ==
    /\ Alive(n) /\ link[n] # 0
    /\ req \in Wanted(n)
    /\ Sends(n, req)

Send(n, req) ==
    /\ client[n].pc = "idle" /\ link[n] # 0
    /\ req \in Wanted(n)
    /\ Sends(n, req)

(* The connection the current request went over.                           *)
Over(n) == IF client[n].req.kind = "RegisterNode" THEN client[n].req.arg
                                                  ELSE link[n]

(* How the runtime goes on after an answer: a task it cannot lease is      *)
(* requeued; a lease that is gone ends the execution; a failed task may be *)
(* retried.                                                                *)
With(h, step) == [h EXCEPT !.step = step, !.lease = NoLease]

AfterUpdate(h, written) ==
    CASE written = "Active"    -> {With(h, "leased")}
      [] written = "Completed" -> {NotHolding}
      [] written = "Failed"    -> {NotHolding, With(h, "requeue")}
      [] written = "Cancelled" -> {With(h, "cancelled")}

Ahead(h, req, reply) ==
    CASE reply.kind = "Dequeue" ->
            {IF reply.arg = NoTask THEN NotHolding
             ELSE [NotHolding EXCEPT !.task = reply.arg, !.step = "handed"]}
      [] reply.kind = "InsertLease" ->
            {With(h, IF reply.arg = NoTask THEN "requeue" ELSE "leased")}
      [] reply.kind = "GetLease" ->
            {IF Leased(reply.arg) THEN [h EXCEPT !.step = "read", !.lease = reply.arg]
             ELSE NotHolding}
      [] reply.kind = "UpdateLease" ->
            IF reply.arg = NoTask THEN {NotHolding}
            ELSE AfterUpdate(h, req.arg.lease.state)
      [] reply.kind \in {"Requeue", "Discard"} -> {NotHolding}
      [] OTHER -> {h}

(* request: the reply.                                                     *)
Receive(n) ==
    LET k == Over(n)
        reply == wire[n][k].reply
    IN  /\ client[n].pc = "waiting"
        /\ reply # None
        /\ client' = [client EXCEPT ![n] = [pc |-> "idle", req |-> None]]
        /\ wire' = [wire EXCEPT ![n][k].reply = None]
        /\ link' = [link EXCEPT ![n] =
                       IF reply.kind = "RegisterNode" THEN k ELSE @]
        /\ \E h \in Ahead(holding[n], client[n].req, reply) :
              holding' = [holding EXCEPT ![n] = h]
        /\ UNCHANGED <<registry, entries, store, handler, reaper, monitor>>

(* request: the connection ended.  Only a clean end clears inner, so that  *)
(* the reconnect loop acts; the first connect ends the program.  A silent  *)
(* loss never returns: request has no timeout.  An error about its task    *)
(* ends the runtime's work on it (the requeue of a task it could not lease *)
(* fails on this connection too).  The mutant does not clear inner.        *)
OfTask == {"InsertLease", "GetLease", "UpdateLease", "RemoveLease", "Requeue", "Discard"}
EndsWith(n, end, inner) ==
    LET first == client[n].req.kind = "RegisterNode" /\ client[n].req.arg = 1
    IN  /\ client[n].pc = "waiting"
        /\ wire[n][Over(n)].reply = None
        /\ end \in {"eof", "err"}
        /\ client' = [client EXCEPT ![n] = [pc |-> IF first THEN "dead"
                                                            ELSE "idle",
                                            req |-> None]]
        /\ link' = [link EXCEPT ![n] = inner]
        /\ holding' = [holding EXCEPT ![n] =
                          IF client[n].req.kind \in OfTask THEN NotHolding ELSE @]
        /\ UNCHANGED <<registry, entries, store, network, reaper, monitor>>

ReceiveEndKeepsInner(n) == EndsWith(n, wire[n][Over(n)].client, link[n])

ReceiveEnd(n) ==
    LET end == wire[n][Over(n)].client
    IN  EndsWith(n, end, IF end = "eof" THEN 0 ELSE link[n])

(* request: inner is None, an error at once.                               *)
NotConnected(n) ==
    /\ client[n].pc = "idle" /\ link[n] = 0
    /\ \E req \in Wanted(n) : req.kind \in OfTask
    /\ holding' = [holding EXCEPT ![n] = NotHolding]
    /\ UNCHANGED <<registry, entries, store, network, client, link, reaper,
                   monitor>>

(* A node's machine stops; its handlers may or may not be told.            *)
Crash(n) ==
    /\ Alive(n)
    /\ \E end \in ServerSees :
           wire' = [wire EXCEPT ![n] =
                       [k \in Conn |-> [wire[n][k] EXCEPT !.server = end]]]
    /\ client' = [client EXCEPT ![n] = [pc |-> "dead", req |-> None]]
    /\ link' = [link EXCEPT ![n] = 0]
    /\ holding' = [holding EXCEPT ![n] = NotHolding]
    /\ UNCHANGED <<registry, entries, store, handler, reaper, monitor>>

Fault(kind) ==
    /\ kind \in Faults
    /\ faults < MaxFaults
    /\ faults' = faults + 1

(* The network breaks a connection and loses what was under way.  The node *)
(* sees no clean end unless the coordinator closes the stream.             *)
Break(n, k) ==
    /\ Fault("break")
    /\ handler[n][k].pc \notin {"unused", "ended"}
    /\ wire[n][k].server = "ok"
    /\ \E s \in ServerSees \ {"eof"}, c \in ClientSees \ {"eof"} :
           wire' = [wire EXCEPT ![n][k] = [request |-> None, reply |-> None,
                                           server |-> s, client |-> c]]
    /\ UNCHANGED <<registry, entries, queue, leases, submitted, handler,
                   nodeVars, reaper, monitor>>

(* A request serde cannot decode (a node of another version): recv_message *)
(* returns an error though the stream is fine.                             *)
Garble(n, k) ==
    /\ Fault("garble")
    /\ wire[n][k].request # None
    /\ wire' = [wire EXCEPT ![n][k].request = None, ![n][k].server = "err"]
    /\ UNCHANGED <<registry, entries, queue, leases, submitted, handler,
                   nodeVars, reaper, monitor>>

-----------------------------------------------------------------------------
(* The coordinator: handle_connection and handle_request.                  *)

(* A handler ends and drops its stream.                                    *)
Ended(n, k) ==
    /\ handler' = [handler EXCEPT ![n][k].pc = "ended"]
    /\ IF wire[n][k].client = "ok"
       THEN \E end \in ClientSees :
                wire' = [wire EXCEPT ![n][k].client = end,
                                     ![n][k].request = None]
       ELSE UNCHANGED wire

(* The request arrives, and the handler is about to reply to it.           *)
Takes(n, k, kind) ==
    /\ handler[n][k].pc = "receive"
    /\ wire[n][k].request.kind = kind
    /\ wire' = [wire EXCEPT ![n][k].request = None]

Replies(n, k, msg) ==
    handler' = [handler EXCEPT ![n][k].pc = "reply", ![n][k].job = msg]

HandleRegister(n, k) ==
    /\ Takes(n, k, "RegisterNode")
    /\ Register(n)
    /\ handler' = [handler EXCEPT ![n][k] =
                      [pc |-> "reply", registered |-> TRUE,
                       job |-> Msg("RegisterNode", k)]]
    /\ UNCHANGED <<entries, store, nodeVars, reaper, monitor>>

(* A heartbeat only touches last_seen: it does not register the node.      *)
HandleHeartbeat(n, k) ==
    /\ Takes(n, k, "NodeHeartbeat")
    /\ last_seen' = [last_seen EXCEPT ![n] = "fresh"]
    /\ Replies(n, k, Msg("NodeHeartbeat", NoTask))
    /\ UNCHANGED <<nodes, probe_failures, entries, store, nodeVars, reaper,
                   monitor>>

HandleDequeue(n, k) ==
    /\ Takes(n, k, "Dequeue")
    /\ IF queue = <<>>
       THEN /\ Replies(n, k, Msg("Dequeue", NoTask))
            /\ UNCHANGED queue
       ELSE /\ Replies(n, k, Msg("Dequeue", Head(queue).task_id))
            /\ queue' = StubPop(queue)
    /\ UNCHANGED <<registry, entries, leases, submitted, faults, nodeVars,
                   reaper, monitor>>

(* A task with a lease is refused; the race of two insertions is in        *)
(* WorkerRuntime.                                                          *)
HandleInsertLease(n, k) ==
    LET t == wire[n][k].request.arg
        free == ~Leased(leases[t])
    IN  /\ Takes(n, k, "InsertLease")
        /\ leases' = IF free THEN [leases EXCEPT ![t] = NewLease(n, 0)] ELSE leases
        /\ Replies(n, k, Msg("InsertLease", IF free THEN t ELSE NoTask))
        /\ UNCHANGED <<registry, entries, queue, submitted, faults, nodeVars,
                       reaper, monitor>>

HandleGetLease(n, k) ==
    /\ Takes(n, k, "GetLease")
    /\ Replies(n, k, Msg("GetLease", leases[wire[n][k].request.arg]))
    /\ UNCHANGED <<registry, entries, store, nodeVars, reaper, monitor>>

(* LeaseNotFound when there is none.                                       *)
HandleUpdateLease(n, k) ==
    LET new == wire[n][k].request.arg
        found == Leased(leases[new.task])
    IN  /\ Takes(n, k, "UpdateLease")
        /\ leases' = IF found THEN [leases EXCEPT ![new.task] = new.lease] ELSE leases
        /\ Replies(n, k, Msg("UpdateLease", IF found THEN new.task ELSE NoTask))
        /\ UNCHANGED <<registry, entries, queue, submitted, faults, nodeVars,
                       reaper, monitor>>

HandleRemoveLease(n, k) ==
    LET t == wire[n][k].request.arg
    IN  /\ Takes(n, k, "RemoveLease")
        /\ leases' = [leases EXCEPT ![t] = NoLease]
        /\ Replies(n, k, Msg("RemoveLease", t))
        /\ UNCHANGED <<registry, entries, queue, submitted, faults, nodeVars,
                       reaper, monitor>>

(* Requeue and Discard, on the queue the coordinator deploys.              *)
HandleRequeue(n, k) ==
    LET t == wire[n][k].request.arg
    IN  /\ Takes(n, k, "Requeue")
        /\ queue' = StubRequeue(queue, t, 1)
        /\ Replies(n, k, Msg("Requeue", t))
        /\ UNCHANGED <<registry, entries, leases, submitted, faults, nodeVars,
                       reaper, monitor>>

HandleDiscard(n, k) ==
    LET t == wire[n][k].request.arg
    IN  /\ Takes(n, k, "Discard")
        /\ queue' = StubDiscard(queue, t)
        /\ Replies(n, k, Msg("Discard", t))
        /\ UNCHANGED <<registry, entries, leases, submitted, faults, nodeVars,
                       reaper, monitor>>

HandleRead(n, k) ==
    /\ Takes(n, k, "Read")
    /\ Replies(n, k, Msg("Read", NoTask))
    /\ UNCHANGED <<registry, entries, store, nodeVars, reaper, monitor>>

(* AnnounceCache: get_node_info, and then the announcement.                *)
HandleAnnounce(n, k) ==
    /\ Takes(n, k, "AnnounceCache")
    /\ IF handler[n][k].registered /\ n \in nodes
       THEN handler' = [handler EXCEPT ![n][k].pc = "announce",
                                       ![n][k].job = wire[n][k].request]
       ELSE Replies(n, k, wire[n][k].request)
    /\ UNCHANGED <<registry, entries, store, nodeVars, reaper, monitor>>

Announce(n, k) ==
    /\ handler[n][k].pc = "announce"
    /\ entries' = entries \cup {<<handler[n][k].job.arg, n>>}
    /\ handler' = [handler EXCEPT ![n][k].pc = "reply"]
    /\ UNCHANGED <<registry, store, wire, nodeVars, reaper, monitor>>

(* send_message: the reply leaves (and is lost if nobody reads it).        *)
SendReply(n, k) ==
    /\ handler[n][k].pc = "reply"
    /\ wire' = IF wire[n][k].client = "ok" /\ Alive(n)
               THEN [wire EXCEPT ![n][k].reply = handler[n][k].job]
               ELSE wire
    /\ handler' = [handler EXCEPT ![n][k].pc = "receive", ![n][k].job = None]
    /\ UNCHANGED <<registry, entries, store, nodeVars, reaper, monitor>>

(* send_message fails: the question mark leaves handle_connection without  *)
(* deregistering the node.                                                 *)
SendFails(n, k) ==
    /\ handler[n][k].pc = "reply"
    /\ wire[n][k].server \in {"eof", "err"}
    /\ Ended(n, k)
    /\ UNCHANGED <<registry, entries, store, nodeVars, reaper, monitor>>

(* recv_message returns None or an error: deregister, evict, and only then *)
(* drop the stream.  The mutant drops the stream first.                    *)
HandleEndLate(n, k) ==
    /\ \/ /\ handler[n][k].pc = "receive"
          /\ wire[n][k].server \in {"eof", "err"}
          /\ Ended(n, k)
          /\ UNCHANGED registry
       \/ /\ handler[n][k].pc = "ended"
          /\ handler[n][k].registered
          /\ Remove(n)
          /\ handler' = [handler EXCEPT ![n][k].registered = FALSE]
          /\ UNCHANGED wire
    /\ UNCHANGED <<entries, store, nodeVars, reaper, monitor>>

HandleEnd(n, k) ==
    /\ handler[n][k].pc = "receive"
    /\ \/ wire[n][k].server = "eof" /\ wire[n][k].request = None
       \/ wire[n][k].server = "err"
    /\ IF handler[n][k].registered
       THEN /\ Remove(n)
            /\ handler' = [handler EXCEPT ![n][k].pc = "evict"]
            /\ UNCHANGED wire
       ELSE Ended(n, k) /\ UNCHANGED registry
    /\ UNCHANGED <<entries, store, nodeVars, reaper, monitor>>

HandleEvict(n, k) ==
    /\ handler[n][k].pc = "evict"
    /\ EvictNode(n)
    /\ Ended(n, k)
    /\ UNCHANGED <<registry, store, nodeVars, reaper, monitor>>

(* CoordinatorState::enqueue_task.                                         *)
Submit(t) ==
    /\ t \notin submitted
    /\ submitted' = submitted \cup {t}
    /\ queue' = StubEnqueue(queue, t)
    /\ UNCHANGED <<registry, entries, leases, faults, network, nodeVars,
                   reaper, monitor>>

(* The coordinator's process ends and is started again, empty.             *)
Restart ==
    /\ Fault("restart")
    /\ nodes' = {}
    /\ last_seen' = [n \in Node |-> "absent"]
    /\ probe_failures' = [n \in Node |-> NoEntry]
    /\ entries' = {}
    /\ queue' = <<>>
    /\ leases' = [t \in Task |-> NoLease]
    /\ handler' = [n \in Node |-> [k \in Conn |->
                      IF handler[n][k].pc = "unused" THEN Unused
                      ELSE [Unused EXCEPT !.pc = "ended"]]]
    /\ \E end \in ClientSees :
           wire' = [n \in Node |-> [k \in Conn |->
                      [wire[n][k] EXCEPT
                          !.request = None,
                          !.client = IF @ = "ok" /\ handler[n][k].pc # "unused"
                                     THEN end ELSE @]]]
    /\ reaper' = Resting /\ monitor' = Watching
    /\ UNCHANGED <<submitted, nodeVars>>

-----------------------------------------------------------------------------
(* The node reaper: first the stale nodes, then the unhealthy ones.        *)

ReaperScan ==
    /\ reaper.todo = {}
    /\ reaper' = IF reaper.pc = "stale"
                 THEN [Resting EXCEPT !.todo = UnhealthyNodes]
                 ELSE [Resting EXCEPT !.pc = "stale", !.todo = StaleNodes]
    /\ UNCHANGED <<registry, entries, store, network, nodeVars, monitor>>

(* active_leases, as far as the loop looks at them: those of the node.     *)
ReaperLeases(n) ==
    /\ n \in reaper.todo /\ reaper.step = "next"
    /\ reaper' = [reaper EXCEPT
                     !.step = "requeue", !.evicting = n,
                     !.found = {Entry(t, leases[t].attempt + 1) :
                                   t \in {u \in Task : /\ IsActive(leases[u])
                                                      /\ leases[u].worker_id = n}}]
    /\ UNCHANGED <<registry, entries, store, network, nodeVars, monitor>>

(* Queue::requeue of each of them, though the lease may have ended since.  *)
ReaperRequeue(e) ==
    /\ reaper.step = "requeue"
    /\ queue' = StubRequeue(queue, e.task_id, e.attempt)
    /\ reaper' = [reaper EXCEPT !.found = @ \ {e}]
    /\ UNCHANGED <<registry, entries, leases, submitted, faults, network,
                   nodeVars, monitor>>

(* The mutant leaves the NodeInfo behind.                                  *)
ReaperKeeps(n) ==
    /\ reaper.evicting = n /\ reaper.step = "requeue" /\ reaper.found = {}
    /\ reaper' = [reaper EXCEPT !.step = "forget"]
    /\ UNCHANGED <<registry, entries, store, network, nodeVars, monitor>>

ReaperRemove(n) ==
    /\ reaper.evicting = n /\ reaper.step = "requeue" /\ reaper.found = {}
    /\ nodes' = nodes \ {n}
    /\ reaper' = [reaper EXCEPT !.step = "forget"]
    /\ UNCHANGED <<last_seen, probe_failures, entries, store, network,
                   nodeVars, monitor>>

ReaperForget(n) ==
    /\ reaper.evicting = n /\ reaper.step = "forget"
    /\ Forget(n)
    /\ reaper' = [reaper EXCEPT !.step = "evict"]
    /\ UNCHANGED <<nodes, entries, store, network, nodeVars, monitor>>

ReaperEvict(n) ==
    /\ reaper.evicting = n /\ reaper.step = "evict"
    /\ EvictNode(n)
    /\ reaper' = [reaper EXCEPT !.todo = @ \ {n}, !.step = "next",
                                !.evicting = "none"]
    /\ UNCHANGED <<registry, store, network, nodeVars, monitor>>

(* The health monitor: probe_all over a snapshot of the registry.          *)
ProbeAll ==
    /\ monitor.todo = {}
    /\ monitor' = [monitor EXCEPT !.todo = nodes]
    /\ UNCHANGED <<registry, entries, store, network, nodeVars, reaper>>

(* TcpProbe connects to the port the coordinator itself listens on, at the *)
(* node's host name.  A node opens no listener, so the probe of a live     *)
(* node fails unless something else listens there, as it does when node    *)
(* and coordinator share a host; a machine that has stopped never answers. *)
ProbeSuccess(n) ==
    /\ n \in monitor.todo /\ monitor.failed = "none"
    /\ Alive(n)
    /\ probe_failures' = [probe_failures EXCEPT ![n] = 0]
    /\ monitor' = [monitor EXCEPT !.todo = @ \ {n}]
    /\ UNCHANGED <<nodes, last_seen, entries, store, network, nodeVars, reaper>>

(* record_probe_failure: the get, with a default for a node that was       *)
(* removed since the snapshot, then the insert of one more; counts past    *)
(* the threshold are all alike.                                            *)
ProbeFailure(n) ==
    /\ n \in monitor.todo /\ monitor.failed = "none"
    /\ monitor' = [monitor EXCEPT
                      !.failed = n,
                      !.read = IF probe_failures[n] = NoEntry THEN 0
                                                              ELSE probe_failures[n]]
    /\ UNCHANGED <<registry, entries, store, network, nodeVars, reaper>>

CountFailure(n) ==
    /\ monitor.failed = n
    /\ probe_failures' = [probe_failures EXCEPT ![n] =
                             IF monitor.read < UNHEALTHY_THRESHOLD
                             THEN monitor.read + 1 ELSE UNHEALTHY_THRESHOLD]
    /\ monitor' = [Watching EXCEPT !.todo = monitor.todo \ {n}]
    /\ UNCHANGED <<nodes, last_seen, entries, store, network, nodeVars, reaper>>

(* A minute passes without a heartbeat.  Unless Stalls, only a node that   *)
(* has stopped or has no working connection stays away that long.          *)
Late(n) ==
    /\ last_seen[n] = "fresh"
    /\ Stalls \/ ~Connected(n)
    /\ last_seen' = [last_seen EXCEPT ![n] = "stale"]
    /\ UNCHANGED <<nodes, probe_failures, entries, store, network, nodeVars,
                   reaper, monitor>>

-----------------------------------------------------------------------------
Client(n) ==
    \/ Join(n)
    \/ \E k \in Conn : Connect(n, k)
    \/ Receive(n)
    \/ ReceiveEnd(n)
    \/ NotConnected(n)

Handler(n, k) ==
    \/ HandleRegister(n, k)
    \/ HandleHeartbeat(n, k)
    \/ HandleDequeue(n, k)
    \/ HandleInsertLease(n, k)
    \/ HandleGetLease(n, k)
    \/ HandleUpdateLease(n, k)
    \/ HandleRemoveLease(n, k)
    \/ HandleRequeue(n, k)
    \/ HandleDiscard(n, k)
    \/ HandleRead(n, k)
    \/ HandleAnnounce(n, k)
    \/ Announce(n, k)
    \/ SendReply(n, k)
    \/ SendFails(n, k)
    \/ HandleEnd(n, k)
    \/ HandleEvict(n, k)

Reaper ==
    \/ ReaperScan
    \/ \E e \in reaper.found : ReaperRequeue(e)
    \/ \E n \in Node : \/ ReaperLeases(n) \/ ReaperRemove(n) \/ ReaperForget(n)
                       \/ ReaperEvict(n)

Monitor ==
    \/ ProbeAll
    \/ \E n \in Node : ProbeSuccess(n) \/ ProbeFailure(n) \/ CountFailure(n)

Next ==
    \/ \E n \in Node :
          \/ Client(n)
          \/ \E req \in Wanted(n) : Send(n, req)
          \/ Crash(n)
          \/ Late(n)
          \/ \E k \in Conn : Break(n, k) \/ Garble(n, k) \/ Handler(n, k)
    \/ \E t \in Task : Submit(t)
    \/ Restart
    \/ "reaper" \in Loops /\ Reaper
    \/ "monitor" \in Loops /\ Monitor

Spec == Init /\ [][Next]_vars

(* The loops run on timers (5 s heartbeats, 10 s reaper, 30 s probes) and  *)
(* handlers on the runtime's threads, so each keeps taking its steps; a    *)
(* minute always passes; a node that is started connects.                  *)
Fairness ==
    /\ \A n \in Node :
          /\ WF_vars(Client(n))
          /\ WF_vars(\E req \in Wanted(n) : Send(n, req))
          /\ WF_vars(~Alive(n) /\ Late(n))
          /\ \A k \in Conn : WF_vars(Handler(n, k))
    /\ WF_vars("reaper" \in Loops /\ Reaper)
    /\ WF_vars("monitor" \in Loops /\ Monitor)

FairSpec == Spec /\ Fairness

-----------------------------------------------------------------------------
(* Properties.                                                             *)

(* Where a task is: in the queue, in a reply being made, in a reply on its *)
(* way, or with a node.                                                    *)
Handed(t) == Msg("Dequeue", t)
Places(t) ==
    {<<"queue", i>> : i \in {j \in DOMAIN queue : queue[j].task_id = t}}
    \cup {<<"handler", p>> : p \in {q \in Node \X Conn :
             handler[q[1]][q[2]].job = Handed(t)}}
    \cup {<<"reply", p>> : p \in {q \in Node \X Conn :
             wire[q[1]][q[2]].reply = Handed(t)}}
    \cup {<<"node", n>> : n \in {m \in Node : holding[m].task = t}}

(* A task is handed to one node only, however connections and nodes fail:  *)
(* the queue, the replies and the nodes hold one copy of it, and the node  *)
(* that holds it is the one its lease names (server.rs Dequeue and         *)
(* InsertLease).                                                           *)
HeldByOne ==
    \A t \in Task :
       /\ Cardinality(Places(t)) <= 1
       /\ \A n \in Node : holding[n].task = t /\ Leased(leases[t])
                             => leases[t].worker_id = n

(* A node that waits for the answer to a request never gets another        *)
(* request's answer: the mutex of NodeConnection is held from send_message *)
(* to recv_message, and a new connection starts afresh.                    *)
RepliesMatch ==
    \A n \in Node :
       client[n].pc = "waiting" /\ wire[n][Over(n)].reply # None
          => wire[n][Over(n)].reply.kind = client[n].req.kind

(* The end of an old connection never deregisters a node that has come     *)
(* back on a new one: a node leaves the registry by the reaper, with the   *)
(* coordinator, or by the end of a connection whose clean end it has not   *)
(* seen (handle_connection deregisters before it drops the stream, and     *)
(* start_reconnect_loop waits for the clean end).                          *)
OldEndSparesNew ==
    [][\A n \in nodes \ nodes' :
          \/ ReaperRemove(n)
          \/ Restart
          \/ \E k \in Conn : /\ handler'[n][k] # handler[n][k]
                             /\ wire[n][k].client # "eof"]_vars

(* A node whose machine stops leaves the registry for good, whether its    *)
(* connection ends cleanly, with an error or not at all.                   *)
DeadNodeIsEvicted ==
    \A n \in Node : client[n].pc = "dead" ~> [](n \notin nodes)

(* A live node gets a connection that works, unless it is held by a dead   *)
(* one: request() clears inner after a clean end only, and has no timeout. *)
(* Nothing else keeps start_reconnect_loop from its work, not an end that  *)
(* meets a heartbeat, a registration that fails or a restart.              *)
HeldByDeadConnection(n) ==
    /\ Alive(n)
    /\ \E k \in Conn : /\ \/ k = link[n]
                          \/ client[n].pc = "waiting" /\ k = Over(n)
                       /\ wire[n][k].client \in {"err", "silent"}

LiveNodeReconnects ==
    \A n \in Node :
        Alive(n) ~> (Connected(n) \/ ~Alive(n) \/ HeldByDeadConnection(n))

-----------------------------------------------------------------------------
(* Claims of the documentation that the code does not keep.  README.md     *)
(* says for which values of the constants TLC refutes each.                *)

(* ARCHITECTURE.md: start_reconnect_loop reconnects a node that was        *)
(* disconnected, however its connection was lost.                          *)
ReconnectsAlways ==
    \A n \in Node : Alive(n) ~> (Connected(n) \/ ~Alive(n))

(* ARCHITECTURE.md: nodes are removed when their connection ends, when     *)
(* they stop sending heartbeats or when they cannot be reached; so a live  *)
(* node whose connection is served is in the registry.                     *)
ConnectedIsRegistered ==
    \A n \in Node :
       Connected(n) /\ handler[n][link[n]].pc # "evict" => n \in nodes

(* ARCHITECTURE.md: on EOF or error the handler deregisters its node.  So  *)
(* a registered node has a handler that has not ended.                     *)
HandlerEndDeregisters ==
    \A n \in nodes : \E k \in Conn : handler[n][k].pc \notin {"unused", "ended"}

(* ARCHITECTURE.md: the reaper evicts the cache entries of the node it     *)
(* removes.  Once no eviction is under way, the index names registered     *)
(* nodes only.                                                             *)
EvictedHasNoEntries ==
    \A e \in entries :
       \/ e[2] \in nodes
       \/ reaper.evicting = e[2]
       \/ \E k \in Conn : handler[e[2]][k].pc = "evict"

(* ARCHITECTURE.md: the reaper requeues the active leases of the node it   *)
(* removes.                                                                *)
LeasesAreRequeued ==
    [][\A n \in Node :
          reaper.evicting = n /\ reaper.step = "requeue" /\ reaper'.step = "forget"
             => \A t \in Task :
                   IsActive(leases[t]) /\ leases[t].worker_id = n
                      => Queued(queue', t)]_vars

=============================================================================
