------------------------- MODULE Coordinator_proofs -------------------------
(***************************************************************************)
(* Proofs about Coordinator, for any nodes, tasks, keys, faults and loops. *)
(*                                                                         *)
(* That replies match is a fact about one node and its connections: while  *)
(* the node waits, its request is in one place only, on the connection it  *)
(* went over, and on every other connection that still works nothing is    *)
(* under way.  That a task is held by one follows from where its traces    *)
(* are: it leaves the queue once, into one reply, and whatever speaks of   *)
(* it from then on belongs to the node that was sent this reply.  That an  *)
(* old connection leaves a new registration alone follows from the order   *)
(* in which handlers deregister and close.                                 *)
(***************************************************************************)
EXTENDS Coordinator, FiniteSetTheorems, TLAPS

Lease == [state : {"None", "Active", "Completed", "Failed", "Cancelled"},
          worker_id : Node \cup {"none"}, attempt : Nat, expired : BOOLEAN]
QueueEntry == [task_id : Task, attempt : Nat]
MsgKind == OfTask \cup {"None", "RegisterNode", "NodeHeartbeat", "Dequeue",
                        "AnnounceCache", "Read"}
Update == [task : Task, lease : {l \in Lease : Leased(l)}]
Message == [kind : MsgKind,
            arg : Task \cup {NoTask} \cup Conn \cup Key \cup Lease \cup Update]

End == {"ok", "eof", "err", "silent"}
HandlerRecord == [pc : {"unused", "receive", "announce", "reply", "evict", "ended"},
                  registered : BOOLEAN, job : Message]
WireRecord == [request : Message, reply : Message, server : End, client : End]
ClientRecord == [pc : {"off", "idle", "waiting", "dead"}, req : Message]
HoldingRecord == [task : Task \cup {NoTask}, lease : Lease,
                  step : {"none", "handed", "leased", "read", "requeue", "cancelled"}]

ReaperRecord == [pc : {"stale", "unhealthy"}, todo : SUBSET Node,
                 step : {"next", "requeue", "forget", "evict"},
                 evicting : Node \cup {"none"}, found : SUBSET QueueEntry]

HandlerType == handler \in [Node -> [Conn -> HandlerRecord]]
WireType == wire \in [Node -> [Conn -> WireRecord]]
ClientType == client \in [Node -> ClientRecord] /\ link \in [Node -> Conn \cup {0}]
HoldingType == holding \in [Node -> HoldingRecord]
StoreType == /\ queue \in Seq(QueueEntry) /\ leases \in [Task -> Lease]
             /\ submitted \in SUBSET Task
             /\ reaper \in ReaperRecord

(* A request carries what its kind says.                                   *)
RequestOK(r) ==
    /\ r.kind \in OfTask \ {"UpdateLease"} => r.arg \in Task
    /\ r.kind = "UpdateLease" => r.arg \in Update
    /\ r.kind = "RegisterNode" => r.arg \in Conn
ReplyOK(r) ==
    /\ r.kind = "Dequeue" => r.arg \in Task \cup {NoTask}
    /\ r.kind = "GetLease" => r.arg \in Lease
    /\ r.kind = "RegisterNode" => r.arg \in Conn

(* The task a request is about.                                            *)
About(r) == CASE r.kind = "UpdateLease" -> r.arg.task
              [] r.kind \in OfTask \ {"UpdateLease"} -> r.arg
              [] OTHER -> NoTask

ContentOK(n) ==
    /\ RequestOK(client[n].req)
    /\ \A k \in Conn : /\ RequestOK(wire[n][k].request) /\ ReplyOK(wire[n][k].reply)
                       /\ ReplyOK(handler[n][k].job)

TypeOK == /\ HandlerType /\ WireType /\ ClientType /\ HoldingType /\ StoreType
          /\ \A n \in Node : ContentOK(n)

(* The node waits for an answer on connection k.                           *)
Asks(n, k) == client[n].pc = "waiting" /\ Over(n) = k
Busy(n, k) == handler[n][k].pc \in {"reply", "announce"}

(* What is under way on connection k of a node that has not stopped.       *)
Turn(n, k) ==
    /\ wire[n][k].request # None =>
           /\ Asks(n, k) /\ wire[n][k].client = "ok" /\ wire[n][k].reply = None
           /\ ~Busy(n, k) /\ wire[n][k].request = client[n].req
    /\ wire[n][k].reply # None =>
           /\ Asks(n, k) /\ wire[n][k].reply.kind = client[n].req.kind
           /\ Busy(n, k) => wire[n][k].client # "ok"
    /\ Busy(n, k) /\ wire[n][k].client = "ok" =>
           Asks(n, k) /\ handler[n][k].job.kind = client[n].req.kind
    /\ handler[n][k].pc = "unused" => wire[n][k].client = "ok"

TurnInv ==
    \A n \in Node :
        /\ client[n].pc = "waiting" => Over(n) \in Conn
        /\ client[n].pc # "dead" => \A k \in Conn : Turn(n, k)

(* What a node asks about a task is about the task it holds, and the       *)
(* leases it has copies of are its own.                                    *)
LeaseOf(n, r) == r.kind = "GetLease" /\ Leased(r.arg) => r.arg.worker_id = n
Own(n) ==
    /\ holding[n].step # "none" => holding[n].task \in Task
    /\ holding[n].step = "read" =>
           Leased(holding[n].lease) /\ holding[n].lease.worker_id = n
    /\ client[n].pc # "waiting" => client[n].req = None
    /\ client[n].req.kind \in OfTask =>
           holding[n].task = About(client[n].req) /\ holding[n].task \in Task
    /\ \A k \in Conn :
           /\ LeaseOf(n, handler[n][k].job) /\ LeaseOf(n, wire[n][k].reply)
           /\ wire[n][k].request.kind = "UpdateLease" =>
                  wire[n][k].request.arg.lease.worker_id = n
OwnInv == \A n \in Node : Own(n)

(* Something at node n speaks of task t.                                   *)
Trace(n, t) ==
    \/ holding[n].task = t
    \/ \E k \in Conn : \/ handler[n][k].job = Handed(t)
                       \/ wire[n][k].reply = Handed(t)
                       \/ About(wire[n][k].request) = t
OneNode(t) ==
    /\ \A n \in Node : Trace(n, t) =>
           /\ t \in submitted /\ ~Queued(queue, t)
           /\ Leased(leases[t]) => leases[t].worker_id = n
           /\ \A m \in Node : Trace(m, t) => m = n
    /\ Leased(leases[t]) => t \in submitted /\ ~Queued(queue, t)
    /\ \A e \in reaper.found : e.task_id = t => t \in submitted /\ ~Queued(queue, t)
    /\ Queued(queue, t) => t \in submitted
    /\ \A i, j \in DOMAIN queue : queue[i].task_id = t /\ queue[j].task_id = t => i = j

(* A node has one copy of a task it was handed.                            *)
OneCopy(n, t) ==
    /\ \A j, k \in Conn :
           /\ handler[n][j].job = Handed(t) /\ handler[n][k].job = Handed(t) => j = k
           /\ wire[n][j].reply = Handed(t) /\ wire[n][k].reply = Handed(t) => j = k
           /\ handler[n][j].job = Handed(t) => wire[n][k].reply # Handed(t)
    /\ holding[n].task = t => \A k \in Conn : /\ handler[n][k].job # Handed(t)
                                             /\ wire[n][k].reply # Handed(t)
HeldInv == \A t \in Task : OneNode(t) /\ \A n \in Node : OneCopy(n, t)


(* The inductive invariant of both.                                        *)
HandedInv == TypeOK /\ TurnInv /\ OwnInv /\ HeldInv

-----------------------------------------------------------------------------
(* Steps that change one connection, pointwise: connection k of node n is  *)
(* left with the handler h and the wire w.                                 *)

HandlerAt(n, k, h) ==
    /\ HandlerType' /\ handler'[n][k] = h
    /\ \A m \in Node, j \in Conn :
           m # n \/ j # k => handler'[m][j] = handler[m][j]

WireAt(n, k, w) ==
    /\ WireType' /\ wire'[n][k] = w
    /\ \A m \in Node, j \in Conn : m # n \/ j # k => wire'[m][j] = wire[m][j]

LEMMA SetsHandler ==
    ASSUME HandlerType, NEW n \in Node, NEW k \in Conn, NEW h \in HandlerRecord,
           handler' = [handler EXCEPT ![n][k] = h]
    PROVE  HandlerAt(n, k, h)
<1> handler \in [Node -> [Conn -> HandlerRecord]]
  BY DEF HandlerType
<1> HIDE DEF Conn
<1> QED BY DEF HandlerAt, HandlerType

LEMMA SetsWire ==
    ASSUME WireType, NEW n \in Node, NEW k \in Conn, NEW w \in WireRecord,
           wire' = [wire EXCEPT ![n][k] = w]
    PROVE  WireAt(n, k, w)
<1> wire \in [Node -> [Conn -> WireRecord]]
  BY DEF WireType
<1> HIDE DEF Conn
<1> QED BY DEF WireAt, WireType

(* Steps that leave the handlers or the connections alone.                 *)
LEMMA KeepsHandler ==
    ASSUME HandlerType, NEW n \in Node, NEW k \in Conn, UNCHANGED handler
    PROVE  HandlerAt(n, k, handler[n][k])
BY DEF HandlerAt, HandlerType

LEMMA KeepsWire ==
    ASSUME WireType, NEW n \in Node, NEW k \in Conn, UNCHANGED wire
    PROVE  WireAt(n, k, wire[n][k])
BY DEF WireAt, WireType

(* The shapes of the assignments in handle_connection.                     *)
LEMMA SetsPc ==
    ASSUME HandlerType, NEW n \in Node, NEW k \in Conn,
           NEW p \in {"unused", "receive", "announce", "reply", "evict", "ended"},
           handler' = [handler EXCEPT ![n][k].pc = p]
    PROVE  HandlerAt(n, k, [pc |-> p, registered |-> handler[n][k].registered,
                            job |-> handler[n][k].job])
<1> DEFINE h == [pc |-> p, registered |-> handler[n][k].registered,
                 job |-> handler[n][k].job]
<1>1. handler \in [Node -> [Conn -> HandlerRecord]]
  BY DEF HandlerType
<1>2. handler[n][k] \in HandlerRecord
  BY <1>1
<1>3. [handler[n][k] EXCEPT !.pc = p] = h /\ h \in HandlerRecord
  BY <1>2 DEF HandlerRecord
<1>4. handler' = [handler EXCEPT ![n][k] = h]
  BY <1>3
<1> HIDE DEF h
<1>5. HandlerAt(n, k, h)
  BY <1>3, <1>4, SetsHandler
<1> QED BY <1>5 DEF h

LEMMA SetsJob ==
    ASSUME HandlerType, NEW n \in Node, NEW k \in Conn, NEW msg \in Message,
           NEW p \in {"unused", "receive", "announce", "reply", "evict", "ended"},
           handler' = [handler EXCEPT ![n][k].pc = p, ![n][k].job = msg]
    PROVE  HandlerAt(n, k, [pc |-> p, registered |-> handler[n][k].registered,
                            job |-> msg])
<1> DEFINE h == [pc |-> p, registered |-> handler[n][k].registered, job |-> msg]
<1>1. handler \in [Node -> [Conn -> HandlerRecord]]
  BY DEF HandlerType
<1>2. handler[n][k] \in HandlerRecord
  BY <1>1
<1>3. [handler[n][k] EXCEPT !.pc = p, !.job = msg] = h /\ h \in HandlerRecord
  <2>1. [handler[n][k] EXCEPT !.pc = p] \in HandlerRecord
    BY <1>2 DEF HandlerRecord
  <2>2. PICK r \in HandlerRecord : r = [handler[n][k] EXCEPT !.pc = p]
    BY <2>1
  <2>3. r.pc = p /\ r.registered = handler[n][k].registered
    BY <1>2, <2>2 DEF HandlerRecord
  <2>4. [r EXCEPT !.job = msg] = [pc |-> r.pc, registered |-> r.registered, job |-> msg]
    BY DEF HandlerRecord
  <2>5. h \in HandlerRecord
    BY <1>2 DEF HandlerRecord
  <2> QED BY <2>2, <2>3, <2>4, <2>5
<1>4. handler' = [handler EXCEPT ![n][k] = [handler[n][k] EXCEPT !.pc = p, !.job = msg]]
  BY <1>1
<1>5. handler' = [handler EXCEPT ![n][k] = h]
  BY <1>3, <1>4
<1> HIDE DEF h
<1>6. HandlerAt(n, k, h)
  BY <1>3, <1>5, SetsHandler
<1> QED BY <1>6 DEF h

LEMMA SetsRequest ==
    ASSUME WireType, NEW n \in Node, NEW k \in Conn, NEW msg \in Message,
           wire' = [wire EXCEPT ![n][k].request = msg]
    PROVE  WireAt(n, k, [request |-> msg, reply |-> wire[n][k].reply,
                         server |-> wire[n][k].server, client |-> wire[n][k].client])
<1> DEFINE w == [request |-> msg, reply |-> wire[n][k].reply,
                 server |-> wire[n][k].server, client |-> wire[n][k].client]
<1>1. wire \in [Node -> [Conn -> WireRecord]]
  BY DEF WireType
<1>2. wire[n][k] \in WireRecord
  BY <1>1
<1>3. [wire[n][k] EXCEPT !.request = msg] = w /\ w \in WireRecord
  BY <1>2 DEF WireRecord
<1>4. wire' = [wire EXCEPT ![n][k] = w]
  BY <1>3
<1> HIDE DEF w
<1>5. WireAt(n, k, w)
  BY <1>3, <1>4, SetsWire
<1> QED BY <1>5 DEF w

LEMMA SetsReply ==
    ASSUME WireType, NEW n \in Node, NEW k \in Conn, NEW msg \in Message,
           wire' = [wire EXCEPT ![n][k].reply = msg]
    PROVE  WireAt(n, k, [request |-> wire[n][k].request, reply |-> msg,
                         server |-> wire[n][k].server, client |-> wire[n][k].client])
<1> DEFINE w == [request |-> wire[n][k].request, reply |-> msg,
                 server |-> wire[n][k].server, client |-> wire[n][k].client]
<1>1. wire \in [Node -> [Conn -> WireRecord]]
  BY DEF WireType
<1>2. wire[n][k] \in WireRecord
  BY <1>1
<1>3. [wire[n][k] EXCEPT !.reply = msg] = w /\ w \in WireRecord
  BY <1>2 DEF WireRecord
<1>4. wire' = [wire EXCEPT ![n][k] = w]
  BY <1>3
<1> HIDE DEF w
<1>5. WireAt(n, k, w)
  BY <1>3, <1>4, SetsWire
<1> QED BY <1>5 DEF w

LEMMA SetsClient ==
    ASSUME WireType, NEW n \in Node, NEW k \in Conn, NEW end \in End,
           wire' = [wire EXCEPT ![n][k].client = end, ![n][k].request = None],
           None \in Message
    PROVE  WireAt(n, k, [request |-> None, reply |-> wire[n][k].reply,
                         server |-> wire[n][k].server, client |-> end])
<1> DEFINE w == [request |-> None, reply |-> wire[n][k].reply,
                 server |-> wire[n][k].server, client |-> end]
<1>1. wire \in [Node -> [Conn -> WireRecord]]
  BY DEF WireType
<1>2. wire[n][k] \in WireRecord
  BY <1>1
<1>3. [wire[n][k] EXCEPT !.client = end, !.request = None] = w /\ w \in WireRecord
  <2>1. [wire[n][k] EXCEPT !.client = end] \in WireRecord
    BY <1>2 DEF WireRecord
  <2>2. PICK r \in WireRecord : r = [wire[n][k] EXCEPT !.client = end]
    BY <2>1
  <2>3. r.client = end /\ r.reply = wire[n][k].reply /\ r.server = wire[n][k].server
    BY <1>2, <2>2 DEF WireRecord
  <2>4. [r EXCEPT !.request = None] = [request |-> None, reply |-> r.reply,
                                       server |-> r.server, client |-> r.client]
    BY DEF WireRecord
  <2>5. w \in WireRecord
    BY <1>2 DEF WireRecord
  <2> QED BY <2>2, <2>3, <2>4, <2>5
<1>4. wire' = [wire EXCEPT ![n][k] = [wire[n][k] EXCEPT !.client = end, !.request = None]]
  BY <1>1
<1>5. wire' = [wire EXCEPT ![n][k] = w]
  BY <1>3, <1>4
<1> HIDE DEF w
<1>6. WireAt(n, k, w)
  BY <1>3, <1>5, SetsWire
<1> QED BY <1>6 DEF w

LEMMA Garbles ==
    ASSUME WireType, NEW n \in Node, NEW k \in Conn, None \in Message,
           wire' = [wire EXCEPT ![n][k].request = None, ![n][k].server = "err"]
    PROVE  WireAt(n, k, [request |-> None, reply |-> wire[n][k].reply,
                         server |-> "err", client |-> wire[n][k].client])
<1> DEFINE w == [request |-> None, reply |-> wire[n][k].reply,
                 server |-> "err", client |-> wire[n][k].client]
<1>1. wire \in [Node -> [Conn -> WireRecord]]
  BY DEF WireType
<1>2. wire[n][k] \in WireRecord
  BY <1>1
<1>3. [wire[n][k] EXCEPT !.request = None, !.server = "err"] = w /\ w \in WireRecord
  <2>1. [wire[n][k] EXCEPT !.request = None] \in WireRecord
    BY <1>2 DEF WireRecord
  <2>2. PICK r \in WireRecord : r = [wire[n][k] EXCEPT !.request = None]
    BY <2>1
  <2>3. r.request = None /\ r.reply = wire[n][k].reply /\ r.client = wire[n][k].client
    BY <1>2, <2>2 DEF WireRecord
  <2>4. [r EXCEPT !.server = "err"] = [request |-> r.request, reply |-> r.reply,
                                       server |-> "err", client |-> r.client]
    BY DEF WireRecord
  <2>5. w \in WireRecord
    BY <1>2 DEF WireRecord, End
  <2> QED BY <2>2, <2>3, <2>4, <2>5
<1>4. wire' = [wire EXCEPT ![n][k] = [wire[n][k] EXCEPT !.request = None, !.server = "err"]]
  BY <1>1
<1>5. wire' = [wire EXCEPT ![n][k] = w]
  BY <1>3, <1>4
<1> HIDE DEF w
<1>6. WireAt(n, k, w)
  BY <1>3, <1>5, SetsWire
<1> QED BY <1>6 DEF w

-----------------------------------------------------------------------------
(* Facts about messages, leases and queues.                                *)

LEMMA NoMessage ==
    /\ None \in Message /\ None.kind = "None"
    /\ RequestOK(None) /\ ReplyOK(None) /\ About(None) = NoTask
    /\ \A n : LeaseOf(n, None)
    /\ \A t : None # Handed(t)
BY DEF None, Message, MsgKind, RequestOK, ReplyOK, About, OfTask, LeaseOf, Handed, Msg

LEMMA LeaseOps ==
    /\ NoLease \in Lease /\ ~Leased(NoLease)
    /\ \A l \in Lease : Renewed(l) \in Lease /\ Renewed(l).worker_id = l.worker_id
    /\ \A l \in Lease : \A state \in Endings :
           /\ WithState(l, state) \in Lease /\ Leased(WithState(l, state))
           /\ WithState(l, state).worker_id = l.worker_id
    /\ \A l \in Lease : Leased(l) => Leased(Renewed(l))
    /\ \A n \in Node : NewLease(n, 0) \in Lease /\ NewLease(n, 0).worker_id = n
BY DEF Lease, NoLease, Leased, NewLease, Renewed, WithState, Endings

(* stub.rs: requeue of a task that is not queued does nothing.             *)
LEMMA RequeueOfDequeued ==
    ASSUME NEW q, NEW t, NEW a, ~Queued(q, t)
    PROVE  StubRequeue(q, t, a) = q
BY DEF StubRequeue

(* stub.rs: dequeue takes the one entry of the first task away.            *)
LEMMA PopOps ==
    ASSUME NEW q \in Seq(QueueEntry), q # <<>>
    PROVE  /\ Head(q) \in QueueEntry /\ StubPop(q) \in Seq(QueueEntry)
           /\ Queued(q, Head(q).task_id)
           /\ \A t : Queued(StubPop(q), t) => Queued(q, t)
           /\ \A i \in DOMAIN StubPop(q) : i + 1 \in DOMAIN q /\ StubPop(q)[i] = q[i + 1]
           /\ 1 \in DOMAIN q /\ Head(q) = q[1]
BY DEF StubPop, Queued

LEMMA EnqueueOps ==
    ASSUME NEW q \in Seq(QueueEntry), NEW t \in Task
    PROVE  /\ StubEnqueue(q, t) \in Seq(QueueEntry)
           /\ DOMAIN StubEnqueue(q, t) = DOMAIN q \cup {Len(q) + 1}
           /\ \A i \in DOMAIN q : StubEnqueue(q, t)[i] = q[i]
           /\ StubEnqueue(q, t)[Len(q) + 1].task_id = t
           /\ Len(q) + 1 \notin DOMAIN q
           /\ \A u : u # t /\ Queued(StubEnqueue(q, t), u) => Queued(q, u)
<1>1. Entry(t, 0) \in QueueEntry /\ Entry(t, 0).task_id = t
  BY DEF Entry, QueueEntry
<1> DEFINE e == Entry(t, 0)
<1> HIDE DEF e
<1>2. Append(q, e) \in Seq(QueueEntry) /\ Len(Append(q, e)) = Len(q) + 1
  BY <1>1 DEF e
<1>3. \A i \in DOMAIN q : Append(q, e)[i] = q[i]
  BY <1>1 DEF e
<1>4. Append(q, e)[Len(q) + 1] = e
  BY <1>1 DEF e
<1>5. DOMAIN Append(q, e) = DOMAIN q \cup {Len(q) + 1} /\ Len(q) + 1 \notin DOMAIN q
  BY <1>2
<1> QED BY <1>1, <1>2, <1>3, <1>4, <1>5 DEF StubEnqueue, Queued, e

-----------------------------------------------------------------------------
(* What a step of one handler or of the network owes the invariant.        *)

(* One connection changes and no node does.                                *)
LEMMA TurnFrame ==
    ASSUME TurnInv, NEW n \in Node, NEW k \in Conn, NEW h, NEW w,
           HandlerAt(n, k, h), WireAt(n, k, w), UNCHANGED <<client, link>>,
           client[n].pc # "dead" => Turn(n, k)'
    PROVE  TurnInv'
<1> SUFFICES ASSUME NEW m \in Node
             PROVE  /\ client[m].pc = "waiting" => Over(m)' \in Conn
                    /\ client[m].pc # "dead" => \A j \in Conn : Turn(m, j)'
  BY DEF TurnInv
<1>1. Over(m)' = Over(m)
  BY DEF Over
<1>2. ASSUME NEW j \in Conn, m # n \/ j # k, Turn(m, j)
      PROVE  Turn(m, j)'
  <2>1. handler'[m][j] = handler[m][j] /\ wire'[m][j] = wire[m][j]
    BY <1>2 DEF HandlerAt, WireAt
  <2> QED BY <1>1, <1>2, <2>1 DEF Turn, Asks, Busy
<1> QED BY <1>1, <1>2 DEF TurnInv

LEMMA OwnFrame ==
    ASSUME OwnInv, NEW n \in Node, NEW k \in Conn, NEW h, NEW w,
           HandlerAt(n, k, h), WireAt(n, k, w), UNCHANGED <<client, holding>>,
           LeaseOf(n, h.job), LeaseOf(n, w.reply),
           w.request.kind = "UpdateLease" => w.request.arg.lease.worker_id = n
    PROVE  OwnInv'
<1> SUFFICES ASSUME NEW m \in Node
             PROVE  Own(m)'
  BY DEF OwnInv
<1>1. Own(m)
  BY DEF OwnInv
<1>2. ASSUME NEW j \in Conn
      PROVE  /\ LeaseOf(m, handler'[m][j].job) /\ LeaseOf(m, wire'[m][j].reply)
             /\ wire'[m][j].request.kind = "UpdateLease" =>
                    wire'[m][j].request.arg.lease.worker_id = m
  BY <1>1 DEF Own, HandlerAt, WireAt
<1> QED BY <1>1, <1>2 DEF Own

LEMMA ContentFrame ==
    ASSUME TypeOK, NEW n \in Node, NEW k \in Conn, NEW h, NEW w,
           HandlerAt(n, k, h), WireAt(n, k, w), UNCHANGED client,
           RequestOK(w.request), ReplyOK(w.reply), ReplyOK(h.job)
    PROVE  \A m \in Node : ContentOK(m)'
<1> SUFFICES ASSUME NEW m \in Node, NEW j \in Conn
             PROVE  /\ RequestOK(client[m].req)
                    /\ RequestOK(wire'[m][j].request) /\ ReplyOK(wire'[m][j].reply)
                    /\ ReplyOK(handler'[m][j].job)
  BY DEF ContentOK, TypeOK
<1>1. ContentOK(m)
  BY DEF TypeOK
<1> QED BY <1>1 DEF ContentOK, HandlerAt, WireAt

(* Where the connection speaks of no task it did not speak of before.      *)
LEMMA TraceFrame ==
    ASSUME NEW n \in Node, NEW k \in Conn, NEW h, NEW w, NEW t \in Task,
           HandlerAt(n, k, h), WireAt(n, k, w), UNCHANGED holding,
           h.job = Handed(t) => handler[n][k].job = Handed(t),
           w.reply = Handed(t) => wire[n][k].reply = Handed(t),
           About(w.request) = t => About(wire[n][k].request) = t
    PROVE  /\ \A m \in Node : Trace(m, t)' => Trace(m, t)
           /\ \A m \in Node : OneCopy(m, t) => OneCopy(m, t)'
<1>1. ASSUME NEW m \in Node, NEW j \in Conn
      PROVE  /\ handler'[m][j].job = Handed(t) => handler[m][j].job = Handed(t)
             /\ wire'[m][j].reply = Handed(t) => wire[m][j].reply = Handed(t)
             /\ About(wire'[m][j].request) = t => About(wire[m][j].request) = t
  BY DEF HandlerAt, WireAt
<1>2. \A m \in Node : Trace(m, t)' => Trace(m, t)
  BY <1>1 DEF Trace, Handed, Msg, About
<1>3. \A m \in Node : OneCopy(m, t) => OneCopy(m, t)'
  BY <1>1 DEF OneCopy, Handed, Msg
<1> QED BY <1>2, <1>3

(* The store is left alone, and every trace was there before.              *)
LEMMA HeldFrame ==
    ASSUME HeldInv, UNCHANGED <<queue, leases, submitted>>,
           \A e \in reaper'.found : e \in reaper.found,
           NEW t \in Task, \A m \in Node : Trace(m, t)' => Trace(m, t)
    PROVE  OneNode(t)'
<1>1. OneNode(t)
  BY DEF HeldInv
<1> QED BY <1>1 DEF OneNode

(* The part of the invariant that is about nodes and connections.          *)
NodeInv ==
    /\ HandlerType /\ WireType /\ ClientType /\ HoldingType
    /\ \A n \in Node : ContentOK(n)
    /\ TurnInv /\ OwnInv

(* A handler takes a request and has a reply to make, or to announce.      *)
LEMMA TakesStep ==
    ASSUME HandedInv, NEW n \in Node, NEW k \in Conn, NEW kind, kind # "None",
           Takes(n, k, kind), NEW p \in {"reply", "announce"}, NEW r,
           NEW job \in Message, job.kind = kind, ReplyOK(job), LeaseOf(n, job),
           HandlerAt(n, k, [pc |-> p, registered |-> r, job |-> job]),
           UNCHANGED nodeVars
    PROVE  /\ NodeInv'
           /\ \A t \in Task : job # Handed(t) =>
                 /\ \A m \in Node : Trace(m, t)' => Trace(m, t)
                 /\ \A m \in Node : OneCopy(m, t)'
<1> DEFINE h == [pc |-> p, registered |-> r, job |-> job]
           w == [request |-> None, reply |-> wire[n][k].reply,
                 server |-> wire[n][k].server, client |-> wire[n][k].client]
<1>1. HandlerType /\ WireType /\ ContentOK(n) /\ Own(n)
  BY DEF HandedInv, TypeOK, OwnInv
<1>2. WireAt(n, k, w)
  BY <1>1, NoMessage, SetsRequest DEF Takes
<1>3. HandlerAt(n, k, h)
  OBVIOUS
<1>4. h.pc = p /\ h.job = job /\ w.request = None /\ w.reply = wire[n][k].reply
      /\ w.client = wire[n][k].client
  OBVIOUS
<1>5. wire[n][k].request.kind = kind /\ wire[n][k].request # None
      /\ handler[n][k].pc = "receive"
  BY NoMessage DEF Takes
<1> HIDE DEF h, w
<1>6. client[n].pc # "dead" => Turn(n, k)'
  <2> SUFFICES ASSUME client[n].pc # "dead"
               PROVE  Turn(n, k)'
    OBVIOUS
  <2>1. Turn(n, k)
    BY DEF HandedInv, TurnInv
  <2>2. handler'[n][k] = h /\ wire'[n][k] = w
    BY <1>2, <1>3 DEF HandlerAt, WireAt
  <2>3. Asks(n, k)' = Asks(n, k) /\ client'[n].req = client[n].req
    BY DEF Asks, Over, nodeVars
  <2> QED BY <1>4, <1>5, <2>1, <2>2, <2>3 DEF Turn, Busy
<1>7. TurnInv'
  BY <1>2, <1>3, <1>6, TurnFrame DEF HandedInv, nodeVars
<1>8. OwnInv'
  BY <1>1, <1>2, <1>3, <1>4, NoMessage, OwnFrame DEF HandedInv, nodeVars, Own
<1>9. \A m \in Node : ContentOK(m)'
  BY <1>1, <1>2, <1>3, <1>4, NoMessage, ContentFrame DEF HandedInv, nodeVars, ContentOK
<1>10. HandlerType' /\ WireType' /\ ClientType' /\ HoldingType'
  BY <1>2, <1>3 DEF HandlerAt, WireAt, HandedInv, TypeOK, ClientType, HoldingType, nodeVars
<1>11. ASSUME NEW t \in Task, job # Handed(t)
       PROVE  /\ \A m \in Node : Trace(m, t)' => Trace(m, t)
              /\ \A m \in Node : OneCopy(m, t)'
  <2>1. \A m \in Node : OneCopy(m, t)
    BY DEF HandedInv, HeldInv
  <2>2. About(w.request) # t
    BY <1>4, NoMessage, TaskAssumption
  <2>3. UNCHANGED holding
    BY DEF nodeVars
  <2>4. /\ \A m \in Node : Trace(m, t)' => Trace(m, t)
        /\ \A m \in Node : OneCopy(m, t) => OneCopy(m, t)'
    BY <1>2, <1>3, <1>4, <1>11, <2>2, <2>3, TraceFrame
  <2> QED BY <2>1, <2>4
<1> QED BY <1>7, <1>8, <1>9, <1>10, <1>11 DEF NodeInv

(* The same where the reply hands no task over and the store stays.        *)
LEMMA PlainReply ==
    ASSUME HandedInv, NEW n \in Node, NEW k \in Conn, NEW kind, kind # "None",
           Takes(n, k, kind), NEW p \in {"reply", "announce"}, NEW r,
           NEW job \in Message, job.kind = kind, kind # "Dequeue",
           ReplyOK(job), LeaseOf(n, job),
           HandlerAt(n, k, [pc |-> p, registered |-> r, job |-> job]),
           UNCHANGED <<nodeVars, queue, leases, submitted, reaper>>
    PROVE  HandedInv'
<1>1. \A t \in Task : job # Handed(t)
  BY DEF Handed, Msg
<1>2. /\ NodeInv'
      /\ \A t \in Task : job # Handed(t) =>
            /\ \A m \in Node : Trace(m, t)' => Trace(m, t)
            /\ \A m \in Node : OneCopy(m, t)'
  BY TakesStep
<1>3. \A t \in Task : OneNode(t)'
  BY <1>1, <1>2, HeldFrame DEF HandedInv
<1>4. StoreType'
  BY DEF HandedInv, TypeOK, StoreType
<1> QED BY <1>1, <1>2, <1>3, <1>4 DEF HandedInv, NodeInv, TypeOK, HeldInv

LEMMA RegisterStep ==
    ASSUME HandedInv, NEW n \in Node, NEW k \in Conn, HandleRegister(n, k)
    PROVE  HandedInv'
<1> DEFINE job == Msg("RegisterNode", k)
<1>1. job \in Message /\ job.kind = "RegisterNode" /\ ReplyOK(job) /\ LeaseOf(n, job)
  BY DEF Msg, Message, MsgKind, ReplyOK, LeaseOf
<1> HIDE DEF job
<1>2. [pc |-> "reply", registered |-> TRUE, job |-> job] \in HandlerRecord
  BY <1>1 DEF HandlerRecord
<1>3. HandlerAt(n, k, [pc |-> "reply", registered |-> TRUE, job |-> job])
  BY <1>2, SetsHandler DEF HandleRegister, HandedInv, TypeOK, job
<1> QED BY <1>1, <1>3, PlainReply DEF HandleRegister, store, nodeVars

(* Replies, as assignments to one connection.                              *)
LEMMA RepliesAt ==
    ASSUME HandedInv, NEW n \in Node, NEW k \in Conn, NEW msg \in Message,
           Replies(n, k, msg)
    PROVE  HandlerAt(n, k, [pc |-> "reply", registered |-> handler[n][k].registered,
                            job |-> msg])
BY SetsJob DEF Replies, HandedInv, TypeOK

LEMMA HeartbeatStep ==
    ASSUME HandedInv, NEW n \in Node, NEW k \in Conn, HandleHeartbeat(n, k)
    PROVE  HandedInv'
<1> DEFINE job == Msg("NodeHeartbeat", NoTask)
<1>1. job \in Message /\ job.kind = "NodeHeartbeat" /\ ReplyOK(job) /\ LeaseOf(n, job)
  BY DEF Msg, Message, MsgKind, ReplyOK, LeaseOf
<1>2. Replies(n, k, job)
  BY DEF HandleHeartbeat
<1> HIDE DEF job
<1>3. HandlerAt(n, k, [pc |-> "reply", registered |-> handler[n][k].registered,
                       job |-> job])
  BY <1>1, <1>2, RepliesAt
<1> QED BY <1>1, <1>3, PlainReply DEF HandleHeartbeat, store, nodeVars

LEMMA ReadStep ==
    ASSUME HandedInv, NEW n \in Node, NEW k \in Conn, HandleRead(n, k)
    PROVE  HandedInv'
<1> DEFINE job == Msg("Read", NoTask)
<1>1. job \in Message /\ job.kind = "Read" /\ ReplyOK(job) /\ LeaseOf(n, job)
  BY DEF Msg, Message, MsgKind, ReplyOK, LeaseOf
<1>2. Replies(n, k, job)
  BY DEF HandleRead
<1> HIDE DEF job
<1>3. HandlerAt(n, k, [pc |-> "reply", registered |-> handler[n][k].registered,
                       job |-> job])
  BY <1>1, <1>2, RepliesAt
<1> QED BY <1>1, <1>3, PlainReply DEF HandleRead, store, nodeVars

LEMMA AnnounceRequestStep ==
    ASSUME HandedInv, NEW n \in Node, NEW k \in Conn, HandleAnnounce(n, k)
    PROVE  HandedInv'
<1> DEFINE job == wire[n][k].request
<1>1. job \in Message /\ job.kind = "AnnounceCache" /\ ReplyOK(job) /\ LeaseOf(n, job)
  <2>1. wire[n][k] \in WireRecord
    BY DEF HandedInv, TypeOK, WireType
  <2> QED BY <2>1 DEF HandleAnnounce, Takes, WireRecord, ReplyOK, LeaseOf
<1>2. \/ handler' = [handler EXCEPT ![n][k].pc = "announce", ![n][k].job = job]
      \/ Replies(n, k, job)
  BY DEF HandleAnnounce
<1> HIDE DEF job
<1>3. PICK p \in {"reply", "announce"} :
         HandlerAt(n, k, [pc |-> p, registered |-> handler[n][k].registered,
                          job |-> job])
  BY <1>1, <1>2, RepliesAt, SetsJob DEF HandedInv, TypeOK
<1> QED BY <1>1, <1>3, PlainReply DEF HandleAnnounce, store, nodeVars

(* What a request about a task says of it: n is the only node that speaks  *)
(* of it, and the store's lease, if there is one, is that node's.          *)
LEMMA AboutTask ==
    ASSUME HandedInv, NEW n \in Node, NEW k \in Conn,
           wire[n][k].request.kind \in OfTask
    PROVE  /\ About(wire[n][k].request) \in Task
           /\ Trace(n, About(wire[n][k].request))
           /\ OneNode(About(wire[n][k].request))
           /\ wire[n][k].request.kind = "UpdateLease" =>
                  /\ wire[n][k].request.arg \in Update
                  /\ About(wire[n][k].request) = wire[n][k].request.arg.task
                  /\ wire[n][k].request.arg.lease.worker_id = n
           /\ wire[n][k].request.kind # "UpdateLease" =>
                  About(wire[n][k].request) = wire[n][k].request.arg
<1>1. RequestOK(wire[n][k].request) /\ Own(n)
  BY DEF HandedInv, TypeOK, ContentOK, OwnInv
<1>2. About(wire[n][k].request) \in Task
  BY <1>1 DEF RequestOK, About, Update
<1>3. Trace(n, About(wire[n][k].request))
  BY DEF Trace
<1> QED BY <1>1, <1>2, <1>3 DEF HandedInv, HeldInv, RequestOK, About, Own

LEMMA GetLeaseStep ==
    ASSUME HandedInv, NEW n \in Node, NEW k \in Conn, HandleGetLease(n, k)
    PROVE  HandedInv'
<1>1. wire[n][k].request.kind = "GetLease" /\ "GetLease" \in OfTask
  BY DEF HandleGetLease, Takes, OfTask
<1>2. PICK t \in Task : t = wire[n][k].request.arg /\ Trace(n, t) /\ OneNode(t)
  BY <1>1, AboutTask
<1>3. leases[t] \in Lease /\ (Leased(leases[t]) => leases[t].worker_id = n)
  BY <1>2 DEF HandedInv, TypeOK, StoreType, OneNode
<1> DEFINE job == Msg("GetLease", leases[t])
<1>4. job \in Message /\ job.kind = "GetLease" /\ ReplyOK(job) /\ LeaseOf(n, job)
  BY <1>3 DEF Msg, Message, MsgKind, OfTask, ReplyOK, LeaseOf
<1>5. Replies(n, k, job)
  BY <1>2 DEF HandleGetLease
<1> HIDE DEF job
<1>6. HandlerAt(n, k, [pc |-> "reply", registered |-> handler[n][k].registered,
                       job |-> job])
  BY <1>4, <1>5, RepliesAt
<1> QED BY <1>4, <1>6, PlainReply DEF HandleGetLease, store, nodeVars

(* Replies that change the lease of the task the request is about.         *)
LEMMA LeaseReply ==
    ASSUME HandedInv, NEW n \in Node, NEW k \in Conn,
           NEW kind \in OfTask \ {"GetLease"}, Takes(n, k, kind),
           NEW t \in Task, t = About(wire[n][k].request),
           NEW msg \in Task \cup {NoTask}, Replies(n, k, Msg(kind, msg)),
           NEW l \in Lease, Leased(l) => l.worker_id = n,
           leases' = leases \/ leases' = [leases EXCEPT ![t] = l],
           UNCHANGED <<nodeVars, queue, submitted, reaper>>
    PROVE  HandedInv'
<1> DEFINE job == Msg(kind, msg)
<1>1. job \in Message /\ job.kind = kind /\ ReplyOK(job) /\ LeaseOf(n, job)
      /\ kind # "None"
  BY DEF Msg, Message, MsgKind, OfTask, ReplyOK, LeaseOf
<1>2. \A u \in Task : job # Handed(u)
  BY DEF Handed, Msg, OfTask
<1> HIDE DEF job
<1>3. HandlerAt(n, k, [pc |-> "reply", registered |-> handler[n][k].registered,
                       job |-> job])
  BY <1>1, RepliesAt DEF job
<1>4. /\ NodeInv'
      /\ \A u \in Task : job # Handed(u) =>
            /\ \A m \in Node : Trace(m, u)' => Trace(m, u)
            /\ \A m \in Node : OneCopy(m, u)'
  BY <1>1, <1>3, TakesStep
<1>5. Trace(n, t) /\ OneNode(t)
  BY AboutTask DEF Takes
<1>6. leases \in [Task -> Lease]
  BY DEF HandedInv, TypeOK, StoreType
<1>7. StoreType'
  BY <1>6 DEF HandedInv, TypeOK, StoreType
<1>8. ASSUME NEW u \in Task
      PROVE  OneNode(u)'
  <2>1. OneNode(u) /\ \A m \in Node : Trace(m, u)' => Trace(m, u)
    BY <1>2, <1>4 DEF HandedInv, HeldInv
  <2>2. CASE leases'[u] = leases[u]
    BY <2>1, <2>2 DEF OneNode
  <2>3. CASE u = t /\ leases'[u] = l
    BY <1>5, <2>1, <2>3 DEF OneNode
  <2> QED BY <1>6, <2>2, <2>3
<1> QED BY <1>2, <1>4, <1>7, <1>8 DEF HandedInv, NodeInv, TypeOK, HeldInv

LEMMA InsertLeaseStep ==
    ASSUME HandedInv, NEW n \in Node, NEW k \in Conn, HandleInsertLease(n, k)
    PROVE  HandedInv'
<1>1. wire[n][k].request.kind = "InsertLease" /\ "InsertLease" \in OfTask \ {"GetLease"}
  BY DEF HandleInsertLease, Takes, OfTask
<1>2. PICK t \in Task : t = wire[n][k].request.arg /\ t = About(wire[n][k].request)
  BY <1>1, AboutTask
<1>3. PICK msg \in Task \cup {NoTask} : Replies(n, k, Msg("InsertLease", msg))
  BY <1>2 DEF HandleInsertLease
<1>4. leases' = leases \/ leases' = [leases EXCEPT ![t] = NewLease(n, 0)]
  BY <1>2 DEF HandleInsertLease
<1>5. Takes(n, k, "InsertLease") /\ UNCHANGED <<nodeVars, queue, submitted, reaper>>
  BY DEF HandleInsertLease
<1>6. PICK l \in Lease : l = NewLease(n, 0) /\ l.worker_id = n
  BY LeaseOps
<1> QED BY <1>1, <1>2, <1>3, <1>4, <1>5, <1>6, LeaseReply

LEMMA UpdateLeaseStep ==
    ASSUME HandedInv, NEW n \in Node, NEW k \in Conn, HandleUpdateLease(n, k)
    PROVE  HandedInv'
<1>1. wire[n][k].request.kind = "UpdateLease" /\ "UpdateLease" \in OfTask \ {"GetLease"}
  BY DEF HandleUpdateLease, Takes, OfTask
<1>2. PICK new \in Update : /\ new = wire[n][k].request.arg
                            /\ new.task = About(wire[n][k].request)
                            /\ new.lease.worker_id = n
  BY <1>1, AboutTask
<1>3. new.task \in Task /\ new.lease \in Lease
  BY DEF Update
<1>4. PICK msg \in Task \cup {NoTask} : Replies(n, k, Msg("UpdateLease", msg))
  BY <1>2, <1>3 DEF HandleUpdateLease
<1>5. leases' = leases \/ leases' = [leases EXCEPT ![new.task] = new.lease]
  BY <1>2 DEF HandleUpdateLease
<1>6. Takes(n, k, "UpdateLease") /\ UNCHANGED <<nodeVars, queue, submitted, reaper>>
  BY DEF HandleUpdateLease
<1> QED BY <1>1, <1>2, <1>3, <1>4, <1>5, <1>6, LeaseReply

LEMMA RemoveLeaseStep ==
    ASSUME HandedInv, NEW n \in Node, NEW k \in Conn, HandleRemoveLease(n, k)
    PROVE  HandedInv'
<1>1. wire[n][k].request.kind = "RemoveLease" /\ "RemoveLease" \in OfTask \ {"GetLease"}
  BY DEF HandleRemoveLease, Takes, OfTask
<1>2. PICK t \in Task : t = wire[n][k].request.arg /\ t = About(wire[n][k].request)
  BY <1>1, AboutTask
<1>3. Replies(n, k, Msg("RemoveLease", t))
  BY <1>2 DEF HandleRemoveLease
<1>4. leases' = [leases EXCEPT ![t] = NoLease]
  BY <1>2 DEF HandleRemoveLease
<1>5. Takes(n, k, "RemoveLease") /\ UNCHANGED <<nodeVars, queue, submitted, reaper>>
  BY DEF HandleRemoveLease
<1> QED BY <1>1, <1>2, <1>3, <1>4, <1>5, LeaseOps, LeaseReply

(* The task of the request is not queued, so stub.rs changes nothing.      *)
LEMMA RequeueStep ==
    ASSUME HandedInv, NEW n \in Node, NEW k \in Conn,
           HandleRequeue(n, k) \/ HandleDiscard(n, k)
    PROVE  HandedInv'
<1>1. PICK kind \in {"Requeue", "Discard"} :
         /\ Takes(n, k, kind)
         /\ queue' = StubRequeue(queue, wire[n][k].request.arg, 1)
               \/ queue' = queue
         /\ Replies(n, k, Msg(kind, wire[n][k].request.arg))
         /\ UNCHANGED <<nodeVars, leases, submitted, reaper>>
  BY DEF HandleRequeue, HandleDiscard, StubDiscard
<1>2. wire[n][k].request.kind = kind /\ kind \in OfTask \ {"GetLease"}
      /\ kind # "UpdateLease"
  BY <1>1 DEF Takes, OfTask
<1>3. PICK t \in Task : /\ t = wire[n][k].request.arg /\ t = About(wire[n][k].request)
                        /\ Trace(n, t) /\ OneNode(t)
  BY <1>2, AboutTask
<1>4. ~Queued(queue, t)
  BY <1>3 DEF OneNode
<1>5. queue' = queue
  BY <1>1, <1>3, <1>4, RequeueOfDequeued
<1> QED BY <1>1, <1>2, <1>3, <1>5, LeaseOps, LeaseReply

(* The task leaves the queue, where its only entry was, for this reply.    *)
LEMMA DequeueStep ==
    ASSUME HandedInv, NEW n \in Node, NEW k \in Conn, HandleDequeue(n, k)
    PROVE  HandedInv'
<1>1. Takes(n, k, "Dequeue") /\ UNCHANGED <<nodeVars, leases, submitted, reaper>>
  BY DEF HandleDequeue
<1>2. queue \in Seq(QueueEntry) /\ StoreType
  BY DEF HandedInv, TypeOK, StoreType
<1>3. CASE queue = <<>>
  <2> DEFINE job == Msg("Dequeue", NoTask)
  <2>1. job \in Message /\ job.kind = "Dequeue" /\ ReplyOK(job) /\ LeaseOf(n, job)
        /\ \A t \in Task : job # Handed(t)
    BY TaskAssumption DEF Msg, Message, MsgKind, ReplyOK, LeaseOf, Handed
  <2>2. Replies(n, k, job) /\ queue' = queue
    BY <1>3 DEF HandleDequeue
  <2> HIDE DEF job
  <2>3. HandlerAt(n, k, [pc |-> "reply", registered |-> handler[n][k].registered,
                         job |-> job])
    BY <2>1, <2>2, RepliesAt
  <2>4. /\ NodeInv'
        /\ \A t \in Task : job # Handed(t) =>
              /\ \A m \in Node : Trace(m, t)' => Trace(m, t)
              /\ \A m \in Node : OneCopy(m, t)'
    BY <1>1, <2>1, <2>3, TakesStep
  <2>5. \A t \in Task : OneNode(t)'
    BY <1>1, <2>1, <2>2, <2>4, HeldFrame DEF HandedInv
  <2>6. StoreType'
    BY <1>1, <1>2, <2>2 DEF StoreType
  <2> QED BY <2>1, <2>4, <2>5, <2>6 DEF HandedInv, NodeInv, TypeOK, HeldInv
<1>4. CASE queue # <<>>
  <2>1. PICK u \in Task : u = Head(queue).task_id
    BY <1>2, <1>4, PopOps DEF QueueEntry
  <2>2. Queued(queue, u) /\ OneNode(u) /\ \A m \in Node : OneCopy(m, u)
    BY <1>2, <1>4, <2>1, PopOps DEF HandedInv, HeldInv
  <2>3. u \in submitted /\ ~Leased(leases[u]) /\ \A m \in Node : ~Trace(m, u)
    BY <2>2 DEF OneNode
  <2>4. \A e \in reaper.found : e.task_id # u
    BY <2>2 DEF OneNode
  <2>5. Replies(n, k, Handed(u)) /\ queue' = StubPop(queue)
    BY <1>4, <2>1 DEF HandleDequeue, Handed
  <2>6. ~Queued(queue', u)
    <3>1. SUFFICES ASSUME NEW i \in DOMAIN StubPop(queue), StubPop(queue)[i].task_id = u
                   PROVE  FALSE
      BY <2>5 DEF Queued
    <3>2. i + 1 \in DOMAIN queue /\ queue[i + 1].task_id = u
          /\ 1 \in DOMAIN queue /\ queue[1].task_id = u
      BY <1>2, <1>4, <2>1, <3>1, PopOps
    <3>3. i + 1 = 1
      BY <2>2, <3>2 DEF OneNode
    <3>4. StubPop(queue) \in Seq(QueueEntry)
      BY <1>2, <1>4, PopOps
    <3> QED BY <3>3, <3>4
  <2> DEFINE job == Handed(u)
  <2>7. job \in Message /\ job.kind = "Dequeue" /\ ReplyOK(job) /\ LeaseOf(n, job)
        /\ \A t \in Task : job = Handed(t) => t = u
    BY DEF Msg, Message, MsgKind, ReplyOK, LeaseOf, Handed
  <2> HIDE DEF job
  <2>8. HandlerAt(n, k, [pc |-> "reply", registered |-> handler[n][k].registered,
                         job |-> job])
    BY <2>5, <2>7, RepliesAt DEF job
  <2>9. /\ NodeInv'
        /\ \A t \in Task : job # Handed(t) =>
              /\ \A m \in Node : Trace(m, t)' => Trace(m, t)
              /\ \A m \in Node : OneCopy(m, t)'
    BY <1>1, <2>7, <2>8, TakesStep
  <2>10. StoreType'
    BY <1>1, <1>2, <1>4, <2>5, PopOps DEF StoreType
  <2>11. ASSUME NEW t \in Task, t # u
         PROVE  OneNode(t)' /\ \A m \in Node : OneCopy(m, t)'
    <3>1. OneNode(t) /\ job # Handed(t)
      BY <2>7, <2>11 DEF HandedInv, HeldInv
    <3>2. Queued(queue', t) => Queued(queue, t)
      BY <1>2, <1>4, <2>5, PopOps
    <3>3. \A i, j \in DOMAIN queue' : queue'[i].task_id = t /\ queue'[j].task_id = t
                                         => i = j
      <4>1. SUFFICES ASSUME NEW i \in DOMAIN queue', NEW j \in DOMAIN queue',
                            queue'[i].task_id = t, queue'[j].task_id = t
                     PROVE  i = j
        OBVIOUS
      <4>2. i + 1 \in DOMAIN queue /\ queue[i + 1].task_id = t
            /\ j + 1 \in DOMAIN queue /\ queue[j + 1].task_id = t
        BY <1>2, <1>4, <2>5, <4>1, PopOps
      <4>3. i + 1 = j + 1
        BY <3>1, <4>2 DEF OneNode
      <4>4. queue' \in Seq(QueueEntry)
        BY <2>10 DEF StoreType
      <4> QED BY <4>3, <4>4
    <3> QED BY <1>1, <2>9, <3>1, <3>2, <3>3 DEF OneNode
  <2>12. OneNode(u)' /\ \A m \in Node : OneCopy(m, u)'
    <3>1. /\ \A m \in Node : holding'[m].task # u
          /\ \A m \in Node, j \in Conn :
                /\ handler'[m][j].job = Handed(u) => m = n /\ j = k
                /\ wire'[m][j].reply # Handed(u)
                /\ About(wire'[m][j].request) # u
      <4>1. /\ \A m \in Node : holding[m].task # u
            /\ \A m \in Node, j \in Conn :
                  /\ handler[m][j].job # Handed(u)
                  /\ wire[m][j].reply # Handed(u)
                  /\ About(wire[m][j].request) # u
        BY <2>3 DEF Trace
      <4>2. \A m \in Node, j \in Conn : m # n \/ j # k => handler'[m][j] = handler[m][j]
        BY <2>8 DEF HandlerAt
      <4>3. WireAt(n, k, [request |-> None, reply |-> wire[n][k].reply,
                 server |-> wire[n][k].server, client |-> wire[n][k].client])
        BY <1>1, NoMessage, SetsRequest DEF Takes, HandedInv, TypeOK
      <4>4. ASSUME NEW m \in Node, NEW j \in Conn
            PROVE  /\ wire'[m][j].reply = wire[m][j].reply
                   /\ wire'[m][j].request \in {None, wire[m][j].request}
        BY <4>3 DEF WireAt
      <4>5. About(None) # u
        BY NoMessage, TaskAssumption
      <4> QED BY <1>1, <4>1, <4>2, <4>4, <4>5 DEF nodeVars
    <3>2. \A m \in Node : Trace(m, u)' => m = n
      BY <3>1 DEF Trace, Handed, Msg, About
    <3>3. \A m \in Node : OneCopy(m, u)'
      BY <3>1 DEF OneCopy, Handed, Msg
    <3>4. \A i, j \in DOMAIN queue' : queue'[i].task_id = u /\ queue'[j].task_id = u
                                         => i = j
      BY <2>6 DEF Queued
    <3>5. OneNode(u)'
      BY <1>1, <2>3, <2>4, <2>6, <3>2, <3>4 DEF OneNode
    <3> QED BY <3>3, <3>5
  <2> QED BY <2>9, <2>10, <2>11, <2>12 DEF HandedInv, NodeInv, TypeOK, HeldInv
<1> QED BY <1>3, <1>4

(* Nothing new is sent, and something may be lost.                         *)
LEMMA QuietStep ==
    ASSUME HandedInv, NEW n \in Node, NEW k \in Conn, NEW h, NEW w,
           HandlerAt(n, k, h), WireAt(n, k, w), h.job = handler[n][k].job,
           w.reply \in {wire[n][k].reply, None},
           w.request \in {wire[n][k].request, None},
           client[n].pc # "dead" => Turn(n, k)',
           UNCHANGED <<nodeVars, queue, leases, submitted, reaper>>
    PROVE  HandedInv'
<1>1. ContentOK(n) /\ Own(n)
  BY DEF HandedInv, TypeOK, OwnInv
<1>2. TurnInv'
  BY TurnFrame DEF HandedInv, nodeVars
<1>3. OwnInv'
  BY <1>1, NoMessage, OwnFrame DEF HandedInv, nodeVars, Own
<1>4. \A m \in Node : ContentOK(m)'
  BY <1>1, NoMessage, ContentFrame DEF HandedInv, nodeVars, ContentOK
<1>5. HandlerType' /\ WireType' /\ ClientType' /\ HoldingType' /\ StoreType'
  BY DEF HandlerAt, WireAt, HandedInv, TypeOK, ClientType, HoldingType, StoreType, nodeVars
<1>6. ASSUME NEW t \in Task
      PROVE  OneNode(t)' /\ \A m \in Node : OneCopy(m, t)'
  <2>1. \A m \in Node : OneCopy(m, t)
    BY DEF HandedInv, HeldInv
  <2>2. About(None) # t /\ None # Handed(t)
    BY NoMessage, TaskAssumption
  <2>3. UNCHANGED holding
    BY DEF nodeVars
  <2>4. /\ \A m \in Node : Trace(m, t)' => Trace(m, t)
        /\ \A m \in Node : OneCopy(m, t) => OneCopy(m, t)'
    BY <2>2, <2>3, TraceFrame
  <2> QED BY <2>1, <2>4, HeldFrame DEF HandedInv
<1> QED BY <1>2, <1>3, <1>4, <1>5, <1>6 DEF HandedInv, TypeOK, HeldInv

(* A handler goes on to announce, or ends; what the node sees of a stream  *)
(* that is dropped is not a reply.                                         *)
LEMMA AnnounceStep ==
    ASSUME HandedInv, NEW n \in Node, NEW k \in Conn, Announce(n, k)
    PROVE  HandedInv'
<1> DEFINE h == [pc |-> "reply", registered |-> handler[n][k].registered,
                 job |-> handler[n][k].job]
<1>1. HandlerAt(n, k, h)
  BY SetsPc DEF Announce, HandedInv, TypeOK
<1>2. WireAt(n, k, wire[n][k])
  BY KeepsWire DEF Announce, HandedInv, TypeOK
<1>3. h.pc = "reply" /\ h.job = handler[n][k].job
  OBVIOUS
<1> HIDE DEF h
<1>4. ASSUME client[n].pc # "dead"
      PROVE  Turn(n, k)'
  <2>1. Turn(n, k) /\ handler[n][k].pc = "announce"
    BY <1>4 DEF HandedInv, TurnInv, Announce
  <2>2. handler'[n][k] = h /\ wire'[n][k] = wire[n][k]
    BY <1>1, <1>2 DEF HandlerAt, WireAt
  <2>3. Asks(n, k)' = Asks(n, k) /\ client'[n].req = client[n].req
    BY DEF Announce, Asks, Over, nodeVars
  <2> QED BY <1>3, <2>1, <2>2, <2>3 DEF Turn, Busy
<1> QED BY <1>1, <1>2, <1>3, <1>4, QuietStep DEF Announce, store, nodeVars

LEMMA EndedStep ==
    ASSUME HandedInv, NEW n \in Node, NEW k \in Conn, Ended(n, k),
           handler[n][k].pc # "unused",
           UNCHANGED <<nodeVars, queue, leases, submitted, reaper>>
    PROVE  HandedInv'
<1> DEFINE h == [pc |-> "ended", registered |-> handler[n][k].registered,
                 job |-> handler[n][k].job]
<1>1. HandlerAt(n, k, h)
  BY SetsPc DEF Ended, HandedInv, TypeOK
<1>2. h.pc = "ended" /\ h.job = handler[n][k].job
  OBVIOUS
<1> HIDE DEF h
<1>3. CASE wire[n][k].client = "ok"
  <2>1. PICK end \in ClientSees :
            wire' = [wire EXCEPT ![n][k].client = end, ![n][k].request = None]
    BY <1>3 DEF Ended
  <2> DEFINE w == [request |-> None, reply |-> wire[n][k].reply,
                   server |-> wire[n][k].server, client |-> end]
  <2>2. end \in End /\ end # "ok"
    BY EndAssumption DEF End
  <2>3. WireAt(n, k, w)
    BY <2>1, <2>2, NoMessage, SetsClient DEF HandedInv, TypeOK
  <2>4. w.request = None /\ w.reply = wire[n][k].reply /\ w.client # "ok"
    BY <2>2
  <2> HIDE DEF w
  <2>5. ASSUME client[n].pc # "dead"
        PROVE  Turn(n, k)'
    <3>1. Turn(n, k)
      BY <2>5 DEF HandedInv, TurnInv
    <3>2. handler'[n][k] = h /\ wire'[n][k] = w
      BY <1>1, <2>3 DEF HandlerAt, WireAt
    <3>3. Asks(n, k)' = Asks(n, k) /\ client'[n].req = client[n].req
      BY DEF Asks, Over, nodeVars
    <3> QED BY <1>2, <2>4, <3>1, <3>2, <3>3 DEF Turn, Busy
  <2> QED BY <1>1, <1>2, <2>3, <2>4, <2>5, QuietStep
<1>4. CASE wire[n][k].client # "ok"
  <2>1. WireAt(n, k, wire[n][k])
    BY <1>4, KeepsWire DEF Ended, HandedInv, TypeOK
  <2>2. ASSUME client[n].pc # "dead"
        PROVE  Turn(n, k)'
    <3>1. Turn(n, k)
      BY <2>2 DEF HandedInv, TurnInv
    <3>2. handler'[n][k] = h /\ wire'[n][k] = wire[n][k]
      BY <1>1, <2>1 DEF HandlerAt, WireAt
    <3>3. Asks(n, k)' = Asks(n, k) /\ client'[n].req = client[n].req
      BY DEF Asks, Over, nodeVars
    <3> QED BY <1>2, <1>4, <3>1, <3>2, <3>3 DEF Turn, Busy
  <2> QED BY <1>1, <1>2, <2>1, <2>2, QuietStep
<1> QED BY <1>3, <1>4

LEMMA HandleEndStep ==
    ASSUME HandedInv, NEW n \in Node, NEW k \in Conn, HandleEnd(n, k)
    PROVE  HandedInv'
<1>1. UNCHANGED <<nodeVars, queue, leases, submitted, reaper>>
      /\ handler[n][k].pc = "receive"
  BY DEF HandleEnd, store
<1>2. CASE ~handler[n][k].registered
  <2>1. Ended(n, k)
    BY <1>2 DEF HandleEnd
  <2> QED BY <1>1, <2>1, EndedStep
<1>3. CASE handler[n][k].registered
  <2> DEFINE h == [pc |-> "evict", registered |-> handler[n][k].registered,
                   job |-> handler[n][k].job]
  <2>1. HandlerAt(n, k, h)
    BY <1>3, SetsPc DEF HandleEnd, HandedInv, TypeOK
  <2>2. WireAt(n, k, wire[n][k])
    BY <1>3, KeepsWire DEF HandleEnd, HandedInv, TypeOK
  <2>3. h.pc = "evict" /\ h.job = handler[n][k].job
    OBVIOUS
  <2> HIDE DEF h
  <2>4. ASSUME client[n].pc # "dead"
        PROVE  Turn(n, k)'
    <3>1. Turn(n, k)
      BY <2>4 DEF HandedInv, TurnInv
    <3>2. handler'[n][k] = h /\ wire'[n][k] = wire[n][k]
      BY <2>1, <2>2 DEF HandlerAt, WireAt
    <3>3. Asks(n, k)' = Asks(n, k) /\ client'[n].req = client[n].req
      BY <1>1 DEF Asks, Over, nodeVars
    <3> QED BY <1>1, <2>3, <3>1, <3>2, <3>3 DEF Turn, Busy
  <2> QED BY <1>1, <2>1, <2>2, <2>3, <2>4, QuietStep
<1> QED BY <1>2, <1>3

LEMMA BreakStep ==
    ASSUME HandedInv, NEW n \in Node, NEW k \in Conn, Break(n, k)
    PROVE  HandedInv'
<1>1. UNCHANGED <<nodeVars, queue, leases, submitted, reaper>>
      /\ handler[n][k].pc # "unused" /\ UNCHANGED handler
  BY DEF Break
<1>2. PICK s \in ServerSees \ {"eof"}, c \in ClientSees \ {"eof"} :
          wire' = [wire EXCEPT ![n][k] = [request |-> None, reply |-> None,
                                          server |-> s, client |-> c]]
  BY DEF Break
<1> DEFINE w == [request |-> None, reply |-> None, server |-> s, client |-> c]
<1>3. w \in WireRecord /\ w.request = None /\ w.reply = None /\ w.client # "ok"
  BY EndAssumption, NoMessage DEF WireRecord, End
<1>4. wire' = [wire EXCEPT ![n][k] = w]
  BY <1>2
<1> HIDE DEF w
<1>5. WireAt(n, k, w)
  BY <1>3, <1>4, SetsWire DEF HandedInv, TypeOK
<1>6. HandlerAt(n, k, handler[n][k])
  BY <1>1, KeepsHandler DEF HandedInv, TypeOK
<1>7. Turn(n, k)'
  <2>1. handler'[n][k] = handler[n][k] /\ wire'[n][k] = w
    BY <1>5, <1>6 DEF HandlerAt, WireAt
  <2> QED BY <1>1, <1>3, <2>1 DEF Turn
<1> QED BY <1>1, <1>3, <1>5, <1>6, <1>7, QuietStep

LEMMA GarbleStep ==
    ASSUME HandedInv, NEW n \in Node, NEW k \in Conn, Garble(n, k)
    PROVE  HandedInv'
<1>1. UNCHANGED <<nodeVars, queue, leases, submitted, reaper>> /\ UNCHANGED handler
  BY DEF Garble
<1> DEFINE w == [request |-> None, reply |-> wire[n][k].reply,
                 server |-> "err", client |-> wire[n][k].client]
<1>2. WireAt(n, k, w)
  BY NoMessage, Garbles DEF Garble, HandedInv, TypeOK
<1>3. w.request = None /\ w.reply = wire[n][k].reply /\ w.client = wire[n][k].client
  OBVIOUS
<1> HIDE DEF w
<1>4. HandlerAt(n, k, handler[n][k])
  BY <1>1, KeepsHandler DEF HandedInv, TypeOK
<1>5. ASSUME client[n].pc # "dead"
      PROVE  Turn(n, k)'
  <2>1. Turn(n, k)
    BY <1>5 DEF HandedInv, TurnInv
  <2>2. handler'[n][k] = handler[n][k] /\ wire'[n][k] = w
    BY <1>2, <1>4 DEF HandlerAt, WireAt
  <2>3. Asks(n, k)' = Asks(n, k) /\ client'[n].req = client[n].req
    BY <1>1 DEF Asks, Over, nodeVars
  <2> QED BY <1>3, <2>1, <2>2, <2>3 DEF Turn, Busy
<1> QED BY <1>1, <1>2, <1>3, <1>4, <1>5, QuietStep

(* The reply moves from the handler to the connection, or is lost.         *)
LEMMA SendReplyStep ==
    ASSUME HandedInv, NEW n \in Node, NEW k \in Conn, SendReply(n, k)
    PROVE  HandedInv'
<1> DEFINE h == [pc |-> "receive", registered |-> handler[n][k].registered,
                 job |-> None]
<1>1. handler[n][k].pc = "reply" /\ UNCHANGED <<nodeVars, queue, leases, submitted, reaper>>
  BY DEF SendReply, store
<1>2. HandlerAt(n, k, h)
  BY NoMessage, SetsJob DEF SendReply, HandedInv, TypeOK
<1>3. h.pc = "receive" /\ h.job = None
  OBVIOUS
<1> HIDE DEF h
<1>4. PICK w : /\ WireAt(n, k, w) /\ w.request = wire[n][k].request
               /\ w.client = wire[n][k].client
               /\ \/ w.reply = handler[n][k].job /\ w.client = "ok" /\ Alive(n)
                  \/ w.reply = wire[n][k].reply /\ ~(w.client = "ok" /\ Alive(n))
  <2>1. CASE wire[n][k].client = "ok" /\ Alive(n)
    <3>1. handler[n][k].job \in Message
      BY DEF HandedInv, TypeOK, HandlerType, HandlerRecord
    <3>2. wire' = [wire EXCEPT ![n][k].reply = handler[n][k].job]
      BY <2>1 DEF SendReply
    <3> DEFINE w == [request |-> wire[n][k].request, reply |-> handler[n][k].job,
                     server |-> wire[n][k].server, client |-> wire[n][k].client]
    <3>3. WireAt(n, k, w)
      BY <3>1, <3>2, SetsReply DEF HandedInv, TypeOK
    <3>4. w.request = wire[n][k].request /\ w.client = wire[n][k].client
          /\ w.reply = handler[n][k].job
      OBVIOUS
    <3> HIDE DEF w
    <3> QED BY <2>1, <3>3, <3>4
  <2>2. CASE ~(wire[n][k].client = "ok" /\ Alive(n))
    BY <2>2, KeepsWire DEF SendReply, HandedInv, TypeOK
  <2> QED BY <2>1, <2>2
<1>5. ContentOK(n) /\ Own(n)
  BY DEF HandedInv, TypeOK, OwnInv
<1>6. ASSUME client[n].pc # "dead"
      PROVE  Turn(n, k)'
  <2>1. Turn(n, k)
    BY <1>6 DEF HandedInv, TurnInv
  <2>2. handler'[n][k] = h /\ wire'[n][k] = w
    BY <1>2, <1>4 DEF HandlerAt, WireAt
  <2>3. Asks(n, k)' = Asks(n, k) /\ client'[n].req = client[n].req
    BY <1>1 DEF Asks, Over, nodeVars
  <2> QED BY <1>1, <1>3, <1>4, <2>1, <2>2, <2>3 DEF Turn, Busy
<1>7. TurnInv'
  BY <1>1, <1>2, <1>4, <1>6, TurnFrame DEF HandedInv, nodeVars
<1>8. OwnInv'
  BY <1>1, <1>2, <1>3, <1>4, <1>5, NoMessage, OwnFrame DEF HandedInv, nodeVars, Own
<1>9. \A m \in Node : ContentOK(m)'
  BY <1>1, <1>2, <1>3, <1>4, <1>5, NoMessage, ContentFrame
     DEF HandedInv, nodeVars, ContentOK
<1>10. HandlerType' /\ WireType' /\ ClientType' /\ HoldingType' /\ StoreType'
  BY <1>1, <1>2, <1>4
     DEF HandlerAt, WireAt, HandedInv, TypeOK, ClientType, HoldingType, StoreType, nodeVars
<1>11. ASSUME NEW t \in Task
       PROVE  OneNode(t)' /\ \A m \in Node : OneCopy(m, t)'
  <2>1. \A m \in Node : OneCopy(m, t)
    BY DEF HandedInv, HeldInv
  <2>2. None # Handed(t)
    BY NoMessage
  <2>3. CASE w.reply = handler[n][k].job
    <3>1. \A m \in Node, j \in Conn : m # n \/ j # k =>
             handler'[m][j] = handler[m][j] /\ wire'[m][j] = wire[m][j]
      BY <1>2, <1>4 DEF HandlerAt, WireAt
    <3>2. /\ handler'[n][k].job # Handed(t)
          /\ wire'[n][k].reply = handler[n][k].job
          /\ wire'[n][k].request = wire[n][k].request
      BY <1>2, <1>3, <1>4, <2>2, <2>3 DEF HandlerAt, WireAt
    <3>3. holding' = holding
      BY <1>1 DEF nodeVars
    <3>4. \A m \in Node : Trace(m, t)' => Trace(m, t)
      BY <3>1, <3>2, <3>3 DEF Trace, Handed, Msg, About
    <3>5. \A m \in Node : OneCopy(m, t)'
      BY <2>1, <3>1, <3>2, <3>3 DEF OneCopy, Handed, Msg
    <3> QED BY <1>1, <3>4, <3>5, HeldFrame DEF HandedInv
  <2>4. CASE w.reply = wire[n][k].reply
    <3>1. UNCHANGED holding
      BY <1>1 DEF nodeVars
    <3>2. /\ \A m \in Node : Trace(m, t)' => Trace(m, t)
          /\ \A m \in Node : OneCopy(m, t) => OneCopy(m, t)'
      BY <1>2, <1>3, <1>4, <2>2, <2>4, <3>1, TraceFrame
    <3> QED BY <1>1, <2>1, <3>2, HeldFrame DEF HandedInv
  <2> QED BY <1>4, <2>3, <2>4
<1> QED BY <1>7, <1>8, <1>9, <1>10, <1>11 DEF HandedInv, TypeOK, HeldInv

LEMMA HandlerStep ==
    ASSUME HandedInv, NEW n \in Node, NEW k \in Conn, Handler(n, k)
    PROVE  HandedInv'
<1>1. CASE SendFails(n, k)
  BY <1>1, EndedStep DEF SendFails, store
<1>2. CASE HandleEvict(n, k)
  BY <1>2, EndedStep DEF HandleEvict, store
<1> QED BY <1>1, <1>2, RegisterStep, HeartbeatStep, DequeueStep, InsertLeaseStep,
           GetLeaseStep, UpdateLeaseStep, RemoveLeaseStep, RequeueStep, ReadStep,
           AnnounceRequestStep, AnnounceStep, SendReplyStep, HandleEndStep DEF Handler

-----------------------------------------------------------------------------
(* What a step of one node owes the invariant.                             *)

OnlyNode(n) ==
    \A m \in Node : m # n =>
        /\ client'[m] = client[m] /\ link'[m] = link[m] /\ holding'[m] = holding[m]
        /\ \A j \in Conn : handler'[m][j] = handler[m][j] /\ wire'[m][j] = wire[m][j]

LEMMA NodeFrame ==
    ASSUME HandedInv, NEW n \in Node, OnlyNode(n),
           HandlerType', WireType', ClientType', HoldingType',
           ContentOK(n)', Own(n)',
           client'[n].pc = "waiting" => Over(n)' \in Conn,
           client'[n].pc # "dead" => \A k \in Conn : Turn(n, k)',
           \A t \in Task : (Trace(n, t)' => Trace(n, t)) /\ OneCopy(n, t)',
           UNCHANGED <<queue, leases, submitted, reaper>>
    PROVE  HandedInv'
<1>1. ASSUME NEW m \in Node, m # n
      PROVE  /\ ContentOK(m)' /\ Own(m)'
             /\ client'[m].pc = "waiting" => Over(m)' \in Conn
             /\ client'[m].pc # "dead" => \A k \in Conn : Turn(m, k)'
             /\ \A t \in Task : (Trace(m, t)' => Trace(m, t)) /\ OneCopy(m, t)'
  <2>1. /\ client'[m] = client[m] /\ link'[m] = link[m] /\ holding'[m] = holding[m]
        /\ \A j \in Conn : handler'[m][j] = handler[m][j] /\ wire'[m][j] = wire[m][j]
    BY <1>1 DEF OnlyNode
  <2>2. ContentOK(m)'
    BY <2>1 DEF HandedInv, TypeOK, ContentOK
  <2>3. Own(m)'
    BY <2>1 DEF HandedInv, OwnInv, Own
  <2>4. Over(m)' = Over(m) /\ \A k \in Conn : Asks(m, k)' = Asks(m, k)
    BY <2>1 DEF Over, Asks
  <2>5. client'[m].pc = "waiting" => Over(m)' \in Conn
    BY <2>1, <2>4 DEF HandedInv, TurnInv
  <2>6. ASSUME NEW k \in Conn, client'[m].pc # "dead"
        PROVE  Turn(m, k)'
    <3>1. Turn(m, k)
      BY <2>1, <2>6 DEF HandedInv, TurnInv
    <3> QED BY <2>1, <2>4, <3>1 DEF Turn, Busy
  <2>7. ASSUME NEW t \in Task
        PROVE  (Trace(m, t)' => Trace(m, t)) /\ OneCopy(m, t)'
    <3>1. Trace(m, t)' => Trace(m, t)
      BY <2>1 DEF Trace
    <3>2. OneCopy(m, t)
      BY DEF HandedInv, HeldInv
    <3>3. OneCopy(m, t)'
      BY <2>1, <3>2 DEF OneCopy, Handed, Msg
    <3> QED BY <3>1, <3>3
  <2> QED BY <2>2, <2>3, <2>5, <2>6, <2>7
<1>2. TurnInv' /\ OwnInv' /\ \A m \in Node : ContentOK(m)'
  BY <1>1 DEF TurnInv, OwnInv
<1>3. HeldInv'
  BY <1>1, HeldFrame DEF HandedInv, HeldInv
<1>4. StoreType'
  BY DEF HandedInv, TypeOK, StoreType
<1> QED BY <1>2, <1>3, <1>4 DEF HandedInv, TypeOK

(* The shape of the assignments to a node's state.                         *)
LEMMA SetsNode ==
    ASSUME ClientType, HoldingType, NEW n \in Node, NEW c \in ClientRecord,
           NEW l \in Conn \cup {0}, NEW h \in HoldingRecord,
           client' = [client EXCEPT ![n] = c],
           link' = [link EXCEPT ![n] = l],
           holding' = [holding EXCEPT ![n] = h]
    PROVE  /\ ClientType' /\ HoldingType'
           /\ client'[n] = c /\ link'[n] = l /\ holding'[n] = h
           /\ \A m \in Node : m # n => /\ client'[m] = client[m]
                                       /\ link'[m] = link[m]
                                       /\ holding'[m] = holding[m]
BY DEF ClientType, HoldingType

(* Nothing is under way on a connection that works while the node is idle. *)
LEMMA IdleNode ==
    ASSUME HandedInv, NEW n \in Node, NEW k \in Conn, client[n].pc \in {"off", "idle"}
    PROVE  /\ wire[n][k].request = None /\ wire[n][k].reply = None
           /\ wire[n][k].client = "ok" => ~Busy(n, k)
           /\ handler[n][k].pc = "unused" => wire[n][k].client = "ok"
<1>1. Turn(n, k)
  BY DEF HandedInv, TurnInv
<1> QED BY <1>1 DEF Turn, Asks

(* A new connection, on which nothing is under way yet.                    *)
LEMMA OpensStep ==
    ASSUME HandedInv, NEW n \in Node, NEW k \in Conn, Opens(n, k),
           client[n].pc \in {"off", "idle"}
    PROVE  HandedInv'
<1> DEFINE req == Msg("RegisterNode", k)
           h == [pc |-> "receive", registered |-> handler[n][k].registered,
                 job |-> handler[n][k].job]
           w == [request |-> req, reply |-> wire[n][k].reply,
                 server |-> wire[n][k].server, client |-> wire[n][k].client]
           c == [pc |-> "waiting", req |-> req]
<1>1. req \in Message /\ req.kind = "RegisterNode" /\ req.arg = k /\ RequestOK(req)
      /\ About(req) = NoTask /\ req.kind \notin OfTask
  BY DEF Msg, Message, MsgKind, RequestOK, About, OfTask
<1>2. HandlerAt(n, k, h)
  BY SetsPc DEF Opens, HandedInv, TypeOK
<1>3. WireAt(n, k, w)
  BY <1>1, SetsRequest DEF Opens, HandedInv, TypeOK
<1>4. c \in ClientRecord /\ client' = [client EXCEPT ![n] = c]
  BY <1>1 DEF ClientRecord, Opens
<1>5. UNCHANGED <<queue, leases, submitted, reaper, link, holding>>
  BY DEF Opens, store
<1>6. h.pc = "receive" /\ h.job = handler[n][k].job /\ w.request = req
      /\ w.reply = wire[n][k].reply /\ w.client = wire[n][k].client
      /\ c.pc = "waiting" /\ c.req = req
  OBVIOUS
<1> HIDE DEF req, h, w, c
<1>7. ClientType' /\ HoldingType' /\ client'[n] = c
      /\ \A m \in Node : m # n => client'[m] = client[m]
  BY <1>4, <1>5 DEF HandedInv, TypeOK, ClientType, HoldingType
<1>8. /\ handler'[n][k] = h /\ wire'[n][k] = w
      /\ \A m \in Node, j \in Conn : m # n \/ j # k =>
            handler'[m][j] = handler[m][j] /\ wire'[m][j] = wire[m][j]
      /\ HandlerType' /\ WireType'
  BY <1>2, <1>3 DEF HandlerAt, WireAt
<1>9. OnlyNode(n)
  BY <1>5, <1>7, <1>8 DEF OnlyNode
<1>10. ContentOK(n)'
  <2>1. ContentOK(n)
    BY DEF HandedInv, TypeOK
  <2> QED BY <1>1, <1>6, <1>7, <1>8, <2>1 DEF ContentOK
<1>11. Own(n)'
  <2>1. Own(n)
    BY DEF HandedInv, OwnInv
  <2> QED BY <1>1, <1>5, <1>6, <1>7, <1>8, <2>1 DEF Own, OfTask
<1>12. Over(n)' = k
  BY <1>1, <1>6, <1>7 DEF Over
<1>13. ASSUME NEW j \in Conn
       PROVE  Turn(n, j)'
  <2>1. /\ wire[n][j].request = None /\ wire[n][j].reply = None
        /\ wire[n][j].client = "ok" => ~Busy(n, j)
        /\ handler[n][j].pc = "unused" => wire[n][j].client = "ok"
    BY IdleNode
  <2>2. CASE j = k
    <3>1. wire[n][k].client = "ok" /\ Asks(n, k)'
      BY <1>6, <1>7, <1>12, <2>1, <2>2 DEF Opens, Asks
    <3> QED BY <1>6, <1>7, <1>8, <2>1, <2>2, <3>1 DEF Turn, Busy
  <2>3. CASE j # k
    BY <1>8, <2>1, <2>3 DEF Turn, Busy
  <2> QED BY <2>2, <2>3
<1>14. ASSUME NEW t \in Task
       PROVE  (Trace(n, t)' => Trace(n, t)) /\ OneCopy(n, t)'
  <2>1. /\ \A j \in Conn : handler'[n][j].job = handler[n][j].job
                           /\ wire'[n][j].reply = wire[n][j].reply
        /\ \A j \in Conn : About(wire'[n][j].request) = t =>
                              About(wire[n][j].request) = t
    BY <1>1, <1>6, <1>8, TaskAssumption
  <2>2. Trace(n, t)' => Trace(n, t)
    BY <1>5, <2>1 DEF Trace, Handed, Msg, About
  <2>3. OneCopy(n, t)
    BY DEF HandedInv, HeldInv
  <2> QED BY <1>5, <2>1, <2>2, <2>3 DEF OneCopy, Handed, Msg
<1> QED BY <1>5, <1>7, <1>8, <1>9, <1>10, <1>11, <1>12, <1>13, <1>14, NodeFrame

(* What a node asks for is about the task it holds.                        *)
LEMMA WantedOps ==
    ASSUME HandedInv, NEW n \in Node, NEW req \in Wanted(n)
    PROVE  /\ req \in Message /\ RequestOK(req)
           /\ req.kind \notin {"None", "RegisterNode"}
           /\ req.kind \in OfTask => About(req) = holding[n].task /\ About(req) \in Task
           /\ req.kind \notin OfTask => About(req) = NoTask
           /\ req.kind = "UpdateLease" => req.arg.lease.worker_id = n
<1>1. Own(n) /\ holding[n] \in HoldingRecord
  BY DEF HandedInv, OwnInv, TypeOK, HoldingType
<1>2. PICK t : t = holding[n].task
  OBVIOUS
<1>3. PICK l \in Lease : l = holding[n].lease
  BY <1>1 DEF HoldingRecord
<1>4. CASE req \in {Msg("NodeHeartbeat", NoTask)} \cup CacheRequests \cup SinkRequests
  BY <1>4 DEF CacheRequests, SinkRequests, Msg, Message, MsgKind, RequestOK, About, OfTask
<1>5. CASE req \in QueueRequests(n)
  <2>1. \/ req = Msg("Dequeue", NoTask)
        \/ req = Msg("Requeue", t) /\ t \in Task
        \/ req = Msg("Discard", t) /\ t \in Task
    BY <1>1, <1>2, <1>5 DEF QueueRequests, Own
  <2> QED BY <1>2, <2>1 DEF Msg, Message, MsgKind, RequestOK, About, OfTask
<1>6. CASE req \in LeaseRequests(n)
  <2>1. CASE holding[n].step # "read"
    <3>1. \/ req = Msg("InsertLease", t) /\ t \in Task
          \/ req = Msg("GetLease", t) /\ t \in Task
          \/ req = Msg("RemoveLease", t) /\ t \in Task
      BY <1>1, <1>2, <1>6, <2>1 DEF LeaseRequests, Own
    <3> QED BY <1>2, <3>1 DEF Msg, Message, MsgKind, RequestOK, About, OfTask
  <2>2. CASE holding[n].step = "read"
    <3>1. PICK new \in {Renewed(l)} \cup {WithState(l, e) : e \in Endings} :
             req = Msg("UpdateLease", [task |-> t, lease |-> new])
      BY <1>2, <1>3, <1>6, <2>2 DEF LeaseRequests
    <3>2. new \in Lease /\ Leased(new) /\ new.worker_id = n /\ t \in Task
      BY <1>1, <1>2, <1>3, <2>2, <3>1, LeaseOps DEF Own
    <3>3. PICK u : u = [task |-> t, lease |-> new]
      OBVIOUS
    <3>4. u \in Update /\ u.task = t /\ u.lease = new
      BY <3>2, <3>3 DEF Update
    <3>5. req = Msg("UpdateLease", u)
      BY <3>1, <3>3
    <3> QED BY <1>2, <3>2, <3>4, <3>5 DEF Msg, Message, MsgKind, RequestOK, About, OfTask
  <2> QED BY <2>1, <2>2
<1> QED BY <1>4, <1>5, <1>6 DEF Wanted

LEMMA SendStep ==
    ASSUME HandedInv, NEW n \in Node, NEW req \in Wanted(n), Send(n, req)
    PROVE  HandedInv'
<1>1. client[n].pc = "idle" /\ link[n] # 0 /\ Sends(n, req)
  BY DEF Send
<1>2. PICK k \in Conn : k = link[n]
  BY <1>1 DEF HandedInv, TypeOK, ClientType
<1>3. /\ req \in Message /\ RequestOK(req)
      /\ req.kind \notin {"None", "RegisterNode"}
      /\ req.kind \in OfTask => About(req) = holding[n].task /\ About(req) \in Task
      /\ req.kind \notin OfTask => About(req) = NoTask
      /\ req.kind = "UpdateLease" => req.arg.lease.worker_id = n
  BY WantedOps
<1> DEFINE c == [pc |-> "waiting", req |-> req]
<1>4. c \in ClientRecord /\ client' = [client EXCEPT ![n] = c]
      /\ c.pc = "waiting" /\ c.req = req
  BY <1>1, <1>3 DEF ClientRecord, Sends
<1> HIDE DEF c
<1>5. UNCHANGED <<queue, leases, submitted, reaper, link, holding, handler>>
  BY <1>1 DEF Sends, store
<1>6. ClientType' /\ HoldingType' /\ client'[n] = c
      /\ \A m \in Node : m # n => client'[m] = client[m]
  BY <1>4, <1>5 DEF HandedInv, TypeOK, ClientType, HoldingType
<1>7. PICK w : /\ WireAt(n, k, w) /\ w.reply = wire[n][k].reply
               /\ w.client = wire[n][k].client
               /\ \/ w.request = req /\ w.client = "ok"
                  \/ w.request = wire[n][k].request
  <2>1. CASE wire[n][k].client = "ok"
    <3>1. wire' = [wire EXCEPT ![n][k].request = req]
      BY <1>1, <1>2, <2>1 DEF Sends
    <3> DEFINE w == [request |-> req, reply |-> wire[n][k].reply,
                     server |-> wire[n][k].server, client |-> wire[n][k].client]
    <3>2. WireAt(n, k, w)
      BY <1>3, <3>1, SetsRequest DEF HandedInv, TypeOK
    <3>3. w.request = req /\ w.reply = wire[n][k].reply /\ w.client = wire[n][k].client
      OBVIOUS
    <3> HIDE DEF w
    <3> QED BY <2>1, <3>2, <3>3
  <2>2. CASE wire[n][k].client # "ok"
    BY <1>1, <1>2, <2>2, KeepsWire DEF Sends, HandedInv, TypeOK
  <2> QED BY <2>1, <2>2
<1>8. /\ wire'[n][k] = w /\ WireType' /\ HandlerType'
      /\ \A m \in Node, j \in Conn : m # n \/ j # k => wire'[m][j] = wire[m][j]
  BY <1>5, <1>7 DEF WireAt, HandlerType, HandedInv, TypeOK
<1>9. OnlyNode(n)
  BY <1>5, <1>6, <1>8 DEF OnlyNode
<1>10. ContentOK(n)'
  <2>1. ContentOK(n)
    BY DEF HandedInv, TypeOK
  <2> QED BY <1>3, <1>4, <1>5, <1>6, <1>7, <1>8, <2>1 DEF ContentOK
<1>11. Own(n)'
  <2>1. Own(n)
    BY DEF HandedInv, OwnInv
  <2>2. \A j \in Conn : /\ wire'[n][j].reply = wire[n][j].reply
                        /\ wire'[n][j].request \in {req, wire[n][j].request}
    BY <1>7, <1>8
  <2> QED BY <1>3, <1>4, <1>5, <1>6, <2>1, <2>2 DEF Own
<1>12. Over(n)' = k
  BY <1>2, <1>3, <1>4, <1>5, <1>6 DEF Over
<1>13. ASSUME NEW j \in Conn
       PROVE  Turn(n, j)'
  <2>1. /\ wire[n][j].request = None /\ wire[n][j].reply = None
        /\ wire[n][j].client = "ok" => ~Busy(n, j)
        /\ handler[n][j].pc = "unused" => wire[n][j].client = "ok"
    BY <1>1, IdleNode
  <2>2. CASE j = k
    <3>1. Asks(n, k)'
      BY <1>4, <1>6, <1>12 DEF Asks
    <3> QED BY <1>4, <1>5, <1>6, <1>7, <1>8, <2>1, <2>2, <3>1 DEF Turn, Busy
  <2>3. CASE j # k
    BY <1>5, <1>8, <2>1, <2>3 DEF Turn, Busy
  <2> QED BY <2>2, <2>3
<1>14. ASSUME NEW t \in Task
       PROVE  (Trace(n, t)' => Trace(n, t)) /\ OneCopy(n, t)'
  <2>1. /\ \A j \in Conn : wire'[n][j].reply = wire[n][j].reply
        /\ \A j \in Conn : About(wire'[n][j].request) = t =>
                              About(wire[n][j].request) = t \/ holding[n].task = t
    BY <1>3, <1>7, <1>8, TaskAssumption
  <2>2. Trace(n, t)' => Trace(n, t)
    BY <1>5, <2>1 DEF Trace, Handed, Msg, About
  <2>3. OneCopy(n, t)
    BY DEF HandedInv, HeldInv
  <2> QED BY <1>5, <2>1, <2>2, <2>3 DEF OneCopy, Handed, Msg
<1> QED BY <1>5, <1>6, <1>8, <1>9, <1>10, <1>11, <1>12, <1>13, <1>14, NodeFrame

LEMMA NothingHeld ==
    NotHolding \in HoldingRecord /\ NotHolding.task = NoTask /\ NotHolding.step = "none"
BY LeaseOps DEF NotHolding, HoldingRecord

LEMMA HandedOps ==
    ASSUME NEW t \in Task, NEW h,
           h = [NotHolding EXCEPT !.task = t, !.step = "handed"]
    PROVE  h \in HoldingRecord /\ h.task = t /\ h.step = "handed"
BY LeaseOps DEF NotHolding, HoldingRecord

LEMMA WithOps ==
    ASSUME NEW old \in HoldingRecord, NEW step \in {"leased", "requeue", "cancelled"},
           NEW h, h = With(old, step)
    PROVE  h \in HoldingRecord /\ h.task = old.task /\ h.step = step
BY LeaseOps DEF HoldingRecord, With

HasRead(h, old, l) == h = [old EXCEPT !.step = "read", !.lease = l]

LEMMA ReadOps ==
    ASSUME NEW old \in HoldingRecord, NEW l \in Lease, NEW h, HasRead(h, old, l)
    PROVE  h \in HoldingRecord /\ h.task = old.task /\ h.step = "read" /\ h.lease = l
BY DEF HoldingRecord, HasRead

(* An answer leaves the node with the task it had, with none, or with the  *)
(* one it was handed.                                                      *)
LEMMA AheadOps ==
    ASSUME HandedInv, NEW n \in Node, NEW k \in Conn, k = Over(n),
           client[n].pc = "waiting", wire[n][k].reply # None,
           NEW h \in Ahead(holding[n], client[n].req, wire[n][k].reply)
    PROVE  /\ h \in HoldingRecord
           /\ h.step # "none" => h.task \in Task
           /\ h.step = "read" => Leased(h.lease) /\ h.lease.worker_id = n
           /\ \/ h.task \in {holding[n].task, NoTask}
              \/ h.task \in Task /\ wire[n][k].reply = Handed(h.task)
<1>1. PICK old \in HoldingRecord : old = holding[n]
  BY DEF HandedInv, TypeOK, HoldingType
<1>2. PICK req : req = client[n].req /\ RequestOK(req)
  BY DEF HandedInv, TypeOK, ContentOK
<1>3. PICK reply : reply = wire[n][k].reply /\ ReplyOK(reply) /\ LeaseOf(n, reply)
                   /\ reply \in Message
  BY DEF HandedInv, TypeOK, ContentOK, OwnInv, Own, WireType, WireRecord
<1>4. /\ old.step # "none" => old.task \in Task
      /\ old.step = "read" => Leased(old.lease) /\ old.lease.worker_id = n
      /\ req.kind \in OfTask => old.task \in Task
  BY <1>1, <1>2 DEF HandedInv, OwnInv, Own
<1>5. reply.kind = req.kind
  BY <1>2, <1>3 DEF HandedInv, TurnInv, Turn
<1>6. h \in Ahead(old, req, reply)
  BY <1>1, <1>2, <1>3
<1>7. CASE reply.kind = "Dequeue"
  <2>1. h = IF reply.arg = NoTask THEN NotHolding
            ELSE [NotHolding EXCEPT !.task = reply.arg, !.step = "handed"]
    BY <1>6, <1>7 DEF Ahead
  <2>2. CASE reply.arg = NoTask
    BY <2>1, <2>2, NothingHeld
  <2>3. CASE reply.arg # NoTask
    <3>1. PICK t \in Task : t = reply.arg
      BY <1>3, <1>7, <2>3 DEF ReplyOK
    <3>2. h \in HoldingRecord /\ h.task = t /\ h.step = "handed"
      BY <2>1, <2>3, <3>1, HandedOps
    <3>3. reply = Handed(t)
      BY <1>3, <1>7, <3>1 DEF Message, Handed, Msg
    <3> QED BY <1>3, <3>2, <3>3
  <2> QED BY <2>2, <2>3
<1>8. CASE reply.kind = "InsertLease"
  <2>1. h \in {With(old, "requeue"), With(old, "leased")}
    BY <1>6, <1>8 DEF Ahead
  <2>2. old.task \in Task
    BY <1>4, <1>5, <1>8 DEF OfTask
  <2>3. h \in HoldingRecord /\ h.task = old.task /\ h.step \in {"requeue", "leased"}
    BY <2>1, WithOps
  <2> QED BY <1>1, <2>2, <2>3
<1>9. CASE reply.kind = "GetLease"
  <2>1. PICK l \in Lease : l = reply.arg
    BY <1>3, <1>9 DEF ReplyOK
  <2>2. old.task \in Task
    BY <1>4, <1>5, <1>9 DEF OfTask
  <2>3. CASE Leased(l)
    <3>1. HasRead(h, old, l)
      BY <1>6, <1>9, <2>1, <2>3 DEF Ahead, HasRead
    <3>2. l.worker_id = n
      BY <1>3, <1>9, <2>1, <2>3 DEF LeaseOf
    <3>3. h \in HoldingRecord /\ h.task = old.task /\ h.step = "read" /\ h.lease = l
      BY <3>1, ReadOps
    <3> QED BY <1>1, <2>2, <2>3, <3>2, <3>3
  <2>4. CASE ~Leased(l)
    <3>1. h = NotHolding
      BY <1>6, <1>9, <2>1, <2>4 DEF Ahead
    <3> QED BY <3>1, NothingHeld
  <2> QED BY <2>3, <2>4
<1>10. CASE reply.kind = "UpdateLease"
  <2>1. PICK s \in {"Active", "Completed", "Failed", "Cancelled"} :
            s = req.arg.lease.state
    BY <1>2, <1>5, <1>10 DEF RequestOK, Update, Lease, Leased
  <2>2. h \in {NotHolding} \cup AfterUpdate(old, s)
    BY <1>6, <1>10, <2>1 DEF Ahead
  <2>3. h \in {NotHolding, With(old, "leased"), With(old, "requeue"),
               With(old, "cancelled")}
    BY <2>2 DEF AfterUpdate
  <2>4. old.task \in Task
    BY <1>4, <1>5, <1>10 DEF OfTask
  <2>5. CASE h = NotHolding
    BY <2>5, NothingHeld
  <2>6. CASE h # NotHolding
    <3>1. h \in HoldingRecord /\ h.task = old.task
          /\ h.step \in {"requeue", "leased", "cancelled"}
      BY <2>3, <2>6, WithOps
    <3> QED BY <1>1, <2>4, <3>1
  <2> QED BY <2>5, <2>6
<1>11. CASE reply.kind \in {"Requeue", "Discard"}
  <2>1. h = NotHolding
    BY <1>6, <1>11 DEF Ahead
  <2> QED BY <2>1, NothingHeld
<1>12. CASE reply.kind \notin {"Dequeue", "InsertLease", "GetLease", "UpdateLease",
                               "Requeue", "Discard"}
  <2>1. h = old
    BY <1>6, <1>12 DEF Ahead
  <2> QED BY <1>1, <1>4, <2>1
<1> QED BY <1>7, <1>8, <1>9, <1>10, <1>11, <1>12

LEMMA ReceiveStep ==
    ASSUME HandedInv, NEW n \in Node, Receive(n)
    PROVE  HandedInv'
<1>1. client[n].pc = "waiting"
  BY DEF Receive
<1>2. PICK k \in Conn : k = Over(n)
  BY <1>1 DEF HandedInv, TurnInv
<1>3. wire[n][k].reply # None /\ wire' = [wire EXCEPT ![n][k].reply = None]
  BY <1>2 DEF Receive
<1>4. PICK h \in Ahead(holding[n], client[n].req, wire[n][k].reply) :
          holding' = [holding EXCEPT ![n] = h]
  BY <1>2 DEF Receive
<1>5. /\ h \in HoldingRecord
      /\ h.step # "none" => h.task \in Task
      /\ h.step = "read" => Leased(h.lease) /\ h.lease.worker_id = n
      /\ \/ h.task \in {holding[n].task, NoTask}
         \/ h.task \in Task /\ wire[n][k].reply = Handed(h.task)
  BY <1>1, <1>2, <1>3, AheadOps
<1> DEFINE c == [pc |-> "idle", req |-> None]
           w == [request |-> wire[n][k].request, reply |-> None,
                 server |-> wire[n][k].server, client |-> wire[n][k].client]
<1>6. c \in ClientRecord /\ client' = [client EXCEPT ![n] = c]
      /\ c.pc = "idle" /\ c.req = None
  BY NoMessage DEF ClientRecord, Receive
<1>7. WireAt(n, k, w)
  BY <1>3, NoMessage, SetsReply DEF HandedInv, TypeOK
<1>8. w.request = wire[n][k].request /\ w.reply = None /\ w.client = wire[n][k].client
  OBVIOUS
<1> HIDE DEF c, w
<1>9. PICK l \in Conn \cup {0} : link' = [link EXCEPT ![n] = l]
  <2>1. link[n] \in Conn \cup {0}
    BY DEF HandedInv, TypeOK, ClientType
  <2>2. link' = [link EXCEPT ![n] = IF wire[n][k].reply.kind = "RegisterNode" THEN k
                                    ELSE link[n]]
    BY <1>2 DEF Receive
  <2> QED BY <2>1, <2>2
<1>10. /\ ClientType' /\ HoldingType'
       /\ client'[n] = c /\ link'[n] = l /\ holding'[n] = h
       /\ \A m \in Node : m # n => /\ client'[m] = client[m]
                                   /\ link'[m] = link[m]
                                   /\ holding'[m] = holding[m]
  BY <1>4, <1>5, <1>6, <1>9, SetsNode DEF HandedInv, TypeOK
<1>11. UNCHANGED <<queue, leases, submitted, reaper, handler>>
  BY DEF Receive, store
<1>12. /\ wire'[n][k] = w /\ WireType' /\ HandlerType'
       /\ \A m \in Node, j \in Conn : m # n \/ j # k => wire'[m][j] = wire[m][j]
  BY <1>7, <1>11 DEF WireAt, HandlerType, HandedInv, TypeOK
<1>13. OnlyNode(n)
  BY <1>10, <1>11, <1>12 DEF OnlyNode
<1>14. ContentOK(n)'
  <2>1. ContentOK(n)
    BY DEF HandedInv, TypeOK
  <2> QED BY <1>6, <1>8, <1>10, <1>11, <1>12, <2>1, NoMessage DEF ContentOK
<1>15. Own(n)'
  <2>1. Own(n)
    BY DEF HandedInv, OwnInv
  <2>2. \A j \in Conn : /\ wire'[n][j].request = wire[n][j].request
                        /\ wire'[n][j].reply \in {None, wire[n][j].reply}
    BY <1>8, <1>12
  <2>3. None.kind \notin OfTask /\ LeaseOf(n, None)
    BY NoMessage DEF OfTask
  <2> QED BY <1>5, <1>6, <1>10, <1>11, <2>1, <2>2, <2>3 DEF Own
<1>16. ASSUME NEW j \in Conn
       PROVE  Turn(n, j)'
  <2>1. Turn(n, j)
    BY <1>1, <1>16 DEF HandedInv, TurnInv
  <2>2. CASE j = k
    BY <1>3, <1>8, <1>11, <1>12, <2>1, <2>2 DEF Turn, Busy
  <2>3. CASE j # k
    <3>1. ~Asks(n, j)
      BY <1>2, <2>3 DEF Asks
    <3> QED BY <1>11, <1>12, <2>1, <2>3, <3>1 DEF Turn, Busy
  <2> QED BY <2>2, <2>3
<1>17. ASSUME NEW t \in Task
       PROVE  (Trace(n, t)' => Trace(n, t)) /\ OneCopy(n, t)'
  <2>1. /\ \A j \in Conn : wire'[n][j].request = wire[n][j].request
        /\ \A j \in Conn : wire'[n][j].reply = Handed(t) =>
              j # k /\ wire[n][j].reply = Handed(t)
    BY <1>8, <1>12, NoMessage
  <2>2. h.task = t => holding[n].task = t \/ wire[n][k].reply = Handed(t)
    BY <1>5, TaskAssumption
  <2>3. Trace(n, t)' => Trace(n, t)
    BY <1>10, <1>11, <2>1, <2>2 DEF Trace, Handed, Msg, About
  <2>4. OneCopy(n, t)
    BY DEF HandedInv, HeldInv
  <2>5. OneCopy(n, t)'
    BY <1>10, <1>11, <2>1, <2>2, <2>4 DEF OneCopy, Handed, Msg
  <2> QED BY <2>3, <2>5
<1> QED BY <1>6, <1>10, <1>11, <1>12, <1>13, <1>14, <1>15, <1>16, <1>17, NodeFrame

(* The node gives up or loses what it had: no trace is new.                *)
LEMMA GivesUp ==
    ASSUME HandedInv, NEW n \in Node, NEW c \in ClientRecord, NEW l \in Conn \cup {0},
           NEW h \in {NotHolding, holding[n]}, c.pc # "waiting", c.req = None,
           client' = [client EXCEPT ![n] = c], link' = [link EXCEPT ![n] = l],
           holding' = [holding EXCEPT ![n] = h],
           c.pc # "dead" => \A k \in Conn :
               /\ wire[n][k].request = None /\ wire[n][k].reply = None
               /\ wire[n][k].client = "ok" => ~Busy(n, k)
               /\ handler[n][k].pc = "unused" => wire[n][k].client = "ok",
           WireType', \A k \in Conn : /\ wire'[n][k].request = wire[n][k].request
                                      /\ wire'[n][k].reply = wire[n][k].reply
                                      /\ wire'[n][k].client = wire[n][k].client,
           \A m \in Node : m # n => \A k \in Conn : wire'[m][k] = wire[m][k],
           UNCHANGED <<queue, leases, submitted, reaper, handler>>
    PROVE  HandedInv'
<1>1. h \in HoldingRecord
  BY NothingHeld DEF HandedInv, TypeOK, HoldingType
<1>2. /\ ClientType' /\ HoldingType'
      /\ client'[n] = c /\ link'[n] = l /\ holding'[n] = h
      /\ \A m \in Node : m # n => /\ client'[m] = client[m]
                                  /\ link'[m] = link[m]
                                  /\ holding'[m] = holding[m]
  BY <1>1, SetsNode DEF HandedInv, TypeOK
<1>3. OnlyNode(n) /\ HandlerType'
  BY <1>2 DEF OnlyNode, HandedInv, TypeOK, HandlerType
<1>4. ContentOK(n)'
  <2>1. ContentOK(n)
    BY DEF HandedInv, TypeOK
  <2> QED BY <1>2, <2>1, NoMessage DEF ContentOK
<1>5. Own(n)'
  <2>1. Own(n)
    BY DEF HandedInv, OwnInv
  <2>2. None.kind \notin OfTask
    BY NoMessage DEF OfTask
  <2> QED BY <1>2, <2>1, <2>2, NothingHeld DEF Own
<1>6. c.pc # "dead" => \A k \in Conn : Turn(n, k)'
  BY DEF Turn, Busy
<1>7. ASSUME NEW t \in Task
      PROVE  (Trace(n, t)' => Trace(n, t)) /\ OneCopy(n, t)'
  <2>1. h.task = t => holding[n].task = t
    BY NothingHeld, TaskAssumption
  <2>2. Trace(n, t)' => Trace(n, t)
    BY <1>2, <2>1 DEF Trace, Handed, Msg, About
  <2>3. OneCopy(n, t)
    BY DEF HandedInv, HeldInv
  <2>4. OneCopy(n, t)'
    BY <1>2, <2>1, <2>3 DEF OneCopy, Handed, Msg
  <2> QED BY <2>2, <2>4
<1> QED BY <1>2, <1>3, <1>4, <1>5, <1>6, <1>7, NodeFrame

LEMMA ReceiveEndStep ==
    ASSUME HandedInv, NEW n \in Node, ReceiveEnd(n)
    PROVE  HandedInv'
<1>1. client[n].pc = "waiting" /\ wire[n][Over(n)].reply = None
      /\ wire[n][Over(n)].client # "ok"
      /\ UNCHANGED <<queue, leases, submitted, reaper, handler, wire>>
  BY DEF ReceiveEnd, EndsWith, store, network
<1>2. PICK c \in ClientRecord : /\ c.pc \in {"idle", "dead"} /\ c.req = None
                                /\ client' = [client EXCEPT ![n] = c]
  <2> DEFINE first == client[n].req.kind = "RegisterNode" /\ client[n].req.arg = 1
             c == [pc |-> IF first THEN "dead" ELSE "idle", req |-> None]
  <2>1. client' = [client EXCEPT ![n] = c]
    BY DEF ReceiveEnd, EndsWith
  <2>2. c \in ClientRecord /\ c.pc \in {"idle", "dead"} /\ c.req = None
    BY NoMessage DEF ClientRecord
  <2> QED BY <2>1, <2>2
<1>3. PICK l \in Conn \cup {0} : link' = [link EXCEPT ![n] = l]
  <2>1. link[n] \in Conn \cup {0}
    BY DEF HandedInv, TypeOK, ClientType
  <2> QED BY <2>1 DEF ReceiveEnd, EndsWith
<1>4. PICK h \in {NotHolding, holding[n]} : holding' = [holding EXCEPT ![n] = h]
  BY DEF ReceiveEnd, EndsWith
<1>5. ASSUME NEW k \in Conn
      PROVE  /\ wire[n][k].request = None /\ wire[n][k].reply = None
             /\ wire[n][k].client = "ok" => ~Busy(n, k)
             /\ handler[n][k].pc = "unused" => wire[n][k].client = "ok"
  <2>1. Turn(n, k)
    BY <1>1 DEF HandedInv, TurnInv
  <2>2. CASE k = Over(n)
    BY <1>1, <2>1, <2>2 DEF Turn
  <2>3. CASE k # Over(n)
    BY <2>1, <2>3 DEF Turn, Asks
  <2> QED BY <2>2, <2>3
<1>6. WireType'
  BY <1>1 DEF HandedInv, TypeOK, WireType
<1>7. c.pc # "waiting"
  BY <1>2
<1> QED BY <1>1, <1>2, <1>3, <1>4, <1>5, <1>6, <1>7, GivesUp

LEMMA NotConnectedStep ==
    ASSUME HandedInv, NEW n \in Node, NotConnected(n)
    PROVE  HandedInv'
<1>1. client[n].pc = "idle" /\ holding' = [holding EXCEPT ![n] = NotHolding]
      /\ UNCHANGED <<queue, leases, submitted, reaper, handler, wire, client, link>>
  BY DEF NotConnected, store, network
<1>2. PICK c \in ClientRecord : c = client[n]
  BY DEF HandedInv, TypeOK, ClientType
<1>3. PICK l \in Conn \cup {0} : l = link[n]
  BY DEF HandedInv, TypeOK, ClientType
<1>4. client' = [client EXCEPT ![n] = c] /\ link' = [link EXCEPT ![n] = l]
  BY <1>1, <1>2, <1>3 DEF HandedInv, TypeOK, ClientType
<1>5. c.pc = "idle" /\ c.req = None
  BY <1>1, <1>2 DEF HandedInv, OwnInv, Own
<1>6. WireType'
  BY <1>1 DEF HandedInv, TypeOK, WireType
<1>7. \A k \in Conn : /\ wire[n][k].request = None /\ wire[n][k].reply = None
                      /\ wire[n][k].client = "ok" => ~Busy(n, k)
                      /\ handler[n][k].pc = "unused" => wire[n][k].client = "ok"
  BY <1>1, IdleNode
<1>8. c.pc # "waiting"
  BY <1>5
<1> QED BY <1>1, <1>4, <1>5, <1>6, <1>7, <1>8, GivesUp

LEMMA CrashStep ==
    ASSUME HandedInv, NEW n \in Node, Crash(n)
    PROVE  HandedInv'
<1>1. UNCHANGED <<queue, leases, submitted, reaper, handler>>
      /\ holding' = [holding EXCEPT ![n] = NotHolding]
      /\ link' = [link EXCEPT ![n] = 0]
  BY DEF Crash, store
<1>2. PICK c \in ClientRecord : /\ c.pc = "dead" /\ c.req = None
                                /\ client' = [client EXCEPT ![n] = c]
  <2>1. [pc |-> "dead", req |-> None] \in ClientRecord
    BY NoMessage DEF ClientRecord
  <2> QED BY <2>1 DEF Crash
<1>3. PICK end \in ServerSees :
          wire' = [wire EXCEPT ![n] = [k \in Conn |-> [wire[n][k] EXCEPT !.server = end]]]
  BY DEF Crash
<1>4. end \in End
  BY EndAssumption DEF End
<1>5. wire \in [Node -> [Conn -> WireRecord]]
  BY DEF HandedInv, TypeOK, WireType
<1> DEFINE f == [k \in Conn |-> [wire[n][k] EXCEPT !.server = end]]
<1>6. f \in [Conn -> WireRecord]
      /\ \A k \in Conn : /\ f[k].request = wire[n][k].request
                         /\ f[k].reply = wire[n][k].reply
                         /\ f[k].client = wire[n][k].client
  <2>1. ASSUME NEW k \in Conn
        PROVE  /\ f[k] \in WireRecord /\ f[k].request = wire[n][k].request
               /\ f[k].reply = wire[n][k].reply /\ f[k].client = wire[n][k].client
    <3>1. PICK r \in WireRecord : r = wire[n][k]
      BY <1>5
    <3>2. f[k] = [r EXCEPT !.server = end]
      BY <3>1
    <3> QED BY <1>4, <3>1, <3>2 DEF WireRecord
  <2>2. f \in [Conn -> WireRecord]
    BY <2>1
  <2> QED BY <2>1, <2>2
<1>7. wire' = [wire EXCEPT ![n] = f]
  BY <1>3
<1> HIDE DEF f
<1>8. WireType' /\ wire'[n] = f /\ \A m \in Node : m # n => wire'[m] = wire[m]
  BY <1>5, <1>6, <1>7 DEF WireType
<1>9. c.pc # "waiting"
  BY <1>2
<1> QED BY <1>1, <1>2, <1>6, <1>8, <1>9, GivesUp

-----------------------------------------------------------------------------
(* The coordinator as a whole, its loops and its clients.                  *)

(* A restarted coordinator has an empty queue and an empty store, and its  *)
(* nodes keep what they had.                                               *)
LEMMA RestartStep ==
    ASSUME HandedInv, Restart
    PROVE  HandedInv'
<1>1. UNCHANGED <<client, link, holding, submitted>> /\ reaper' = Resting
      /\ queue' = <<>> /\ leases' = [t \in Task |-> NoLease]
  BY DEF Restart, nodeVars
<1>2. PICK end \in ClientSees :
         wire' = [n \in Node |-> [k \in Conn |->
                      [wire[n][k] EXCEPT
                          !.request = None,
                          !.client = IF @ = "ok" /\ handler[n][k].pc # "unused"
                                     THEN end ELSE @]]]
  BY DEF Restart
<1>3. end \in End /\ end # "ok"
  BY EndAssumption DEF End
<1>4. ASSUME NEW n \in Node, NEW k \in Conn
      PROVE  /\ handler'[n][k] \in HandlerRecord
             /\ handler'[n][k].job = None
             /\ handler'[n][k].pc \in {"unused", "ended"}
             /\ handler'[n][k].pc = "unused" <=> handler[n][k].pc = "unused"
  <2>1. handler'[n][k] = IF handler[n][k].pc = "unused" THEN Unused
                         ELSE [Unused EXCEPT !.pc = "ended"]
    BY DEF Restart
  <2>2. PICK u \in HandlerRecord : u = Unused /\ u.pc = "unused" /\ u.job = None
    <3>1. Unused \in HandlerRecord
      BY NoMessage DEF Unused, HandlerRecord
    <3>2. Unused.pc = "unused" /\ Unused.job = None
      BY DEF Unused
    <3> QED BY <3>1, <3>2
  <2>3. [u EXCEPT !.pc = "ended"] \in HandlerRecord
        /\ [u EXCEPT !.pc = "ended"].pc = "ended" /\ [u EXCEPT !.pc = "ended"].job = None
    BY <2>2 DEF HandlerRecord
  <2> QED BY <2>1, <2>2, <2>3
<1>5. ASSUME NEW n \in Node, NEW k \in Conn
      PROVE  /\ wire'[n][k] \in WireRecord
             /\ wire'[n][k].request = None
             /\ wire'[n][k].reply = wire[n][k].reply
             /\ wire'[n][k].client # wire[n][k].client => handler[n][k].pc # "unused"
  <2>1. PICK r \in WireRecord : r = wire[n][k]
    BY DEF HandedInv, TypeOK, WireType
  <2>2. PICK c \in End : c = IF r.client = "ok" /\ handler[n][k].pc # "unused"
                             THEN end ELSE r.client
    BY <1>3 DEF WireRecord
  <2>3. wire'[n][k] = [r EXCEPT !.request = None, !.client = c]
    BY <1>2, <2>1, <2>2
  <2>4. PICK q \in WireRecord : q = [r EXCEPT !.request = None]
                                /\ q.request = None /\ q.reply = r.reply
    <3>1. [r EXCEPT !.request = None] \in WireRecord
      BY NoMessage DEF WireRecord
    <3>2. [r EXCEPT !.request = None].request = None
          /\ [r EXCEPT !.request = None].reply = r.reply
      BY DEF WireRecord
    <3> QED BY <3>1, <3>2
  <2>5. wire'[n][k] = [q EXCEPT !.client = c]
    BY <2>3, <2>4
  <2>6. wire'[n][k] \in WireRecord /\ wire'[n][k].request = None
        /\ wire'[n][k].reply = r.reply /\ wire'[n][k].client = c
    BY <2>4, <2>5 DEF WireRecord
  <2> QED BY <2>1, <2>2, <2>6
<1>6. HandlerType' /\ WireType'
  <2>1. handler' = [n \in Node |-> [k \in Conn |-> handler'[n][k]]]
    BY DEF Restart
  <2>2. wire' = [n \in Node |-> [k \in Conn |-> wire'[n][k]]]
    BY <1>2
  <2> QED BY <1>4, <1>5, <2>1, <2>2 DEF HandlerType, WireType
<1>7. ClientType' /\ HoldingType'
  BY <1>1 DEF HandedInv, TypeOK, ClientType, HoldingType
<1>8. StoreType'
  BY <1>1, LeaseOps DEF HandedInv, TypeOK, StoreType, Resting, ReaperRecord
<1>9. ASSUME NEW n \in Node
      PROVE  ContentOK(n)'
  <2>1. ContentOK(n)
    BY DEF HandedInv, TypeOK
  <2> QED BY <1>1, <1>4, <1>5, <2>1, NoMessage DEF ContentOK
<1>10. ASSUME NEW n \in Node
       PROVE  Own(n)'
  <2>1. Own(n)
    BY DEF HandedInv, OwnInv
  <2> QED BY <1>1, <1>4, <1>5, <2>1, NoMessage DEF Own
<1>11. ASSUME NEW n \in Node
       PROVE  /\ client'[n].pc = "waiting" => Over(n)' \in Conn
              /\ client'[n].pc # "dead" => \A k \in Conn : Turn(n, k)'
  <2>1. Over(n)' = Over(n) /\ \A k \in Conn : Asks(n, k)' = Asks(n, k)
    BY <1>1 DEF Over, Asks
  <2>2. client'[n].pc = "waiting" => Over(n)' \in Conn
    BY <1>1, <2>1 DEF HandedInv, TurnInv
  <2>3. ASSUME NEW k \in Conn, client'[n].pc # "dead"
        PROVE  Turn(n, k)'
    <3>1. Turn(n, k)
      BY <1>1, <2>3 DEF HandedInv, TurnInv
    <3> QED BY <1>1, <1>4, <1>5, <2>1, <3>1 DEF Turn, Busy
  <2> QED BY <2>2, <2>3
<1>12. ASSUME NEW t \in Task
       PROVE  OneNode(t)' /\ \A n \in Node : OneCopy(n, t)'
  <2>1. OneNode(t) /\ \A n \in Node : OneCopy(n, t)
    BY DEF HandedInv, HeldInv
  <2>2. About(None) # t /\ None # Handed(t)
    BY NoMessage, TaskAssumption
  <2>3. \A n \in Node : Trace(n, t)' => Trace(n, t)
    BY <1>1, <1>4, <1>5, <2>2 DEF Trace, Handed, Msg, About
  <2>4. \A n \in Node : OneCopy(n, t)'
    BY <1>1, <1>4, <1>5, <2>1, <2>2 DEF OneCopy, Handed, Msg
  <2>5. ~Queued(queue', t) /\ DOMAIN queue' = {}
    BY <1>1 DEF Queued
  <2>6. ~Leased(leases'[t]) /\ reaper'.found = {}
    BY <1>1, LeaseOps DEF Resting
  <2>7. OneNode(t)'
    BY <1>1, <2>1, <2>3, <2>5, <2>6 DEF OneNode
  <2> QED BY <2>4, <2>7
<1> QED BY <1>6, <1>7, <1>8, <1>9, <1>10, <1>11, <1>12
        DEF HandedInv, TypeOK, TurnInv, OwnInv, HeldInv

(* Steps that touch neither nodes nor connections.                         *)
LEMMA Elsewhere ==
    ASSUME HandedInv, UNCHANGED <<handler, wire, client, link, holding>>
    PROVE  /\ NodeInv'
           /\ \A n \in Node, t \in Task : (Trace(n, t)' <=> Trace(n, t)) /\ OneCopy(n, t)'
<1>1. HandlerType' /\ WireType' /\ ClientType' /\ HoldingType'
  BY DEF HandedInv, TypeOK, HandlerType, WireType, ClientType, HoldingType
<1>2. \A n \in Node : ContentOK(n)'
  BY DEF HandedInv, TypeOK, ContentOK
<1>3. OwnInv'
  BY DEF HandedInv, OwnInv, Own
<1>4. TurnInv'
  <2>1. \A n : Over(n)' = Over(n)
    BY DEF Over
  <2>2. \A n, k : Asks(n, k)' = Asks(n, k)
    BY <2>1 DEF Asks
  <2>3. \A n, k : Turn(n, k)' = Turn(n, k)
    BY <2>2 DEF Turn, Busy
  <2> QED BY <2>1, <2>3 DEF HandedInv, TurnInv
<1>5. ASSUME NEW n \in Node, NEW t \in Task
      PROVE  (Trace(n, t)' <=> Trace(n, t)) /\ OneCopy(n, t)'
  <2>1. Trace(n, t)' <=> Trace(n, t)
    BY DEF Trace, Handed, Msg, About
  <2>2. OneCopy(n, t)
    BY DEF HandedInv, HeldInv
  <2> QED BY <2>1, <2>2 DEF OneCopy, Handed, Msg
<1> QED BY <1>1, <1>2, <1>3, <1>4, <1>5 DEF NodeInv

(* ... and do not add to the queue or the store.                           *)
LEMMA QuietElsewhere ==
    ASSUME HandedInv, UNCHANGED <<handler, wire, client, link, holding>>,
           UNCHANGED <<queue, leases, submitted>>,
           reaper' \in ReaperRecord, reaper'.found \subseteq reaper.found
    PROVE  HandedInv'
<1>1. /\ NodeInv'
      /\ \A n \in Node, t \in Task : (Trace(n, t)' <=> Trace(n, t)) /\ OneCopy(n, t)'
  BY Elsewhere
<1>2. StoreType'
  BY DEF HandedInv, TypeOK, StoreType
<1>3. \A t \in Task : OneNode(t)'
  BY <1>1, HeldFrame DEF HandedInv
<1> QED BY <1>1, <1>2, <1>3 DEF HandedInv, NodeInv, TypeOK, HeldInv

LEMMA SubmitStep ==
    ASSUME HandedInv, NEW t \in Task, Submit(t)
    PROVE  HandedInv'
<1>1. UNCHANGED <<handler, wire, client, link, holding, leases, reaper>>
      /\ t \notin submitted /\ submitted' = submitted \cup {t}
      /\ queue' = StubEnqueue(queue, t)
  BY DEF Submit, network, nodeVars
<1>2. /\ NodeInv'
      /\ \A n \in Node, u \in Task : (Trace(n, u)' <=> Trace(n, u)) /\ OneCopy(n, u)'
  BY <1>1, Elsewhere
<1>3. queue \in Seq(QueueEntry)
  BY DEF HandedInv, TypeOK, StoreType
<1>4. /\ queue' \in Seq(QueueEntry)
      /\ DOMAIN queue' = DOMAIN queue \cup {Len(queue) + 1}
      /\ \A i \in DOMAIN queue : queue'[i] = queue[i]
      /\ queue'[Len(queue) + 1].task_id = t
      /\ Len(queue) + 1 \notin DOMAIN queue
      /\ \A u : u # t /\ Queued(queue', u) => Queued(queue, u)
  <2>1. PICK q \in Seq(QueueEntry) : q = queue
    BY <1>3
  <2>2. /\ StubEnqueue(q, t) \in Seq(QueueEntry)
        /\ DOMAIN StubEnqueue(q, t) = DOMAIN q \cup {Len(q) + 1}
        /\ \A i \in DOMAIN q : StubEnqueue(q, t)[i] = q[i]
        /\ StubEnqueue(q, t)[Len(q) + 1].task_id = t
        /\ Len(q) + 1 \notin DOMAIN q
        /\ \A u : u # t /\ Queued(StubEnqueue(q, t), u) => Queued(q, u)
    BY EnqueueOps
  <2>3. PICK p : p = StubEnqueue(q, t)
    OBVIOUS
  <2>4. queue' = p
    BY <1>1, <2>1, <2>3
  <2> QED BY <2>1, <2>2, <2>3, <2>4
<1>5. StoreType'
  BY <1>1, <1>4 DEF HandedInv, TypeOK, StoreType
<1>6. OneNode(t)'
  <2>1. OneNode(t)
    BY DEF HandedInv, HeldInv
  <2>2. /\ \A n \in Node : ~Trace(n, t)'
        /\ ~Leased(leases[t]) /\ ~Queued(queue, t)
        /\ \A e \in reaper.found : e.task_id # t
    BY <1>1, <1>2, <2>1 DEF OneNode
  <2>3. \A i, j \in DOMAIN queue' : queue'[i].task_id = t /\ queue'[j].task_id = t
                                       => i = j
    BY <1>4, <2>2 DEF Queued
  <2> QED BY <1>1, <2>2, <2>3 DEF OneNode
<1>7. ASSUME NEW u \in Task, u # t
      PROVE  OneNode(u)'
  <2>1. OneNode(u)
    BY DEF HandedInv, HeldInv
  <2>2. \A i, j \in DOMAIN queue' : queue'[i].task_id = u /\ queue'[j].task_id = u
                                       => i = j
    BY <1>4, <1>7, <2>1 DEF OneNode
  <2>3. Queued(queue', u) => Queued(queue, u)
    BY <1>4, <1>7
  <2> QED BY <1>1, <1>2, <2>1, <2>2, <2>3 DEF OneNode
<1> QED BY <1>2, <1>5, <1>6, <1>7 DEF HandedInv, NodeInv, TypeOK, HeldInv

(* The reaper finds leases, whose tasks are not queued, so that its        *)
(* requeues change nothing.                                                *)
LEMMA ReaperStep ==
    ASSUME HandedInv, Reaper
    PROVE  HandedInv'
<1>1. UNCHANGED <<handler, wire, client, link, holding, leases, submitted>>
  BY DEF Reaper, ReaperScan, ReaperLeases, ReaperRequeue, ReaperRemove, ReaperForget,
         ReaperEvict, network, nodeVars, store
<1>2. PICK r \in ReaperRecord : r = reaper
  BY DEF HandedInv, TypeOK, StoreType
<1>3. CASE ReaperScan
  <2>1. UnhealthyNodes \subseteq Node /\ StaleNodes \subseteq Node
    BY DEF UnhealthyNodes, StaleNodes
  <2>2. reaper' \in ReaperRecord /\ reaper'.found = {}
    BY <1>3, <2>1 DEF ReaperScan, Resting, ReaperRecord
  <2>3. UNCHANGED queue
    BY <1>3 DEF ReaperScan, store
  <2> QED BY <1>1, <2>2, <2>3, QuietElsewhere
<1>4. ASSUME NEW e \in reaper.found, ReaperRequeue(e)
      PROVE  HandedInv'
  <2>1. e.task_id \in Task
    BY <1>2 DEF ReaperRecord, QueueEntry
  <2>2. OneNode(e.task_id)
    BY <2>1 DEF HandedInv, HeldInv
  <2>3. ~Queued(queue, e.task_id)
    BY <1>4, <2>2 DEF OneNode
  <2>4. queue' = queue
    BY <1>4, <2>3, RequeueOfDequeued DEF ReaperRequeue
  <2>5. reaper' = [r EXCEPT !.found = r.found \ {e}]
    BY <1>2, <1>4 DEF ReaperRequeue
  <2>6. reaper' \in ReaperRecord /\ reaper'.found \subseteq reaper.found
    BY <1>2, <2>5 DEF ReaperRecord
  <2> QED BY <1>1, <2>4, <2>6, QuietElsewhere
<1>5. ASSUME NEW n \in Node, ReaperLeases(n)
      PROVE  HandedInv'
  <2> DEFINE found == {Entry(t, leases[t].attempt + 1) :
                          t \in {u \in Task : IsActive(leases[u])
                                              /\ leases[u].worker_id = n}}
  <2>1. reaper' = [r EXCEPT !.step = "requeue", !.evicting = n, !.found = found]
        /\ UNCHANGED queue
    BY <1>2, <1>5 DEF ReaperLeases, store
  <2>2. leases \in [Task -> Lease]
    BY DEF HandedInv, TypeOK, StoreType
  <2>3. found \in SUBSET QueueEntry
        /\ \A e \in found : e.task_id \in Task /\ Leased(leases[e.task_id])
    BY <2>2 DEF Entry, QueueEntry, Lease, IsActive, Leased
  <2> HIDE DEF found
  <2>4. reaper' \in ReaperRecord /\ reaper'.found = found
    BY <2>1, <2>3 DEF ReaperRecord
  <2>5. /\ NodeInv'
        /\ \A m \in Node, t \in Task : (Trace(m, t)' <=> Trace(m, t)) /\ OneCopy(m, t)'
    BY <1>1, Elsewhere
  <2>6. StoreType'
    BY <1>1, <2>1, <2>4 DEF HandedInv, TypeOK, StoreType
  <2>7. ASSUME NEW t \in Task
        PROVE  OneNode(t)'
    <3>1. OneNode(t)
      BY DEF HandedInv, HeldInv
    <3>2. \A e \in found : e.task_id = t => t \in submitted /\ ~Queued(queue, t)
      BY <2>3, <3>1 DEF OneNode
    <3>3. queue' = queue /\ leases' = leases /\ submitted' = submitted
          /\ reaper'.found = found
      BY <1>1, <2>1, <2>4
    <3> QED BY <2>5, <3>1, <3>2, <3>3 DEF OneNode
  <2> QED BY <2>5, <2>6, <2>7 DEF HandedInv, NodeInv, TypeOK, HeldInv
<1>6. ASSUME NEW n \in Node, ReaperRemove(n) \/ ReaperForget(n) \/ ReaperEvict(n)
      PROVE  HandedInv'
  <2>1. UNCHANGED queue
    BY <1>6 DEF ReaperRemove, ReaperForget, ReaperEvict, store
  <2>2. \/ reaper' = [r EXCEPT !.step = "forget"]
        \/ reaper' = [r EXCEPT !.step = "evict"]
        \/ reaper' = [r EXCEPT !.todo = r.todo \ {n}, !.step = "next",
                               !.evicting = "none"]
    BY <1>2, <1>6 DEF ReaperRemove, ReaperForget, ReaperEvict
  <2>3. reaper' \in ReaperRecord /\ reaper'.found = r.found
    BY <2>2 DEF ReaperRecord
  <2> QED BY <1>1, <1>2, <2>1, <2>3, QuietElsewhere
<1> QED BY <1>3, <1>4, <1>5, <1>6 DEF Reaper

LEMMA InitHanded ==
    ASSUME Init
    PROVE  HandedInv
<1>1. Unused \in HandlerRecord /\ Unused.pc = "unused" /\ Unused.job = None
  BY NoMessage DEF Unused, HandlerRecord
<1>2. Quiet \in WireRecord /\ Quiet.request = None /\ Quiet.reply = None
      /\ Quiet.client = "ok"
  BY NoMessage DEF Quiet, WireRecord, End
<1>3. [pc |-> "off", req |-> None] \in ClientRecord
  BY NoMessage DEF ClientRecord
<1>4. /\ \A n \in Node, k \in Conn : handler[n][k] = Unused /\ wire[n][k] = Quiet
      /\ \A n \in Node : client[n] = [pc |-> "off", req |-> None] /\ link[n] = 0
                         /\ holding[n] = NotHolding
  BY DEF Init
<1>5. HandlerType /\ WireType
  BY <1>1, <1>2 DEF Init, HandlerType, WireType
<1>6. ClientType /\ HoldingType
  BY <1>3, NothingHeld DEF Init, ClientType, HoldingType
<1>7. StoreType
  <2>1. Resting \in ReaperRecord
    BY DEF Resting, ReaperRecord
  <2> QED BY <2>1, LeaseOps DEF Init, StoreType
<1>8. \A n \in Node : ContentOK(n)
  BY <1>1, <1>2, <1>4, NoMessage DEF ContentOK
<1>9. TurnInv
  BY <1>1, <1>2, <1>4 DEF TurnInv, Turn, Busy
<1>10. OwnInv
  <2>1. None.kind \notin OfTask
    BY NoMessage DEF OfTask
  <2> QED BY <1>1, <1>2, <1>4, <2>1, NoMessage, NothingHeld DEF OwnInv, Own, OfTask
<1>11. ASSUME NEW t \in Task
       PROVE  OneNode(t) /\ \A n \in Node : OneCopy(n, t)
  <2>1. \A n \in Node : ~Trace(n, t)
    BY <1>1, <1>2, <1>4, NoMessage, NothingHeld, TaskAssumption DEF Trace
  <2>2. ~Queued(queue, t) /\ DOMAIN queue = {}
    BY DEF Init, Queued
  <2>3. ~Leased(leases[t]) /\ reaper.found = {}
    BY LeaseOps DEF Init, Resting
  <2>4. OneNode(t)
    BY <2>1, <2>2, <2>3 DEF OneNode
  <2>5. \A n \in Node : OneCopy(n, t)
    BY <1>1, <1>2, <1>4, NoMessage DEF OneCopy
  <2> QED BY <2>4, <2>5
<1> QED BY <1>5, <1>6, <1>7, <1>8, <1>9, <1>10, <1>11 DEF HandedInv, TypeOK, HeldInv

LEMMA NextHanded ==
    ASSUME HandedInv, [Next]_vars
    PROVE  HandedInv'
<1>1. reaper \in ReaperRecord
  BY DEF HandedInv, TypeOK, StoreType
<1>2. ASSUME NEW n \in Node, Client(n)
      PROVE  HandedInv'
  <2>1. CASE Join(n)
    <3>1. 1 \in Conn
      BY BoundAssumption DEF Conn
    <3> QED BY <2>1, <3>1, OpensStep DEF Join
  <2>2. ASSUME NEW k \in Conn, Connect(n, k)
        PROVE  HandedInv'
    BY <2>2, OpensStep DEF Connect
  <2> QED BY <1>2, <2>1, <2>2, ReceiveStep, ReceiveEndStep, NotConnectedStep DEF Client
<1>3. ASSUME NEW n \in Node, Late(n)
      PROVE  HandedInv'
  BY <1>1, <1>3, QuietElsewhere DEF Late, store, network, nodeVars
<1>4. CASE Monitor
  <2>1. UNCHANGED <<handler, wire, client, link, holding, queue, leases, submitted, reaper>>
    BY <1>4 DEF Monitor, ProbeAll, ProbeSuccess, ProbeFailure, CountFailure, store,
                network, nodeVars
  <2> QED BY <1>1, <2>1, QuietElsewhere
<1>5. CASE UNCHANGED vars
  BY <1>1, <1>5, QuietElsewhere DEF vars
<1> QED BY <1>2, <1>3, <1>4, <1>5, SendStep, CrashStep, BreakStep, GarbleStep, HandlerStep,
           SubmitStep, RestartStep, ReaperStep DEF Next

(* HandedInv holds in every reachable state, whatever breaks or restarts.  *)
THEOREM HandedInvariance == Spec => []HandedInv
<1>1. Init => HandedInv
  BY InitHanded
<1>2. HandedInv /\ [Next]_vars => HandedInv'
  BY NextHanded
<1> QED BY <1>1, <1>2, PTL DEF Spec

(* NodeConnection::request never returns the answer to another request:    *)
(* it holds the mutex from the send to the answer, and requests that were  *)
(* given up were on connections that no longer work.                       *)
THEOREM AnswersMatch == Spec => []RepliesMatch
<1>1. HandedInv => RepliesMatch
  BY DEF HandedInv, TurnInv, Turn, RepliesMatch
<1> QED BY <1>1, HandedInvariance, PTL

(* The tasks that the queue, replies and nodes have are in one place each. *)
LEMMA OnePlaceEach ==
    ASSUME HandedInv, NEW t \in Task
    PROVE  Cardinality(Places(t)) <= 1
<1>1. OneNode(t) /\ \A n \in Node : OneCopy(n, t)
  BY DEF HandedInv, HeldInv
<1>2. ASSUME NEW p \in Places(t)
      PROVE  \/ \E i \in DOMAIN queue : p = <<"queue", i>> /\ queue[i].task_id = t
             \/ \E n \in Node, k \in Conn :
                   p = <<"handler", <<n, k>>>> /\ handler[n][k].job = Handed(t)
             \/ \E n \in Node, k \in Conn :
                   p = <<"reply", <<n, k>>>> /\ wire[n][k].reply = Handed(t)
             \/ \E n \in Node : p = <<"node", n>> /\ holding[n].task = t
  BY <1>2 DEF Places
<1>3. \A n \in Node : Trace(n, t) =>
         ~Queued(queue, t) /\ \A m \in Node : Trace(m, t) => m = n
  BY <1>1 DEF OneNode
<1>4. ASSUME NEW p \in Places(t), NEW q \in Places(t)
      PROVE  p = q
  <2>1. CASE Queued(queue, t)
    <3>1. \A n \in Node : ~Trace(n, t)
      BY <1>3, <2>1
    <3>2. PICK i \in DOMAIN queue : p = <<"queue", i>> /\ queue[i].task_id = t
      BY <1>2, <3>1 DEF Trace
    <3>3. PICK j \in DOMAIN queue : q = <<"queue", j>> /\ queue[j].task_id = t
      BY <1>2, <3>1 DEF Trace
    <3> QED BY <1>1, <3>2, <3>3 DEF OneNode
  <2>2. CASE ~Queued(queue, t)
    <3> DEFINE At(x, n) ==
           \/ \E k \in Conn : x = <<"handler", <<n, k>>>> /\ handler[n][k].job = Handed(t)
           \/ \E k \in Conn : x = <<"reply", <<n, k>>>> /\ wire[n][k].reply = Handed(t)
           \/ x = <<"node", n>> /\ holding[n].task = t
    <3>1. \A x \in Places(t) : \E n \in Node : At(x, n)
      BY <1>2, <2>2 DEF Queued
    <3>2. PICK n \in Node : At(p, n)
      BY <3>1
    <3>3. PICK m \in Node : At(q, m)
      BY <3>1
    <3>4. Trace(n, t) /\ Trace(m, t)
      BY <3>2, <3>3 DEF Trace
    <3>5. m = n /\ OneCopy(n, t)
      BY <1>1, <1>3, <3>4
    <3> QED BY <3>2, <3>3, <3>5 DEF OneCopy
  <2> QED BY <2>1, <2>2
<1>5. CASE Places(t) = {}
  BY <1>5, FS_EmptySet
<1>6. CASE Places(t) # {}
  <2>1. PICK p : p \in Places(t)
    BY <1>6
  <2>2. Places(t) = {p}
    BY <1>4, <2>1
  <2>3. Cardinality({p}) = 1
    BY FS_Singleton, Zenon
  <2> QED BY <2>2, <2>3
<1> QED BY <1>5, <1>6

(* A task is handed to one node only, and its lease names that node, with  *)
(* any number of nodes that crash, connections that break and coordinators *)
(* that restart.                                                           *)
THEOREM OneNodePerTask == Spec => []HeldByOne
<1>1. ASSUME HandedInv
      PROVE  HeldByOne
  <2>1. ASSUME NEW t \in Task, NEW n \in Node, holding[n].task = t, Leased(leases[t])
        PROVE  leases[t].worker_id = n
    BY <1>1, <2>1 DEF HandedInv, HeldInv, OneNode, Trace
  <2> QED BY <1>1, <2>1, OnePlaceEach DEF HeldByOne
<1> QED BY <1>1, HandedInvariance, PTL

-----------------------------------------------------------------------------
(* Old connections and new ones.                                           *)

(* Whoever has seen the clean end of a connection has seen the end of its  *)
(* handler.                                                                *)
CleanEnds ==
    \A n \in Node, k \in Conn :
        wire[n][k].client = "eof" => handler[n][k].pc = "ended"

(* Steps of connection k of node n: a handler at work has a stream that    *)
(* did not end cleanly, and ends before its stream does.                   *)
OneConnection(n, k) ==
    \A m \in Node, j \in Conn : m # n \/ j # k =>
        wire'[m][j] = wire[m][j] /\ handler'[m][j] = handler[m][j]
EndsFirst(n, k) ==
    /\ handler[n][k].pc # "ended"
    /\ handler'[n][k].pc # "ended" => wire'[n][k].client = wire[n][k].client

LEMMA CleanFrame ==
    ASSUME CleanEnds, NEW n \in Node, NEW k \in Conn, OneConnection(n, k),
           EndsFirst(n, k)
    PROVE  CleanEnds'
BY DEF CleanEnds, OneConnection, EndsFirst

(* Steps that leave the handlers and what the nodes see of their           *)
(* connections alone.                                                      *)
LEMMA CleanKept ==
    ASSUME CleanEnds, UNCHANGED handler,
           \A n \in Node, k \in Conn : wire'[n][k].client = wire[n][k].client
    PROVE  CleanEnds'
BY DEF CleanEnds

(* A handler that goes on to another step of its loop.                     *)
LEMMA WorkClean ==
    ASSUME HandedInv, CleanEnds, NEW n \in Node, NEW k \in Conn,
           handler[n][k].pc # "ended", wire'[n][k].client = wire[n][k].client,
           \A m \in Node, j \in Conn : m # n \/ j # k =>
               wire'[m][j] = wire[m][j] /\ handler'[m][j] = handler[m][j]
    PROVE  CleanEnds'
BY CleanFrame DEF OneConnection, EndsFirst

(* A handler that drops its stream has ended.                              *)
LEMMA EndedClean ==
    ASSUME HandedInv, CleanEnds, NEW n \in Node, NEW k \in Conn, Ended(n, k),
           handler[n][k].pc # "ended"
    PROVE  CleanEnds'
<1>1. HandlerAt(n, k, [pc |-> "ended", registered |-> handler[n][k].registered,
                       job |-> handler[n][k].job])
  BY SetsPc DEF Ended, HandedInv, TypeOK
<1>2. \A m \in Node, j \in Conn : m # n \/ j # k => wire'[m][j] = wire[m][j]
  <2>1. CASE wire[n][k].client = "ok"
    <3>1. PICK end \in ClientSees :
              wire' = [wire EXCEPT ![n][k].client = end, ![n][k].request = None]
      BY <2>1 DEF Ended
    <3>2. end \in End
      BY EndAssumption DEF End
    <3>3. WireAt(n, k, [request |-> None, reply |-> wire[n][k].reply,
                        server |-> wire[n][k].server, client |-> end])
      BY <3>1, <3>2, NoMessage, SetsClient DEF HandedInv, TypeOK
    <3> QED BY <3>3 DEF WireAt
  <2>2. CASE wire[n][k].client # "ok"
    BY <2>2 DEF Ended
  <2> QED BY <2>1, <2>2
<1>3. OneConnection(n, k) /\ EndsFirst(n, k)
  BY <1>1, <1>2 DEF HandlerAt, OneConnection, EndsFirst
<1> QED BY <1>3, CleanFrame

(* What becomes of the handler's record.                                   *)
SetsTo(n, k, p, msg) ==
    handler' = [handler EXCEPT ![n][k].pc = p, ![n][k].job = msg]

LEMMA JobFields ==
    ASSUME HandlerType, NEW n \in Node, NEW k \in Conn, NEW p, NEW msg,
           SetsTo(n, k, p, msg)
    PROVE  /\ handler'[n][k].pc = p /\ handler'[n][k].job = msg
           /\ handler'[n][k].registered = handler[n][k].registered
           /\ \A m \in Node, j \in Conn :
                 m # n \/ j # k => handler'[m][j] = handler[m][j]
<1>1. handler \in [Node -> [Conn -> HandlerRecord]]
  BY DEF HandlerType
<1>2. handler' = [handler EXCEPT ![n][k] = [handler[n][k] EXCEPT !.pc = p, !.job = msg]]
  BY <1>1 DEF SetsTo
<1>3. PICK h : h = [handler[n][k] EXCEPT !.pc = p, !.job = msg]
  OBVIOUS
<1>4. handler' = [handler EXCEPT ![n][k] = h]
  BY <1>2, <1>3
<1>5. handler'[n][k] = h /\ \A m \in Node, j \in Conn :
                 m # n \/ j # k => handler'[m][j] = handler[m][j]
  <2>1. PICK f : f = [handler[n] EXCEPT ![k] = h]
    OBVIOUS
  <2>2. f[k] = h /\ \A j \in Conn : j # k => f[j] = handler[n][j]
    BY <1>1, <2>1
  <2>3. handler' = [handler EXCEPT ![n] = f]
    BY <1>4, <2>1
  <2>4. handler'[n] = f /\ \A m \in Node : m # n => handler'[m] = handler[m]
    BY <1>1, <2>3
  <2> QED BY <2>2, <2>4
<1>6. handler[n][k] \in HandlerRecord
  BY <1>1
<1>7. h.pc = p /\ h.job = msg /\ h.registered = handler[n][k].registered
  BY <1>3, <1>6 DEF HandlerRecord
<1> QED BY <1>5, <1>7

(* A request that is taken, and the answer that is made.                   *)
LEMMA TakesClean ==
    ASSUME HandedInv, CleanEnds, NEW n \in Node, NEW k \in Conn, NEW kind,
           Takes(n, k, kind),
           \A m \in Node, j \in Conn :
               m # n \/ j # k => handler'[m][j] = handler[m][j]
    PROVE  CleanEnds'
<1>1. WireAt(n, k, [request |-> None, reply |-> wire[n][k].reply,
                    server |-> wire[n][k].server, client |-> wire[n][k].client])
  BY NoMessage, SetsRequest DEF Takes, HandedInv, TypeOK
<1>2. /\ wire'[n][k].client = wire[n][k].client
      /\ \A m \in Node, j \in Conn : m # n \/ j # k => wire'[m][j] = wire[m][j]
  BY <1>1 DEF WireAt
<1>3. handler[n][k].pc # "ended"
  BY DEF Takes
<1> QED BY <1>2, <1>3, WorkClean

LEMMA SetsClean ==
    ASSUME HandedInv, CleanEnds, NEW n \in Node, NEW k \in Conn, NEW kind,
           NEW p, NEW msg, Takes(n, k, kind), SetsTo(n, k, p, msg)
    PROVE  CleanEnds'
<1>1. \A m \in Node, j \in Conn : m # n \/ j # k => handler'[m][j] = handler[m][j]
  BY JobFields DEF HandedInv, TypeOK
<1> QED BY <1>1, TakesClean

LEMMA HandlerClean ==
    ASSUME HandedInv, CleanEnds, NEW n \in Node, NEW k \in Conn, Handler(n, k)
    PROVE  CleanEnds'
<1>1. CASE HandleRegister(n, k)
  <2>1. PICK h : handler' = [handler EXCEPT ![n][k] = h]
    BY <1>1 DEF HandleRegister
  <2>2. \A m \in Node, j \in Conn : m # n \/ j # k => handler'[m][j] = handler[m][j]
    BY <2>1 DEF HandedInv, TypeOK, HandlerType
  <2>3. Takes(n, k, "RegisterNode")
    BY <1>1 DEF HandleRegister
  <2> QED BY <2>2, <2>3, TakesClean
<1>2. CASE \/ HandleHeartbeat(n, k) \/ HandleDequeue(n, k) \/ HandleInsertLease(n, k)
           \/ HandleGetLease(n, k) \/ HandleUpdateLease(n, k) \/ HandleRemoveLease(n, k)
           \/ HandleRequeue(n, k) \/ HandleDiscard(n, k) \/ HandleRead(n, k)
  <2>1. PICK kind, msg : Takes(n, k, kind) /\ Replies(n, k, msg)
    <3>1. CASE HandleHeartbeat(n, k) \/ HandleDequeue(n, k) \/ HandleRead(n, k)
      BY <3>1 DEF HandleHeartbeat, HandleDequeue, HandleRead
    <3>2. CASE HandleInsertLease(n, k)
      BY <3>2 DEF HandleInsertLease
    <3>3. CASE HandleGetLease(n, k)
      BY <3>3 DEF HandleGetLease
    <3>4. CASE HandleUpdateLease(n, k)
      BY <3>4 DEF HandleUpdateLease
    <3>5. CASE HandleRemoveLease(n, k)
      BY <3>5 DEF HandleRemoveLease
    <3>6. CASE HandleRequeue(n, k)
      BY <3>6 DEF HandleRequeue
    <3>7. CASE HandleDiscard(n, k)
      BY <3>7 DEF HandleDiscard
    <3> QED BY <1>2, <3>1, <3>2, <3>3, <3>4, <3>5, <3>6, <3>7
  <2>2. SetsTo(n, k, "reply", msg)
    BY <2>1 DEF Replies, SetsTo
  <2> QED BY <2>1, <2>2, SetsClean
<1>3. CASE HandleAnnounce(n, k)
  <2>1. PICK msg : msg = wire[n][k].request
    OBVIOUS
  <2>2. PICK p \in {"reply", "announce"} : SetsTo(n, k, p, msg)
    BY <1>3, <2>1 DEF HandleAnnounce, Replies, SetsTo
  <2>3. Takes(n, k, "AnnounceCache")
    BY <1>3 DEF HandleAnnounce
  <2> QED BY <2>2, <2>3, SetsClean
<1>4. CASE Announce(n, k)
  <2>1. handler[n][k].pc # "ended" /\ UNCHANGED wire
    BY <1>4 DEF Announce
  <2>2. HandlerAt(n, k, [pc |-> "reply", registered |-> handler[n][k].registered,
                         job |-> handler[n][k].job])
    BY <1>4, SetsPc DEF Announce, HandedInv, TypeOK
  <2> QED BY <2>1, <2>2, WorkClean DEF HandlerAt
<1>5. CASE SendReply(n, k)
  <2>1. handler[n][k].pc # "ended"
    BY <1>5 DEF SendReply
  <2>2. \A m \in Node, j \in Conn : m # n \/ j # k => handler'[m][j] = handler[m][j]
    <3>1. SetsTo(n, k, "receive", None)
      BY <1>5 DEF SendReply, SetsTo
    <3> QED BY <3>1, JobFields DEF HandedInv, TypeOK
  <2>3. /\ wire'[n][k].client = wire[n][k].client
        /\ \A m \in Node, j \in Conn : m # n \/ j # k => wire'[m][j] = wire[m][j]
    <3>1. CASE wire[n][k].client = "ok" /\ Alive(n)
      <4>1. handler[n][k].job \in Message
        BY DEF HandedInv, TypeOK, HandlerType, HandlerRecord
      <4>2. wire' = [wire EXCEPT ![n][k].reply = handler[n][k].job]
        BY <1>5, <3>1 DEF SendReply
      <4>3. WireAt(n, k, [request |-> wire[n][k].request, reply |-> handler[n][k].job,
                          server |-> wire[n][k].server, client |-> wire[n][k].client])
        BY <4>1, <4>2, SetsReply DEF HandedInv, TypeOK
      <4> QED BY <4>3 DEF WireAt
    <3>2. CASE ~(wire[n][k].client = "ok" /\ Alive(n))
      BY <1>5, <3>2 DEF SendReply
    <3> QED BY <3>1, <3>2
  <2> QED BY <2>1, <2>2, <2>3, WorkClean
<1>6. CASE SendFails(n, k)
  BY <1>6, EndedClean DEF SendFails
<1>7. CASE HandleEnd(n, k)
  <2>1. handler[n][k].pc # "ended"
    BY <1>7 DEF HandleEnd
  <2>2. CASE ~handler[n][k].registered
    BY <1>7, <2>1, <2>2, EndedClean DEF HandleEnd
  <2>3. CASE handler[n][k].registered
    <3>1. UNCHANGED wire /\ handler' = [handler EXCEPT ![n][k].pc = "evict"]
      BY <1>7, <2>3 DEF HandleEnd
    <3>2. HandlerAt(n, k, [pc |-> "evict", registered |-> handler[n][k].registered,
                           job |-> handler[n][k].job])
      BY <3>1, SetsPc DEF HandedInv, TypeOK
    <3> QED BY <2>1, <3>1, <3>2, WorkClean DEF HandlerAt
  <2> QED BY <2>2, <2>3
<1>8. CASE HandleEvict(n, k)
  BY <1>8, EndedClean DEF HandleEvict
<1> QED BY <1>1, <1>2, <1>3, <1>4, <1>5, <1>6, <1>7, <1>8 DEF Handler

(* A new connection is one that nothing has happened to.                   *)
LEMMA OpensClean ==
    ASSUME HandedInv, CleanEnds, NEW n \in Node, NEW k \in Conn, Opens(n, k)
    PROVE  CleanEnds'
<1>1. Msg("RegisterNode", k) \in Message
  BY DEF Msg, Message, MsgKind
<1>2. HandlerAt(n, k, [pc |-> "receive", registered |-> handler[n][k].registered,
                       job |-> handler[n][k].job])
  BY SetsPc DEF Opens, HandedInv, TypeOK
<1>3. WireAt(n, k, [request |-> Msg("RegisterNode", k), reply |-> wire[n][k].reply,
                    server |-> wire[n][k].server, client |-> wire[n][k].client])
  BY <1>1, SetsRequest DEF Opens, HandedInv, TypeOK
<1>4. handler[n][k].pc # "ended"
  BY DEF Opens
<1> QED BY <1>2, <1>3, <1>4, WorkClean DEF HandlerAt, WireAt

(* What a node does on its connections.                                    *)
LEMMA NodeClean ==
    ASSUME HandedInv, CleanEnds, NEW n \in Node,
           \/ Client(n)
           \/ \E req \in Wanted(n) : Send(n, req)
           \/ Crash(n)
    PROVE  CleanEnds'
<1>1. CASE Join(n)
  <2>1. 1 \in Conn
    BY BoundAssumption DEF Conn
  <2> QED BY <1>1, <2>1, OpensClean DEF Join
<1>2. ASSUME NEW k \in Conn, Connect(n, k)
      PROVE  CleanEnds'
  BY <1>2, OpensClean DEF Connect
<1>3. CASE Receive(n)
  <2>1. PICK k \in Conn : k = Over(n)
    BY <1>3 DEF Receive, HandedInv, TurnInv
  <2>2. wire' = [wire EXCEPT ![n][k].reply = None] /\ UNCHANGED handler
    BY <1>3, <2>1 DEF Receive
  <2>3. WireAt(n, k, [request |-> wire[n][k].request, reply |-> None,
                      server |-> wire[n][k].server, client |-> wire[n][k].client])
    BY <2>2, NoMessage, SetsReply DEF HandedInv, TypeOK
  <2>4. \A m \in Node, j \in Conn : wire'[m][j].client = wire[m][j].client
    BY <2>3 DEF WireAt
  <2> QED BY <2>2, <2>4, CleanKept
<1>4. CASE ReceiveEnd(n) \/ NotConnected(n)
  BY <1>4, CleanKept DEF ReceiveEnd, EndsWith, NotConnected, network
<1>5. ASSUME NEW req \in Wanted(n), Send(n, req)
      PROVE  CleanEnds'
  <2>1. link[n] # 0 /\ Sends(n, req) /\ UNCHANGED handler
    BY <1>5 DEF Send, Sends
  <2>2. PICK k \in Conn : k = link[n]
    BY <2>1 DEF HandedInv, TypeOK, ClientType
  <2>3. req \in Message
    BY WantedOps
  <2>4. \A m \in Node, j \in Conn : wire'[m][j].client = wire[m][j].client
    <3>1. CASE wire[n][k].client = "ok"
      <4>1. wire' = [wire EXCEPT ![n][k].request = req]
        BY <2>1, <2>2, <3>1 DEF Sends
      <4>2. WireAt(n, k, [request |-> req, reply |-> wire[n][k].reply,
                          server |-> wire[n][k].server, client |-> wire[n][k].client])
        BY <2>3, <4>1, SetsRequest DEF HandedInv, TypeOK
      <4> QED BY <4>2 DEF WireAt
    <3>2. CASE wire[n][k].client # "ok"
      BY <2>1, <2>2, <3>2 DEF Sends
    <3> QED BY <3>1, <3>2
  <2> QED BY <2>1, <2>4, CleanKept
<1>6. CASE Crash(n)
  <2>1. PICK end \in ServerSees :
            wire' = [wire EXCEPT ![n] =
                        [k \in Conn |-> [wire[n][k] EXCEPT !.server = end]]]
    BY <1>6 DEF Crash
  <2>2. wire \in [Node -> [Conn -> WireRecord]]
    BY DEF HandedInv, TypeOK, WireType
  <2>3. ASSUME NEW m \in Node, NEW j \in Conn
        PROVE  wire'[m][j].client = wire[m][j].client
    <3>1. PICK r \in WireRecord : r = wire[m][j]
      BY <2>2
    <3>2. [r EXCEPT !.server = end].client = r.client
      BY DEF WireRecord
    <3>3. CASE m = n
      BY <2>1, <2>2, <3>1, <3>2, <3>3
    <3>4. CASE m # n
      BY <2>1, <2>2, <3>4
    <3> QED BY <3>3, <3>4
  <2>4. UNCHANGED handler
    BY <1>6 DEF Crash
  <2> QED BY <2>3, <2>4, CleanKept
<1> QED BY <1>1, <1>2, <1>3, <1>4, <1>5, <1>6 DEF Client

(* A network that breaks a connection ends it for neither side cleanly.    *)
LEMMA BreakClean ==
    ASSUME HandedInv, CleanEnds, NEW n \in Node, NEW k \in Conn, Break(n, k)
    PROVE  CleanEnds'
<1>1. UNCHANGED handler
  BY DEF Break
<1>2. PICK s \in ServerSees \ {"eof"}, c \in ClientSees \ {"eof"} :
          wire' = [wire EXCEPT ![n][k] = [request |-> None, reply |-> None,
                                          server |-> s, client |-> c]]
  BY DEF Break
<1> DEFINE w == [request |-> None, reply |-> None, server |-> s, client |-> c]
<1>3. w \in WireRecord /\ w.client # "eof"
  BY EndAssumption, NoMessage DEF WireRecord, End
<1>4. wire' = [wire EXCEPT ![n][k] = w]
  BY <1>2
<1> HIDE DEF w
<1>5. WireAt(n, k, w)
  BY <1>3, <1>4, SetsWire DEF HandedInv, TypeOK
<1>6. \A m \in Node, j \in Conn :
         wire'[m][j].client = wire[m][j].client \/ wire'[m][j].client # "eof"
  BY <1>3, <1>5 DEF WireAt
<1> QED BY <1>1, <1>6 DEF CleanEnds

LEMMA GarbleClean ==
    ASSUME HandedInv, CleanEnds, NEW n \in Node, NEW k \in Conn, Garble(n, k)
    PROVE  CleanEnds'
<1>1. WireAt(n, k, [request |-> None, reply |-> wire[n][k].reply,
                    server |-> "err", client |-> wire[n][k].client])
  BY NoMessage, Garbles DEF Garble, HandedInv, TypeOK
<1>2. \A m \in Node, j \in Conn : wire'[m][j].client = wire[m][j].client
  BY <1>1 DEF WireAt
<1>3. UNCHANGED handler
  BY DEF Garble
<1> QED BY <1>2, <1>3, CleanKept

(* A restart ends every handler and takes its stream along.                *)
LEMMA RestartClean ==
    ASSUME HandedInv, CleanEnds, Restart
    PROVE  CleanEnds'
<1> SUFFICES ASSUME NEW n \in Node, NEW k \in Conn, wire'[n][k].client = "eof"
             PROVE  handler'[n][k].pc = "ended"
  BY DEF CleanEnds
<1>1. PICK end \in ClientSees :
         wire' = [m \in Node |-> [j \in Conn |->
                      [wire[m][j] EXCEPT
                          !.request = None,
                          !.client = IF @ = "ok" /\ handler[m][j].pc # "unused"
                                     THEN end ELSE @]]]
  BY DEF Restart
<1>2. PICK r \in WireRecord : r = wire[n][k]
  BY DEF HandedInv, TypeOK, WireType
<1>3. PICK c : c = IF r.client = "ok" /\ handler[n][k].pc # "unused"
                   THEN end ELSE r.client
  OBVIOUS
<1>4. wire'[n][k] = [r EXCEPT !.request = None, !.client = c]
  BY <1>1, <1>2, <1>3
<1>5. wire'[n][k].client = c
  BY <1>2, <1>4 DEF WireRecord
<1>6. handler[n][k].pc # "unused"
  BY <1>2, <1>3, <1>5 DEF CleanEnds
<1>7. handler'[n][k] = [Unused EXCEPT !.pc = "ended"]
  BY <1>6 DEF Restart
<1>8. PICK u \in HandlerRecord : u = Unused
  BY NoMessage DEF Unused, HandlerRecord
<1>9. [u EXCEPT !.pc = "ended"].pc = "ended"
  BY <1>8 DEF HandlerRecord
<1> QED BY <1>7, <1>8, <1>9

LEMMA NextClean ==
    ASSUME HandedInv, CleanEnds, [Next]_vars
    PROVE  CleanEnds'
<1>1. ASSUME UNCHANGED <<handler, wire>>
      PROVE  CleanEnds'
  BY <1>1, CleanKept
<1>2. ASSUME NEW n \in Node, Late(n)
      PROVE  CleanEnds'
  BY <1>1, <1>2 DEF Late, network
<1>3. ASSUME NEW t \in Task, Submit(t)
      PROVE  CleanEnds'
  BY <1>1, <1>3 DEF Submit, network
<1>4. CASE Reaper
  BY <1>1, <1>4 DEF Reaper, ReaperScan, ReaperLeases, ReaperRequeue, ReaperRemove,
                    ReaperForget, ReaperEvict, network
<1>5. CASE Monitor
  BY <1>1, <1>5 DEF Monitor, ProbeAll, ProbeSuccess, ProbeFailure, CountFailure, network
<1>6. CASE UNCHANGED vars
  BY <1>1, <1>6 DEF vars
<1> QED BY <1>2, <1>3, <1>4, <1>5, <1>6, NodeClean, HandlerClean, BreakClean, GarbleClean,
           RestartClean DEF Next

(* CleanEnds holds in every reachable state.                               *)
THEOREM CleanInvariance == Spec => []CleanEnds
<1>1. Init => CleanEnds
  <2> SUFFICES ASSUME Init, NEW n \in Node, NEW k \in Conn
               PROVE  wire[n][k].client # "eof"
    BY DEF CleanEnds
  <2>1. wire[n][k] = Quiet
    BY DEF Init
  <2> QED BY <2>1 DEF Quiet
<1>2. HandedInv /\ CleanEnds /\ [Next]_vars => CleanEnds'
  BY NextClean
<1> QED BY <1>1, <1>2, HandedInvariance, PTL DEF Spec

(* With any nodes and faults, late heartbeats and failing probes: a node   *)
(* leaves the registry by the reaper, by a restart of the coordinator, or  *)
(* by the end of a connection whose clean end it has not seen.  A node     *)
(* that comes back after a clean end (connection.rs) is never deregistered *)
(* by the handler of the connection it left behind (server.rs).            *)
THEOREM OldEndIsHarmless == Spec => OldEndSparesNew
<1> DEFINE Cause(n) ==
        \/ ReaperRemove(n)
        \/ Restart
        \/ \E k \in Conn : /\ handler'[n][k] # handler[n][k]
                           /\ wire[n][k].client # "eof"
<1>1. HandedInv /\ CleanEnds /\ [Next]_vars => [\A n \in nodes \ nodes' : Cause(n)]_vars
  <2> SUFFICES ASSUME HandedInv, CleanEnds, Next, ~Restart,
                      NEW n \in nodes \ nodes'
               PROVE  Cause(n)
    BY DEF vars
  <2>1. ASSUME NEW m \in Node, NEW k \in Conn, HandleEnd(m, k)
        PROVE  Cause(n)
    <3>1. handler[m][k].pc = "receive" /\ handler[m][k].registered
      BY <2>1 DEF HandleEnd, registry
    <3>2. n = m /\ handler' = [handler EXCEPT ![m][k].pc = "evict"]
      BY <2>1, <3>1 DEF HandleEnd, Remove
    <3>3. handler'[m][k].pc = "evict"
      <4>1. HandlerAt(m, k, [pc |-> "evict", registered |-> handler[m][k].registered,
                             job |-> handler[m][k].job])
        BY <3>2, SetsPc DEF HandedInv, TypeOK
      <4> QED BY <4>1 DEF HandlerAt
    <3>4. wire[m][k].client # "eof"
      BY <3>1 DEF CleanEnds
    <3> QED BY <3>1, <3>2, <3>3, <3>4
  <2>2. ASSUME NEW m \in Node, NEW k \in Conn, Handler(m, k), ~HandleEnd(m, k)
        PROVE  FALSE
    BY <2>2 DEF Handler, HandleRegister, Register, HandleHeartbeat, HandleDequeue,
                HandleInsertLease, HandleGetLease, HandleUpdateLease, HandleRemoveLease,
                HandleRequeue, HandleDiscard, HandleRead, HandleAnnounce, Announce,
                SendReply, SendFails, HandleEvict, registry
  <2>3. ASSUME NEW m \in Node,
               Client(m) \/ (\E req \in Wanted(m) : Send(m, req)) \/ Crash(m) \/ Late(m)
        PROVE  FALSE
    BY <2>3 DEF Client, Join, Connect, Opens, Receive, ReceiveEnd, EndsWith,
                NotConnected, Send, Sends, Crash, Late, registry
  <2>4. ASSUME NEW m \in Node, NEW k \in Conn, Break(m, k) \/ Garble(m, k)
        PROVE  FALSE
    BY <2>4 DEF Break, Garble, registry
  <2>5. ASSUME NEW t \in Task, Submit(t)
        PROVE  FALSE
    BY <2>5 DEF Submit, registry
  <2>6. CASE Monitor
    BY <2>6 DEF Monitor, ProbeAll, ProbeSuccess, ProbeFailure, CountFailure, registry
  <2>7. CASE Reaper
    <3>1. ASSUME NEW m \in Node, ReaperRemove(m)
          PROVE  ReaperRemove(n)
      <4>1. n = m
        BY <3>1 DEF ReaperRemove
      <4> QED BY <3>1, <4>1
    <3> QED BY <2>7, <3>1 DEF Reaper, ReaperScan, ReaperLeases, ReaperRequeue,
                              ReaperForget, ReaperEvict, registry
  <2> QED BY <2>1, <2>2, <2>3, <2>4, <2>5, <2>6, <2>7 DEF Next
<1> QED BY <1>1, HandedInvariance, CleanInvariance, PTL DEF Spec, OldEndSparesNew

=============================================================================
