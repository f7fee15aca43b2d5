---------------------------- MODULE ControlPlane ----------------------------
(***************************************************************************)
(* The control plane of backend_agent_api/gateway_server.py, for one       *)
(* channel: channels share nothing but metrics, and the counters,          *)
(* timestamps and active_sessions that only get_metrics reads are left     *)
(* out.  Tasks of one event loop interleave only where they await, which   *)
(* here is websocket.send: on an open connection the frame is written at   *)
(* once and the sender waits for the buffer to drain, on a closed one it   *)
(* raises at once.  Messages are numbered in the order in which            *)
(* deliver_outbound_message is called with them.                           *)
(***************************************************************************)
EXTENDS Integers, Sequences, FiniteSets

CONSTANTS
  Conns,           \* websocket connections, each used once
  NoConn,          \* websocket is None
  Caller,          \* the task of a deliver_outbound_message call
  MAX_QUEUE_SIZE,
  MaxMessages,     \* bound: messages sent to the channel
  Disturbances     \* what may happen, a subset of AllDisturbances

ChannelStatusType == {"connected", "disconnected", "error"}

\* A registered adapter reports a status; handling an inbound message raises;
\* an adapter is back before its old connection is gone.
AllDisturbances == {"report", "inbound", "overlap"}

ASSUME ControlPlaneAssumption ==
  /\ NoConn \notin Conns
  /\ Caller \notin Conns
  /\ IsFiniteSet(Conns)
  /\ Conns # {}
  /\ MAX_QUEUE_SIZE \in Nat
  /\ MaxMessages \in Nat
  /\ Disturbances \subseteq AllDisturbances

Msgs == 1..MaxMessages

VARIABLES
  registered,  \* is the channel in self.adapters?
  websocket,   \* ChannelAdapter.websocket
  status,      \* ChannelAdapter.status
  queue,       \* ChannelAdapter.message_queue
  link,        \* the network's side of a connection
  handler,     \* where _handle_connection is for a connection
  sends,       \* websocket.send calls that have not returned
  calls,       \* calls of deliver_outbound_message so far
  delivered,   \* messages counted in total_messages_delivered
  refused,     \* messages for which deliver_outbound_message answered False
  log,         \* messages in the order in which they were written
  running,     \* ControlPlane._running
  seen         \* history: the disturbances there have been

adapter == <<registered, websocket, status, queue>>
outcome == <<delivered, refused>>
vars == <<adapter, link, handler, sends, calls, outcome, log, running, seen>>

\* A send that has not returned: the message, who awaits it (the flush of a
\* connection's handler or a caller), the connection it was written to.
Send == [msg : Msgs, by : Conns \cup {Caller}, on : Conns]

IsConnected == websocket # NoConn /\ status = "connected"

\* Mutant: the flush is started as a task of its own.
EnterAtOnce(c, stage) ==
  handler' = [handler EXCEPT ![c] = IF stage = "flush" THEN "serve" ELSE stage]

Enter(c, stage) == handler' = [handler EXCEPT ![c] = stage]

Disturb(d) == d \in Disturbances /\ seen' = seen \cup {d}

-----------------------------------------------------------------------------
(***************************************************************************)
(* Outbound                                                                *)
(***************************************************************************)
\* Mutant: the limit is off by one.
EnqueueOneTooMany(m) ==
  \/ Len(queue) > MAX_QUEUE_SIZE /\ refused' = refused \cup {m} /\ UNCHANGED queue
  \/ Len(queue) <= MAX_QUEUE_SIZE /\ queue' = Append(queue, m) /\ UNCHANGED refused

\* Queue for later delivery, or drop when the queue is full.
Enqueue(m) ==
  \/ Len(queue) >= MAX_QUEUE_SIZE /\ refused' = refused \cup {m} /\ UNCHANGED queue
  \/ Len(queue) < MAX_QUEUE_SIZE /\ queue' = Append(queue, m) /\ UNCHANGED refused

\* Mutant: the popped message is forgotten, or goes to the end.
PutBackNothing(m, q) == q
PutBackLast(m, q) == Append(q, m)

\* message_queue.appendleft after a failed send.
PutBack(m, q) == <<m>> \o q

\* websocket.send on an open connection, as far as its first await.
Write(m, by, on, pending) ==
  /\ link[on] = "open"
  /\ log' = Append(log, m)
  /\ sends' = pending \cup {[msg |-> m, by |-> by, on |-> on]}

\* The call of deliver_outbound_message with message m, up to its first await.
DeliverUnknown(m) ==
  /\ ~registered
  /\ refused' = refused \cup {m}
  /\ UNCHANGED <<adapter, sends, log>>

DeliverNow(m) ==
  /\ IsConnected
  /\ Write(m, Caller, websocket, sends)
  /\ UNCHANGED <<adapter, refused>>

DeliverFails(m) ==
  /\ IsConnected
  /\ link[websocket] = "closed"
  /\ status' = "error"
  /\ Enqueue(m)
  /\ UNCHANGED <<registered, websocket, sends, log>>

DeliverLater(m) ==
  /\ registered
  /\ ~IsConnected
  /\ Enqueue(m)
  /\ UNCHANGED <<registered, websocket, status, sends, log>>

Deliver ==
  /\ calls < MaxMessages
  /\ calls' = calls + 1
  /\ \/ DeliverUnknown(calls + 1)
     \/ DeliverNow(calls + 1)
     \/ DeliverFails(calls + 1)
     \/ DeliverLater(calls + 1)
  /\ UNCHANGED <<link, handler, delivered, running, seen>>

\* Mutant: the flush is never started.
FlushNothing(c, q, w, st, pending) ==
  /\ Enter(c, "serve")
  /\ queue' = q /\ status' = st /\ sends' = pending
  /\ UNCHANGED log

\* The loop of _flush_message_queue in the handler of c, as far as the next
\* await: q, w and st are the adapter's queue, websocket and status.
Flush(c, q, w, st, pending) ==
  \/ /\ q = <<>> \/ w = NoConn \/ st # "connected"
     /\ Enter(c, "serve")
     /\ queue' = q /\ status' = st /\ sends' = pending
     /\ UNCHANGED log
  \/ /\ q # <<>> /\ w # NoConn /\ st = "connected"
     /\ Write(Head(q), c, w, pending)
     /\ Enter(c, "flush")
     /\ queue' = Tail(q) /\ status' = st
  \/ /\ q # <<>> /\ w # NoConn /\ st = "connected"
     /\ link[w] = "closed"
     /\ Enter(c, "serve")
     /\ queue' = PutBack(Head(q), Tail(q)) /\ status' = "error" /\ sends' = pending
     /\ UNCHANGED log

\* websocket.send returns ...
SendSucceeds(s) ==
  /\ delivered' = delivered \cup {s.msg}
  /\ \/ /\ s.by = Caller
        /\ sends' = sends \ {s}
        /\ UNCHANGED <<queue, status, handler, log>>
     \/ /\ s.by # Caller
        /\ Flush(s.by, queue, websocket, status, sends \ {s})
  /\ UNCHANGED refused

\* ... or raises, because the connection was closed in the meantime.
SendRaises(s) ==
  /\ link[s.on] = "closed"
  /\ sends' = sends \ {s}
  /\ status' = "error"
  /\ \/ s.by = Caller /\ Enqueue(s.msg) /\ UNCHANGED handler
     \/ /\ s.by # Caller
        /\ queue' = PutBack(s.msg, queue)
        /\ Enter(s.by, "serve")
        /\ UNCHANGED refused
  /\ UNCHANGED <<delivered, log>>

SendEnds(s) ==
  /\ s \in sends
  /\ SendSucceeds(s) \/ SendRaises(s)
  /\ UNCHANGED <<registered, websocket, link, calls, running, seen>>

-----------------------------------------------------------------------------
(***************************************************************************)
(* Connections                                                             *)
(***************************************************************************)
\* An adapter connects; its old connection and what was sent on it may linger.
Connect(c) ==
  /\ running
  /\ link[c] = "new"
  /\ \/ /\ sends = {}
        /\ \A d \in Conns : handler[d] \in {"none", "done"}
        /\ UNCHANGED seen
     \/ Disturb("overlap")
  /\ link' = [link EXCEPT ![c] = "open"]
  /\ Enter(c, "register")
  /\ UNCHANGED <<adapter, sends, calls, outcome, log, running>>

\* No registration within 10 s, not a ChannelStatus, not "connected", or the
\* connection is closed first.
GiveUp(c) ==
  /\ handler[c] = "register"
  /\ Enter(c, "done")
  /\ link' = [link EXCEPT ![c] = "closed"]
  /\ UNCHANGED <<adapter, sends, calls, outcome, log, running, seen>>

\* register_adapter, and the flush that follows it without an await between.
Register(c) ==
  /\ handler[c] = "register"
  /\ registered' = TRUE
  /\ websocket' = c
  /\ Flush(c, queue, c, "connected", sends)
  /\ UNCHANGED <<link, calls, outcome, running, seen>>

\* The receive loop: a ChannelStatus sets the status, whichever connection
\* it came on; an exception marks the adapter as failed.
Report(c, st) ==
  /\ handler[c] = "serve"
  /\ Disturb("report")
  /\ status' = st
  /\ UNCHANGED <<registered, websocket, queue, link, handler, sends, calls,
                 outcome, log, running>>

InboundRaises(c) ==
  /\ Disturb("inbound")
  /\ handler[c] = "serve"
  /\ status' = "error"
  /\ UNCHANGED <<registered, websocket, queue, link, handler, sends, calls,
                 outcome, log, running>>

\* The receive loop ends with the connection; unregister_adapter does not look
\* whose connection it was.
Unregister(c) ==
  /\ handler[c] = "serve"
  /\ link[c] = "closed"
  /\ Enter(c, "done")
  /\ websocket' = NoConn
  /\ status' = "disconnected"
  /\ UNCHANGED <<registered, queue, link, sends, calls, outcome, log, running, seen>>

\* The adapter goes away, or does not answer a ping within 10 s.
Close(c) ==
  /\ link[c] = "open"
  /\ link' = [link EXCEPT ![c] = "closed"]
  /\ UNCHANGED <<adapter, handler, sends, calls, outcome, log, running, seen>>

\* Mutant: the connections stay open.
StopServing ==
  /\ running
  /\ running' = FALSE
  /\ UNCHANGED <<adapter, link, handler, sends, calls, outcome, log, seen>>

\* stop: the server closes its connections and accepts no more.
Stop ==
  /\ running
  /\ running' = FALSE
  /\ link' = [c \in Conns |-> IF link[c] = "open" THEN "closed" ELSE link[c]]
  /\ UNCHANGED <<adapter, handler, sends, calls, outcome, log, seen>>

-----------------------------------------------------------------------------
Init ==
  /\ registered = FALSE
  /\ websocket = NoConn
  /\ status = "disconnected"
  /\ queue = <<>>
  /\ link = [c \in Conns |-> "new"]
  /\ handler = [c \in Conns |-> "none"]
  /\ sends = {}
  /\ calls = 0
  /\ delivered = {}
  /\ refused = {}
  /\ log = <<>>
  /\ running = TRUE
  /\ seen = {}

Handle(c) == GiveUp(c) \/ Register(c) \/ Unregister(c)

Next ==
  \/ Deliver
  \/ \E s \in sends : SendEnds(s)
  \/ \E c \in Conns : \/ Connect(c) \/ Close(c) \/ Handle(c) \/ InboundRaises(c)
                      \/ \E st \in ChannelStatusType : Report(c, st)
  \/ Stop

Spec == Init /\ [][Next]_vars

\* The event loop runs every task that can run.  A send ends because the ping
\* timeout closes a connection whose peer no longer reads.
FairSpec ==
  /\ Spec
  /\ WF_vars(\E s \in sends : SendEnds(s))
  /\ \A c \in Conns : WF_vars(Handle(c))

\* No send has to wait: the socket's buffer always has room.
PromptNext ==
  \/ sends # {} /\ \E s \in sends : SendEnds(s)
  \/ sends = {} /\ Next

PromptSpec == Init /\ [][PromptNext]_vars

-----------------------------------------------------------------------------
Stages == {"none", "register", "flush", "serve", "done"}

Flushing == {c \in Conns : handler[c] = "flush"}

InQueue(m) == \E i \in DOMAIN queue : queue[i] = m
Sending(m) == \E s \in sends : s.msg = m

\* The state is well typed; a handler flushes exactly while it awaits a send
\* of its own (_flush_message_queue is awaited), and only a registered channel
\* has a handler past registration.
TypeOK ==
  /\ registered \in BOOLEAN
  /\ websocket \in Conns \cup {NoConn}
  /\ status \in ChannelStatusType
  /\ queue \in Seq(Msgs)
  /\ link \in [Conns -> {"new", "open", "closed"}]
  /\ handler \in [Conns -> Stages]
  /\ sends \subseteq Send
  /\ calls \in 0..MaxMessages
  /\ delivered \subseteq Msgs
  /\ refused \subseteq Msgs
  /\ log \in Seq(Msgs)
  /\ running \in BOOLEAN
  /\ seen \subseteq Disturbances
  /\ \A c \in Conns : handler[c] = "flush" <=> \E s \in sends : s.by = c
  /\ websocket # NoConn => link[websocket] # "new"

\* Every message handed to deliver_outbound_message is in one place: waiting
\* once in the queue, being sent, counted as delivered, or refused; none is
\* forgotten or doubled by a failed flush or a reconnect.
OnePlace ==
  /\ \A i, j \in DOMAIN queue : queue[i] = queue[j] => i = j
  /\ \A s, t \in sends : s.msg = t.msg => s = t
  /\ \A m \in Msgs :
       /\ m <= calls <=> InQueue(m) \/ Sending(m) \/ m \in delivered \/ m \in refused
       /\ ~(InQueue(m) /\ Sending(m))
       /\ m \in delivered => ~InQueue(m) /\ ~Sending(m) /\ m \notin refused
       /\ m \in refused => ~InQueue(m) /\ ~Sending(m)

\* A flush that holds a message may put it back in front of a queue that was
\* filled meanwhile: the queue exceeds its limit by at most one message for
\* each connection but the first, which finds the queue empty.
QueueBounded ==
  Len(queue) + Cardinality(Flushing) < MAX_QUEUE_SIZE + Cardinality(Conns)

\* Unless an adapter has reported "connected" itself, a connected adapter has
\* queued messages only while a flush is sending them: deliver_outbound_message
\* sends to a connected adapter directly, so whatever else is queued would be
\* left behind.
NothingLeftBehind ==
  "report" \notin seen /\ IsConnected /\ queue # <<>> => Flushing # {}

\* "Check if adapter is currently connected": while an adapter's registered
\* connection is open, is_connected goes on to say so when the handler of
\* another connection ends.
OthersStayConnected ==
  [][\A c, d \in Conns :
       /\ handler[c] = "serve" /\ handler'[c] = "done"
       /\ d # c /\ websocket = d /\ IsConnected /\ link[d] = "open"
       => IsConnected']_vars

\* What is queued when the adapter is connected is sent, unless the connection
\* fails again or the adapter reports a status.
QueueDrains ==
  "report" \notin seen /\ IsConnected /\ queue # <<>>
    ~> queue = <<>> \/ ~IsConnected \/ "report" \in seen

\* stop ends: the handler of every connection returns, which wait_closed awaits.
StopEnds == ~running ~> \A c \in Conns : handler[c] \in {"none", "done"}
=============================================================================
