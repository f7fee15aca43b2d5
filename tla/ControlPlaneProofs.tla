------------------------- MODULE ControlPlaneProofs -------------------------
(***************************************************************************)
(* Proofs about the control plane, for any number of connections and       *)
(* messages and any queue limit; the last ones show that it implements     *)
(* FifoChannel while no send has to wait and adapters report no status of  *)
(* their own.                                                              *)
(***************************************************************************)
EXTENDS ControlPlaneRefinement, FiniteSetTheorems, TLAPS

\* A handler awaits one send at a time.
OneFlush == \A s, t \in sends : s.by # Caller /\ s.by = t.by => s = t

Inv == TypeOK /\ OneFlush

\* What the steps of the flush of c leave: it is given a set of sends in which
\* c has none, and hands on one in which c has one exactly if it goes on.
LEMMA FlushType ==
  ASSUME ControlPlaneAssumption, Inv,
         NEW c \in Conns, NEW q \in Seq(Msgs), NEW w \in Conns \cup {NoConn},
         NEW st \in ChannelStatusType, NEW pending \in SUBSET sends,
         \A s \in pending : s.by # c,
         \A d \in Conns \ {c} : handler[d] = "flush" <=> \E s \in pending : s.by = d,
         Flush(c, q, w, st, pending)
  PROVE  /\ queue' \in Seq(Msgs) /\ status' \in ChannelStatusType
         /\ sends' \subseteq Send /\ log' \in Seq(Msgs)
         /\ handler' \in [Conns -> Stages]
         /\ \A d \in Conns : handler'[d] = "flush" <=> \E s \in sends' : s.by = d
         /\ OneFlush'
<1> USE DEF ControlPlaneAssumption, Inv, TypeOK
<1>1. CASE q = <<>> \/ w = NoConn \/ st # "connected"
  <2>1. /\ queue' = q /\ status' = st /\ sends' = pending /\ log' = log
        /\ handler' = [handler EXCEPT ![c] = "serve"]
    BY <1>1 DEF Flush, Enter, Write
  <2>2. handler' \in [Conns -> Stages]
    BY <2>1 DEF Stages
  <2>3. \A d \in Conns : handler'[d] = "flush" <=> \E s \in sends' : s.by = d
    BY <2>1
  <2>4. OneFlush'
    BY <2>1 DEF OneFlush
  <2> QED  BY <2>1, <2>2, <2>3, <2>4
<1>2. CASE /\ q # <<>> /\ w # NoConn /\ st = "connected"
           /\ Write(Head(q), c, w, pending)
           /\ Enter(c, "flush")
           /\ queue' = Tail(q) /\ status' = st
  <2> DEFINE e == [msg |-> Head(q), by |-> c, on |-> w]
  <2>1. /\ queue' = Tail(q) /\ status' = st /\ sends' = pending \cup {e}
        /\ log' = Append(log, Head(q))
        /\ handler' = [handler EXCEPT ![c] = "flush"]
    BY <1>2 DEF Enter, Write
  <2>2. Head(q) \in Msgs /\ Tail(q) \in Seq(Msgs)
    BY <1>2
  <2>3. e \in Send /\ e.by = c
    BY <1>2, <2>2 DEF Send
  <2>4. log' \in Seq(Msgs)
    BY <2>1, <2>2
  <2> HIDE DEF e
  <2>5. handler' \in [Conns -> Stages]
    BY <2>1 DEF Stages
  <2>6. \A d \in Conns : handler'[d] = "flush" <=> \E s \in sends' : s.by = d
    BY <2>1, <2>3
  <2>7. OneFlush'
    BY <2>1, <2>3 DEF OneFlush
  <2> QED  BY <2>1, <2>2, <2>3, <2>4, <2>5, <2>6, <2>7
<1>3. CASE /\ q # <<>> /\ w # NoConn /\ st = "connected"
           /\ link[w] = "closed"
           /\ Enter(c, "serve")
           /\ queue' = PutBack(Head(q), Tail(q)) /\ status' = "error" /\ sends' = pending
           /\ UNCHANGED log
  <2>1. /\ status' = "error" /\ sends' = pending /\ log' = log
        /\ handler' = [handler EXCEPT ![c] = "serve"]
    BY <1>3 DEF Enter
  <2>2. queue' \in Seq(Msgs)
    BY <1>3 DEF PutBack
  <2>3. handler' \in [Conns -> Stages]
    BY <2>1 DEF Stages
  <2>4. \A d \in Conns : handler'[d] = "flush" <=> \E s \in sends' : s.by = d
    BY <2>1
  <2>5. OneFlush'
    BY <2>1 DEF OneFlush
  <2> QED  BY <2>1, <2>2, <2>3, <2>4, <2>5 DEF ChannelStatusType
<1> QED  BY <1>1, <1>2, <1>3 DEF Flush

\* Queueing or dropping a message.
LEMMA EnqueueType ==
  ASSUME TypeOK, NEW m \in Msgs, Enqueue(m)
  PROVE  queue' \in Seq(Msgs) /\ refused' \subseteq Msgs
<1>1. CASE Len(queue) >= MAX_QUEUE_SIZE /\ refused' = refused \cup {m} /\ UNCHANGED queue
  BY <1>1 DEF TypeOK
<1>2. CASE Len(queue) < MAX_QUEUE_SIZE /\ queue' = Append(queue, m) /\ UNCHANGED refused
  BY <1>2 DEF TypeOK
<1> QED  BY <1>1, <1>2 DEF Enqueue

\* Nothing that a send or a flush depends on changes: the rest of TypeOK holds
\* when the new values are of their types.
LEMMA Frame ==
  ASSUME Inv, UNCHANGED <<handler, sends>>
  PROVE  /\ \A d \in Conns : handler'[d] = "flush" <=> \E s \in sends' : s.by = d
         /\ OneFlush'
  BY DEF Inv, TypeOK, OneFlush

\* A call of deliver_outbound_message: whoever sends, it is not a flush.
LEMMA DeliverType ==
  ASSUME ControlPlaneAssumption, Inv, Deliver
  PROVE  Inv'
<1> USE DEF ControlPlaneAssumption, Inv, TypeOK
<1> DEFINE m == calls + 1
<1>1. m \in Msgs /\ calls' = m /\ calls' \in 0..MaxMessages
  BY DEF Deliver, Msgs
<1>2. UNCHANGED <<link, handler, delivered, running, seen>>
  BY DEF Deliver
<1> HIDE DEF m
<1>3. CASE DeliverUnknown(m)
  BY <1>1, <1>2, <1>3, Frame DEF DeliverUnknown, adapter
<1>4. CASE DeliverNow(m)
  <2> DEFINE e == [msg |-> m, by |-> Caller, on |-> websocket]
  <2>1. /\ sends' = sends \cup {e} /\ log' = Append(log, m)
        /\ UNCHANGED <<registered, websocket, status, queue, refused>>
    BY <1>4 DEF DeliverNow, Write, adapter
  <2>2. e \in Send /\ e.by = Caller
    BY <1>1, <1>4 DEF Send, DeliverNow, IsConnected
  <2> HIDE DEF e
  <2>3. log' \in Seq(Msgs)
    BY <1>1, <2>1
  <2>4. \A d \in Conns : handler'[d] = "flush" <=> \E s \in sends' : s.by = d
    BY <1>2, <2>1, <2>2
  <2>5. OneFlush'
    BY <2>1, <2>2 DEF OneFlush
  <2> QED  BY <1>1, <1>2, <2>1, <2>2, <2>3, <2>4, <2>5
<1>5. CASE DeliverFails(m)
  <2>1. queue' \in Seq(Msgs) /\ refused' \subseteq Msgs
    BY <1>1, <1>5, EnqueueType DEF DeliverFails
  <2> QED  BY <1>1, <1>2, <1>5, <2>1, Frame DEF DeliverFails, ChannelStatusType
<1>6. CASE DeliverLater(m)
  <2>1. queue' \in Seq(Msgs) /\ refused' \subseteq Msgs
    BY <1>1, <1>6, EnqueueType DEF DeliverLater
  <2> QED  BY <1>1, <1>2, <1>6, <2>1, Frame DEF DeliverLater
<1> QED  BY <1>3, <1>4, <1>5, <1>6 DEF Deliver, m

\* A send of a caller leaves the flushes alone; one of a flush leaves its handler
\* without a send, for the loop to go on or stop.
LEMMA SendEndsType ==
  ASSUME ControlPlaneAssumption, Inv, NEW s \in sends, SendEnds(s)
  PROVE  Inv'
<1> USE DEF ControlPlaneAssumption, Inv, TypeOK
<1>1. s \in Send /\ s.msg \in Msgs
  BY DEF Send
<1>2. UNCHANGED <<registered, websocket, link, calls, running, seen>>
  BY DEF SendEnds
<1>3. CASE s.by = Caller
  <2>1. sends' = sends \ {s} /\ UNCHANGED <<handler, log>>
    BY <1>3 DEF SendEnds, SendSucceeds, SendRaises
  <2>2. \A d \in Conns : handler'[d] = "flush" <=> \E t \in sends' : t.by = d
    BY <1>3, <2>1
  <2>3. OneFlush'
    BY <2>1 DEF OneFlush
  <2>4. delivered' \subseteq Msgs /\ status' \in ChannelStatusType
    BY <1>1, <1>3 DEF SendEnds, SendSucceeds, SendRaises, ChannelStatusType
  <2>5. CASE SendSucceeds(s)
    BY <1>2, <1>3, <2>1, <2>2, <2>3, <2>4, <2>5 DEF SendSucceeds
  <2>6. CASE SendRaises(s)
    <3>1. queue' \in Seq(Msgs) /\ refused' \subseteq Msgs
      BY <1>1, <1>3, <2>6, EnqueueType DEF SendRaises
    <3> QED  BY <1>2, <2>1, <2>2, <2>3, <2>4, <3>1
  <2> QED  BY <2>5, <2>6 DEF SendEnds
<1>4. CASE s.by # Caller
  <2>1. PICK c \in Conns : c = s.by
    BY <1>1, <1>4 DEF Send
  <2>2. \A t \in sends \ {s} : t.by # c
    BY <2>1 DEF OneFlush
  <2>3. \A d \in Conns \ {c} : handler[d] = "flush" <=> \E t \in sends \ {s} : t.by = d
    BY <2>1
  <2>4. CASE SendSucceeds(s)
    <3>1. Flush(c, queue, websocket, status, sends \ {s})
      BY <1>4, <2>1, <2>4 DEF SendSucceeds
    <3>2. /\ queue' \in Seq(Msgs) /\ status' \in ChannelStatusType
          /\ sends' \subseteq Send /\ log' \in Seq(Msgs)
          /\ handler' \in [Conns -> Stages]
          /\ \A d \in Conns : handler'[d] = "flush" <=> \E t \in sends' : t.by = d
          /\ OneFlush'
      BY <2>2, <2>3, <3>1, FlushType
    <3> QED  BY <1>1, <1>2, <2>4, <3>2 DEF SendSucceeds
  <2>5. CASE SendRaises(s)
    <3>1. /\ sends' = sends \ {s} /\ status' = "error" /\ queue' = <<s.msg>> \o queue
          /\ handler' = [handler EXCEPT ![c] = "serve"]
          /\ UNCHANGED <<delivered, refused, log>>
      BY <1>4, <2>1, <2>5 DEF SendRaises, Enter, PutBack
    <3>2. queue' \in Seq(Msgs)
      BY <1>1, <3>1
    <3>3. handler' \in [Conns -> Stages]
      BY <3>1 DEF Stages
    <3>4. \A d \in Conns : handler'[d] = "flush" <=> \E t \in sends' : t.by = d
      BY <2>2, <2>3, <3>1
    <3>5. OneFlush'
      BY <3>1 DEF OneFlush
    <3> QED  BY <1>2, <3>1, <3>2, <3>3, <3>4, <3>5 DEF ChannelStatusType
  <2> QED  BY <2>4, <2>5 DEF SendEnds
<1> QED  BY <1>3, <1>4

\* Registering is setting the websocket and flushing the queue there is.
LEMMA RegisterType ==
  ASSUME ControlPlaneAssumption, Inv, NEW c \in Conns, Register(c), link[c] # "new"
  PROVE  Inv'
<1> USE DEF ControlPlaneAssumption, Inv, TypeOK
<1>1. \A s \in sends : s.by # c
  BY DEF Register
<1>2. Flush(c, queue, c, "connected", sends) /\ "connected" \in ChannelStatusType
  BY DEF Register, ChannelStatusType
<1>3. /\ queue' \in Seq(Msgs) /\ status' \in ChannelStatusType
      /\ sends' \subseteq Send /\ log' \in Seq(Msgs)
      /\ handler' \in [Conns -> Stages]
      /\ \A d \in Conns : handler'[d] = "flush" <=> \E t \in sends' : t.by = d
      /\ OneFlush'
  BY <1>1, <1>2, FlushType
<1> QED  BY <1>3 DEF Register, outcome

\* The other steps of a connection change a stage that is not "flush" to
\* another one, or none at all.
LEMMA StageType ==
  ASSUME Inv, NEW c \in Conns, NEW stage \in Stages \ {"flush"},
         Enter(c, stage), handler[c] # "flush", UNCHANGED sends
  PROVE  /\ handler' \in [Conns -> Stages]
         /\ \A d \in Conns : handler'[d] = "flush" <=> \E s \in sends' : s.by = d
         /\ OneFlush'
  BY DEF Inv, TypeOK, Enter, OneFlush

\* A connection that has a handler is not new, so the websocket of an adapter
\* is not either.
Accepted == \A c \in Conns : link[c] = "new" <=> handler[c] = "none"

TypeInv == Inv /\ Accepted

LEMMA AcceptedStep ==
  ASSUME ControlPlaneAssumption, TypeInv, [Next]_vars
  PROVE  Accepted'
<1> USE DEF TypeInv, Inv, TypeOK, Accepted
<1>1. CASE Deliver
  BY <1>1 DEF Deliver
<1>2. ASSUME NEW s \in sends, SendEnds(s)
      PROVE  Accepted'
  <2>1. UNCHANGED link
    BY <1>2 DEF SendEnds
  <2>2. \A d \in Conns : handler'[d] = "none" <=> handler[d] = "none"
    BY <1>2 DEF SendEnds, SendSucceeds, SendRaises, Flush, Enter, Send
  <2> QED  BY <2>1, <2>2
<1>3. ASSUME NEW c \in Conns,
             Connect(c) \/ Close(c) \/ GiveUp(c) \/ Unregister(c) \/ InboundRaises(c)
      PROVE  Accepted'
  BY <1>3 DEF Connect, Close, GiveUp, Unregister, InboundRaises, Enter
<1>4. ASSUME NEW c \in Conns, Register(c)
      PROVE  Accepted'
  BY <1>4 DEF Register, Flush, Enter
<1>5. ASSUME NEW c \in Conns, NEW st \in ChannelStatusType, Report(c, st)
      PROVE  Accepted'
  BY <1>5 DEF Report
<1>6. CASE Stop
  BY <1>6 DEF Stop
<1>7. CASE UNCHANGED vars
  BY <1>7 DEF vars
<1> QED  BY <1>1, <1>2, <1>3, <1>4, <1>5, <1>6, <1>7 DEF Next, Handle

LEMMA TypeInit ==
  ASSUME ControlPlaneAssumption, Init
  PROVE  TypeInv
<1> USE DEF ControlPlaneAssumption, Init, Stages, ChannelStatusType
<1>1. queue \in Seq(Msgs) /\ log \in Seq(Msgs)
  BY DEF Init
<1>2. calls \in 0..MaxMessages
  OBVIOUS
<1>3. link \in [Conns -> {"new", "open", "closed"}] /\ handler \in [Conns -> Stages]
  OBVIOUS
<1>4. Accepted /\ OneFlush
  BY DEF Accepted, OneFlush
<1> QED  BY <1>1, <1>2, <1>3, <1>4 DEF TypeInv, Inv, TypeOK

LEMMA TypeStep ==
  ASSUME ControlPlaneAssumption, TypeInv, [Next]_vars
  PROVE  TypeInv'
<1> SUFFICES Inv'
  BY AcceptedStep DEF TypeInv
<1> USE DEF TypeInv
<1>1. CASE Deliver
  BY <1>1, DeliverType
<1>2. ASSUME NEW s \in sends, SendEnds(s)
      PROVE  Inv'
  BY <1>2, SendEndsType
<1>3. ASSUME NEW c \in Conns, Connect(c)
      PROVE  Inv'
  <2>1. /\ handler' \in [Conns -> Stages]
        /\ \A d \in Conns : handler'[d] = "flush" <=> \E s \in sends' : s.by = d
        /\ OneFlush'
    BY <1>3, StageType DEF Connect, Accepted, Stages, outcome
  <2>2. UNCHANGED <<adapter, sends, calls, outcome, log, running>>
    BY <1>3, Zenon DEF Connect
  <2>3. link' \in [Conns -> {"new", "open", "closed"}]
    BY <1>3 DEF Connect, Inv, TypeOK
  <2>4. seen' \subseteq Disturbances
    BY <1>3 DEF Connect, Disturb, Inv, TypeOK
  <2>5. websocket' # NoConn => link'[websocket'] # "new"
    <3>1. websocket' = websocket /\ websocket \in Conns \cup {NoConn}
      BY <2>2 DEF adapter, Inv, TypeOK
    <3>2. websocket # NoConn => link[websocket] # "new"
      BY DEF Inv, TypeOK
    <3>3. \A d \in Conns : link'[d] = "open" \/ link'[d] = link[d]
      BY <1>3 DEF Connect, Inv, TypeOK
    <3> QED  BY <3>1, <3>2, <3>3
  <2> QED  BY <2>1, <2>2, <2>3, <2>4, <2>5 DEF Inv, TypeOK, adapter, outcome
<1>4. ASSUME NEW c \in Conns, GiveUp(c)
      PROVE  Inv'
  <2>1. /\ handler' \in [Conns -> Stages]
        /\ \A d \in Conns : handler'[d] = "flush" <=> \E s \in sends' : s.by = d
        /\ OneFlush'
    BY <1>4, StageType DEF GiveUp, Stages, outcome
  <2> QED  BY <1>4, <2>1 DEF GiveUp, Inv, TypeOK, adapter, outcome
<1>5. ASSUME NEW c \in Conns, Unregister(c)
      PROVE  Inv'
  <2>1. /\ handler' \in [Conns -> Stages]
        /\ \A d \in Conns : handler'[d] = "flush" <=> \E s \in sends' : s.by = d
        /\ OneFlush'
    BY <1>5, StageType DEF Unregister, Stages, outcome
  <2> QED  BY <1>5, <2>1, ControlPlaneAssumption
           DEF Unregister, Inv, TypeOK, outcome, ChannelStatusType
<1>6. ASSUME NEW c \in Conns, Register(c)
      PROVE  Inv'
  BY <1>6, RegisterType DEF Register, Accepted
<1>7. ASSUME NEW c \in Conns, Close(c)
      PROVE  Inv'
  BY <1>7, Frame DEF Close, Inv, TypeOK, adapter, outcome
<1>8. ASSUME NEW c \in Conns, InboundRaises(c)
      PROVE  Inv'
  BY <1>8, Frame DEF InboundRaises, Disturb, Inv, TypeOK, outcome, ChannelStatusType
<1>9. ASSUME NEW c \in Conns, NEW st \in ChannelStatusType, Report(c, st)
      PROVE  Inv'
  BY <1>9, Frame, ControlPlaneAssumption DEF Report, Disturb, Inv, TypeOK, outcome, ControlPlaneAssumption
<1>10. CASE Stop
  BY <1>10, Frame DEF Stop, Inv, TypeOK, adapter, outcome
<1>11. CASE UNCHANGED vars
  BY <1>11, Frame DEF vars, Inv, TypeOK, adapter, outcome
<1> QED  BY <1>1, <1>2, <1>3, <1>4, <1>5, <1>6, <1>7, <1>8, <1>9, <1>10, <1>11
         DEF Next, Handle

\* Every reachable state of the control plane is well typed, and a handler is
\* in its flush exactly while it awaits a send.
THEOREM ChannelTyping == Spec => []TypeOK
<1>1. Init => TypeInv
  BY TypeInit, ControlPlaneAssumption
<1>2. TypeInv /\ [Next]_vars => TypeInv'
  BY TypeStep, ControlPlaneAssumption
<1>3. TypeInv => TypeOK
  BY DEF TypeInv, Inv
<1> QED  BY <1>1, <1>2, <1>3, PTL DEF Spec

-----------------------------------------------------------------------------
(***************************************************************************)
(* Nothing is left behind a connected adapter.                             *)
(***************************************************************************)
\* The loop leaves an empty queue, an adapter that is not connected, or a flush.
LEMMA FlushLeavesNothing ==
  ASSUME Inv, NEW c \in Conns, NEW q, NEW w, NEW st, NEW pending,
         Flush(c, q, w, st, pending), websocket' = w
  PROVE  queue' = <<>> \/ ~IsConnected' \/ c \in Flushing'
BY DEF Inv, TypeOK, Flush, Enter, IsConnected, Flushing

LEMMA NothingLeftBehindStep ==
  ASSUME ControlPlaneAssumption, TypeInv, NothingLeftBehind, [Next]_vars
  PROVE  NothingLeftBehind'
<1> USE DEF TypeInv
<1>1. CASE Deliver
  <2>1. UNCHANGED <<handler, seen>> /\ Flushing' = Flushing
    BY <1>1 DEF Deliver, Flushing
  <2>2. ~IsConnected' \/ (UNCHANGED queue /\ (IsConnected' => IsConnected))
    BY <1>1 DEF Deliver, DeliverUnknown, DeliverNow, DeliverFails, DeliverLater,
                IsConnected, adapter
  <2> QED  BY <2>1, <2>2 DEF NothingLeftBehind
<1>2. ASSUME NEW s \in sends, SendEnds(s)
      PROVE  NothingLeftBehind'
  <2>1. UNCHANGED <<websocket, seen>>
    BY <1>2 DEF SendEnds
  <2>2. CASE SendRaises(s)
    BY <2>2 DEF SendRaises, NothingLeftBehind, IsConnected
  <2>3. CASE SendSucceeds(s) /\ s.by = Caller
    BY <2>1, <2>3 DEF SendSucceeds, NothingLeftBehind, IsConnected, Flushing
  <2>4. CASE SendSucceeds(s) /\ s.by # Caller
    <3>1. s.by \in Conns
      BY <2>4 DEF Inv, TypeOK, Send
    <3>2. Flush(s.by, queue, websocket, status, sends \ {s})
      BY <2>4 DEF SendSucceeds
    <3> QED  BY <2>1, <3>1, <3>2, FlushLeavesNothing DEF NothingLeftBehind
  <2> QED  BY <1>2, <2>2, <2>3, <2>4 DEF SendEnds
<1>3. ASSUME NEW c \in Conns, Connect(c) \/ GiveUp(c)
      PROVE  NothingLeftBehind'
  <2>1. UNCHANGED <<websocket, status, queue>> /\ ("report" \in seen => "report" \in seen')
    BY <1>3 DEF Connect, GiveUp, Disturb, adapter
  <2>2. Flushing \subseteq Flushing'
    BY <1>3 DEF Connect, GiveUp, Enter, Flushing, Inv, TypeOK, Accepted
  <2> QED  BY <2>1, <2>2 DEF NothingLeftBehind, IsConnected
<1>4. ASSUME NEW c \in Conns, Register(c)
      PROVE  NothingLeftBehind'
  <2>1. Flush(c, queue, c, "connected", sends) /\ websocket' = c
    BY <1>4 DEF Register
  <2>2. queue' = <<>> \/ ~IsConnected' \/ c \in Flushing'
    BY <2>1, FlushLeavesNothing
  <2> QED  BY <2>2 DEF NothingLeftBehind
<1>5. ASSUME NEW c \in Conns, Unregister(c) \/ InboundRaises(c)
      PROVE  NothingLeftBehind'
  BY <1>5 DEF Unregister, InboundRaises, NothingLeftBehind, IsConnected
<1>6. ASSUME NEW c \in Conns, NEW st \in ChannelStatusType, Report(c, st)
      PROVE  NothingLeftBehind'
  BY <1>6 DEF Report, Disturb, NothingLeftBehind
<1>7. ASSUME NEW c \in Conns, Close(c)
      PROVE  NothingLeftBehind'
  BY <1>7 DEF Close, adapter, NothingLeftBehind, IsConnected, Flushing
<1>8. CASE Stop \/ UNCHANGED vars
  BY <1>8 DEF Stop, vars, adapter, NothingLeftBehind, IsConnected, Flushing
<1> QED  BY <1>1, <1>2, <1>3, <1>4, <1>5, <1>6, <1>7, <1>8 DEF Next, Handle

\* As long as no adapter reports a status of its own, queued messages of a
\* connected adapter are being flushed: a reconnect leaves none behind.
THEOREM ReconnectLeavesNothing == Spec => []NothingLeftBehind
<1>1. Init => TypeInv /\ NothingLeftBehind
  BY TypeInit, ControlPlaneAssumption DEF Init, NothingLeftBehind
<1>2. TypeInv /\ NothingLeftBehind /\ [Next]_vars => TypeInv' /\ NothingLeftBehind'
  BY TypeStep, NothingLeftBehindStep, ControlPlaneAssumption
<1> QED  BY <1>1, <1>2, PTL DEF Spec

-----------------------------------------------------------------------------
(***************************************************************************)
(* The queue is bounded.                                                   *)
(***************************************************************************)
\* Before the first registration there is nothing to flush, and the connection
\* that registers first never flushes.
FirstIsIdle ==
  /\ ~registered => queue = <<>> /\ sends = {} /\ websocket = NoConn
  /\ registered => \E c \in Conns : handler[c] \in {"serve", "done"}

LEMMA FirstIsIdleStep ==
  ASSUME ControlPlaneAssumption, TypeInv, FirstIsIdle, [Next]_vars
  PROVE  FirstIsIdle'
<1> USE DEF TypeInv, Inv, TypeOK
<1>1. CASE Deliver
  BY <1>1 DEF Deliver, DeliverUnknown, DeliverNow, DeliverFails, DeliverLater,
              IsConnected, FirstIsIdle, adapter
<1>2. ASSUME NEW s \in sends, SendEnds(s)
      PROVE  FirstIsIdle'
  <2>1. registered /\ registered'
    BY <1>2 DEF SendEnds, FirstIsIdle
  <2>2. PICK c \in Conns : handler[c] \in {"serve", "done"}
    BY <2>1 DEF FirstIsIdle
  <2>3. s.by # c /\ s.by \in Conns \cup {Caller}
    BY <2>2 DEF Send
  <2>4. handler'[c] = handler[c]
    BY <1>2, <2>3 DEF SendEnds, SendSucceeds, SendRaises, Flush, Enter
  <2> QED  BY <2>1, <2>2, <2>4 DEF FirstIsIdle
<1>3. ASSUME NEW c \in Conns,
             Connect(c) \/ Close(c) \/ GiveUp(c) \/ Unregister(c) \/ InboundRaises(c)
      PROVE  FirstIsIdle'
  <2>1. UNCHANGED <<registered, queue, sends>>
    BY <1>3 DEF Connect, Close, GiveUp, Unregister, InboundRaises, adapter
  <2>2. websocket' \in {websocket, NoConn}
    BY <1>3 DEF Connect, Close, GiveUp, Unregister, InboundRaises, adapter
  <2>3. \A d \in Conns : handler[d] \in {"serve", "done"} => handler'[d] \in {"serve", "done"}
    BY <1>3 DEF Connect, Close, GiveUp, Unregister, InboundRaises, Enter, Accepted
  <2> QED  BY <2>1, <2>2, <2>3 DEF FirstIsIdle
<1>4. ASSUME NEW c \in Conns, Register(c)
      PROVE  FirstIsIdle'
  <2>1. registered' /\ Flush(c, queue, c, "connected", sends)
    BY <1>4 DEF Register
  <2>2. \A d \in Conns \ {c} : handler'[d] = handler[d]
    BY <2>1 DEF Flush, Enter
  <2>3. CASE registered
    BY <1>4, <2>1, <2>2, <2>3 DEF FirstIsIdle, Register
  <2>4. CASE ~registered
    <3>1. queue = <<>>
      BY <2>4 DEF FirstIsIdle
    <3>2. handler'[c] = "serve"
      BY <2>1, <3>1 DEF Flush, Enter
    <3> QED  BY <2>1, <3>2 DEF FirstIsIdle
  <2> QED  BY <2>3, <2>4
<1>5. ASSUME NEW c \in Conns, NEW st \in ChannelStatusType, Report(c, st)
      PROVE  FirstIsIdle'
  BY <1>5 DEF Report, FirstIsIdle
<1>6. CASE Stop \/ UNCHANGED vars
  BY <1>6 DEF Stop, vars, adapter, FirstIsIdle
<1> QED  BY <1>1, <1>2, <1>3, <1>4, <1>5, <1>6 DEF Next, Handle

\* So there are always fewer flushes than connections.
LEMMA FewFlushes ==
  ASSUME ControlPlaneAssumption, TypeInv, FirstIsIdle
  PROVE  /\ IsFiniteSet(Flushing)
         /\ Cardinality(Flushing) \in Nat /\ Cardinality(Conns) \in Nat
         /\ Cardinality(Flushing) < Cardinality(Conns)
<1> USE DEF ControlPlaneAssumption
<1>1. Flushing \subseteq Conns /\ IsFiniteSet(Conns)
  BY DEF Flushing
<1>2. IsFiniteSet(Flushing) /\ Cardinality(Flushing) <= Cardinality(Conns)
  BY <1>1, FS_Subset
<1>3. Cardinality(Flushing) \in Nat /\ Cardinality(Conns) \in Nat
  BY <1>1, <1>2, FS_CardinalityType
<1>4. Flushing # Conns
  <2>1. CASE registered
    BY <2>1 DEF FirstIsIdle, Flushing
  <2>2. CASE ~registered
    BY <2>2 DEF FirstIsIdle, TypeInv, Inv, TypeOK, Flushing
  <2> QED  BY <2>1, <2>2
<1>5. Cardinality(Flushing) # Cardinality(Conns)
  BY <1>1, <1>4, FS_Subset
<1> QED  BY <1>2, <1>3, <1>5

LEMMA OneMoreOrLess ==
  ASSUME NEW S, NEW x, IsFiniteSet(S)
  PROVE  /\ Cardinality(S \ {x}) \in Nat /\ Cardinality(S \ {x}) <= Cardinality(S)
         /\ Cardinality(S \cup {x}) \in Nat
         /\ Cardinality(S \cup {x}) <= Cardinality(S) + 1
<1>1. IsFiniteSet(S \ {x}) /\ IsFiniteSet(S \cup {x}) /\ Cardinality(S) \in Nat
  BY FS_AddElement, FS_RemoveElement, FS_CardinalityType
<1>2. Cardinality(S \ {x}) \in Nat /\ Cardinality(S \cup {x}) \in Nat
  BY <1>1, FS_CardinalityType
<1>3. Cardinality(S \ {x}) = Cardinality(S) \/ Cardinality(S \ {x}) = Cardinality(S) - 1
  BY FS_RemoveElement
<1>4. Cardinality(S \cup {x}) = Cardinality(S) \/ Cardinality(S \cup {x}) = Cardinality(S) + 1
  BY FS_AddElement
<1> QED  BY <1>1, <1>2, <1>3, <1>4

\* A message leaves the queue for a flush and returns to it from a flush.
LEMMA FlushBounded ==
  ASSUME ControlPlaneAssumption, TypeInv, FirstIsIdle, NEW c \in Conns,
         NEW w, NEW st, NEW pending, Flush(c, queue, w, st, pending)
  PROVE  Len(queue') + Cardinality(Flushing') <= Len(queue) + Cardinality(Flushing)
<1> USE DEF TypeInv, Inv, TypeOK
<1>1. IsFiniteSet(Flushing) /\ Cardinality(Flushing) \in Nat
  BY FewFlushes
<1>2. Len(queue) \in Nat
  OBVIOUS
<1>3. ASSUME Enter(c, "serve"), Len(queue') = Len(queue)
      PROVE  Len(queue') + Cardinality(Flushing') <= Len(queue) + Cardinality(Flushing)
  <2>1. Flushing' = Flushing \ {c}
    BY <1>3 DEF Enter, Flushing
  <2>2. Cardinality(Flushing') <= Cardinality(Flushing) /\ Cardinality(Flushing') \in Nat
    BY <1>1, <2>1, OneMoreOrLess
  <2> QED  BY <1>1, <1>2, <1>3, <2>2
<1>5. CASE /\ queue # <<>>
           /\ Enter(c, "serve")
           /\ queue' = PutBack(Head(queue), Tail(queue))
  <2>1. Len(queue') = Len(queue)
    BY <1>5 DEF PutBack
  <2> QED  BY <1>3, <1>5, <2>1
<1>6. CASE queue # <<>> /\ Enter(c, "flush") /\ queue' = Tail(queue)
  <2>1. Flushing' = Flushing \cup {c}
    BY <1>6 DEF Enter, Flushing
  <2>2. Cardinality(Flushing') <= Cardinality(Flushing) + 1 /\ Cardinality(Flushing') \in Nat
    BY <1>1, <2>1, OneMoreOrLess
  <2>3. Len(queue') = Len(queue) - 1
    BY <1>6
  <2> QED  BY <1>1, <1>2, <2>2, <2>3
<1>7. \/ Enter(c, "serve") /\ queue' = queue
      \/ /\ queue # <<>>
         /\ Enter(c, "serve")
         /\ queue' = PutBack(Head(queue), Tail(queue))
      \/ queue # <<>> /\ Enter(c, "flush") /\ queue' = Tail(queue)
  BY DEF Flush
<1>8. CASE Enter(c, "serve") /\ queue' = queue
  BY <1>3, <1>8
<1> QED  BY <1>5, <1>6, <1>7, <1>8

\* A message is appended below the limit only.
LEMMA EnqueueBounded ==
  ASSUME ControlPlaneAssumption, TypeInv, FirstIsIdle, QueueBounded,
         NEW m \in Msgs, Enqueue(m), UNCHANGED handler
  PROVE  QueueBounded'
<1> USE DEF TypeInv, Inv, TypeOK, ControlPlaneAssumption
<1>1. Flushing' = Flushing
  BY DEF Flushing
<1>2. /\ Cardinality(Flushing) \in Nat /\ Cardinality(Conns) \in Nat
      /\ Cardinality(Flushing) < Cardinality(Conns)
  BY FewFlushes
<1>3. CASE UNCHANGED queue
  BY <1>1, <1>3 DEF QueueBounded
<1>4. CASE Len(queue) < MAX_QUEUE_SIZE /\ queue' = Append(queue, m)
  <2>1. Len(queue') = Len(queue) + 1 /\ Len(queue) \in Nat
    BY <1>4
  <2> QED  BY <1>1, <1>2, <1>4, <2>1 DEF QueueBounded
<1> QED  BY <1>3, <1>4 DEF Enqueue

LEMMA QueueBoundedStep ==
  ASSUME ControlPlaneAssumption, TypeInv, FirstIsIdle, QueueBounded, [Next]_vars
  PROVE  QueueBounded'
<1> USE DEF TypeInv, Inv, TypeOK
<1>0. /\ IsFiniteSet(Flushing)
      /\ Cardinality(Flushing) \in Nat /\ Cardinality(Conns) \in Nat
      /\ Len(queue) \in Nat /\ MAX_QUEUE_SIZE \in Nat
  BY FewFlushes DEF ControlPlaneAssumption
<1>1. ASSUME NEW c \in Conns, NEW w, NEW st, NEW pending, Flush(c, queue, w, st, pending)
      PROVE  QueueBounded'
  <2>1. Len(queue') + Cardinality(Flushing') <= Len(queue) + Cardinality(Flushing)
    BY <1>1, FlushBounded
  <2>2. Cardinality(Flushing') \in Nat
    <3>1. Flushing' \subseteq Flushing \cup {c}
      BY <1>1 DEF Flush, Enter, Flushing
    <3>2. IsFiniteSet(Flushing')
      BY <1>0, <3>1, FS_AddElement, FS_Subset
    <3> QED  BY <3>2, FS_CardinalityType
  <2>3. Len(queue') \in Nat
    <3>1. TypeInv'
      BY TypeStep
    <3> QED  BY <3>1
  <2> QED  BY <1>0, <2>1, <2>2, <2>3 DEF QueueBounded
<1>2. CASE Deliver
  <2>1. calls + 1 \in Msgs /\ UNCHANGED handler /\ Flushing' = Flushing
    BY <1>2, ControlPlaneAssumption DEF Deliver, Msgs, Flushing, ControlPlaneAssumption
  <2>2. CASE UNCHANGED queue
    BY <2>1, <2>2 DEF QueueBounded
  <2>3. CASE Enqueue(calls + 1)
    BY <2>1, <2>3, EnqueueBounded
  <2> QED  BY <1>2, <2>2, <2>3
           DEF Deliver, DeliverUnknown, DeliverNow, DeliverFails, DeliverLater, adapter
<1>3. ASSUME NEW s \in sends, SendEnds(s)
      PROVE  QueueBounded'
  <2>0. s.msg \in Msgs /\ s.by \in Conns \cup {Caller}
    BY DEF Send
  <2>1. CASE SendSucceeds(s) /\ s.by = Caller
    BY <2>1 DEF SendSucceeds, QueueBounded, Flushing
  <2>2. CASE SendSucceeds(s) /\ s.by # Caller
    BY <1>1, <2>0, <2>2 DEF SendSucceeds
  <2>3. CASE SendRaises(s) /\ s.by = Caller
    BY <2>0, <2>3, EnqueueBounded DEF SendRaises
  <2>4. CASE SendRaises(s) /\ s.by # Caller
    <3>1. PICK c \in Conns : c = s.by
      BY <2>0, <2>4
    <3>2. c \in Flushing /\ Flushing' = Flushing \ {c}
      BY <2>4, <3>1 DEF SendRaises, Enter, Flushing
    <3>3. Cardinality(Flushing') = Cardinality(Flushing) - 1
      BY <1>0, <3>2, FS_RemoveElement
    <3>4. Len(queue') = Len(queue) + 1
      BY <2>0, <2>4 DEF SendRaises, PutBack
    <3> QED  BY <1>0, <3>3, <3>4 DEF QueueBounded
  <2> QED  BY <1>3, <2>1, <2>2, <2>3, <2>4 DEF SendEnds
<1>4. ASSUME NEW c \in Conns, Register(c)
      PROVE  QueueBounded'
  BY <1>1, <1>4 DEF Register
<1>5. ASSUME NEW c \in Conns,
             \/ Connect(c) \/ Close(c) \/ GiveUp(c) \/ Unregister(c) \/ InboundRaises(c)
             \/ \E st \in ChannelStatusType : Report(c, st)
      PROVE  QueueBounded'
  <2>1. UNCHANGED queue
    BY <1>5 DEF Connect, Close, GiveUp, Unregister, InboundRaises, Report, adapter
  <2>2. Flushing' = Flushing
    BY <1>5 DEF Connect, Close, GiveUp, Unregister, InboundRaises, Report, Enter,
                Flushing, Accepted
  <2> QED  BY <2>1, <2>2 DEF QueueBounded
<1>6. CASE Stop \/ UNCHANGED vars
  <2>1. UNCHANGED queue /\ Flushing' = Flushing
    BY <1>6 DEF Stop, vars, adapter, Flushing
  <2> QED  BY <2>1 DEF QueueBounded
<1> QED  BY <1>2, <1>3, <1>4, <1>5, <1>6 DEF Next, Handle

\* The queue never exceeds MAX_QUEUE_SIZE by as much as one message for each
\* connection: with one connection the limit is exact.
THEOREM QueueIsBounded == Spec => []QueueBounded
<1>1. Init => TypeInv /\ FirstIsIdle /\ QueueBounded
  <2> SUFFICES ASSUME Init PROVE TypeInv /\ FirstIsIdle /\ QueueBounded
    OBVIOUS
  <2>1. TypeInv /\ FirstIsIdle
    BY TypeInit, ControlPlaneAssumption DEF Init, FirstIsIdle
  <2>2. /\ Cardinality(Flushing) \in Nat /\ Cardinality(Conns) \in Nat
        /\ Cardinality(Flushing) < Cardinality(Conns)
    BY <2>1, FewFlushes, ControlPlaneAssumption
  <2>3. Len(queue) = 0 /\ MAX_QUEUE_SIZE \in Nat
    BY ControlPlaneAssumption DEF Init, ControlPlaneAssumption
  <2> QED  BY <2>1, <2>2, <2>3 DEF QueueBounded
<1>2. TypeInv /\ FirstIsIdle /\ QueueBounded /\ [Next]_vars
        => TypeInv' /\ FirstIsIdle' /\ QueueBounded'
  BY TypeStep, FirstIsIdleStep, QueueBoundedStep, ControlPlaneAssumption
<1> QED  BY <1>1, <1>2, PTL DEF Spec

-----------------------------------------------------------------------------
(***************************************************************************)
(* Every message is in one place.                                          *)
(***************************************************************************)
In(q, m) == \E i \in DOMAIN q : q[i] = m
Distinct(q) == \A i, j \in DOMAIN q : q[i] = q[j] => i = j
With(p, m) == \E s \in p : s.msg = m

\* OnePlace for a queue q, sends p, messages d delivered and r refused of n calls.
Placed(q, p, d, r, n) ==
  /\ Distinct(q)
  /\ \A s, t \in p : s.msg = t.msg => s = t
  /\ \A m \in Msgs :
       /\ m <= n <=> In(q, m) \/ With(p, m) \/ m \in d \/ m \in r
       /\ ~(In(q, m) /\ With(p, m))
       /\ m \in d => ~In(q, m) /\ ~With(p, m) /\ m \notin r
       /\ m \in r => ~In(q, m) /\ ~With(p, m)

LEMMA PlacedIsOnePlace == OnePlace <=> Placed(queue, sends, delivered, refused, calls)
BY DEF OnePlace, Placed, Distinct, In, With, InQueue, Sending

LEMMA Appended ==
  ASSUME NEW q \in Seq(Msgs), NEW m \in Msgs, ~In(q, m), Distinct(q)
  PROVE  /\ Distinct(Append(q, m))
         /\ \A k : In(Append(q, m), k) <=> In(q, k) \/ k = m
<1>1. /\ DOMAIN Append(q, m) = DOMAIN q \cup {Len(q) + 1}
      /\ Append(q, m)[Len(q) + 1] = m /\ Len(q) + 1 \notin DOMAIN q
      /\ \A i \in DOMAIN q : Append(q, m)[i] = q[i]
  OBVIOUS
<1> QED  BY <1>1 DEF In, Distinct

LEMMA Popped ==
  ASSUME NEW q \in Seq(Msgs), q # <<>>, Distinct(q)
  PROVE  /\ Distinct(Tail(q)) /\ ~In(Tail(q), Head(q)) /\ Head(q) \in Msgs
         /\ \A k : In(q, k) <=> In(Tail(q), k) \/ k = Head(q)
<1>1. /\ Head(q) = q[1] /\ 1 \in DOMAIN q /\ Head(q) \in Msgs
      /\ \A i \in DOMAIN Tail(q) : i + 1 \in DOMAIN q /\ i + 1 # 1 /\ Tail(q)[i] = q[i + 1]
      /\ \A i \in DOMAIN Tail(q) : i \in Nat
  OBVIOUS
<1>2. \A i \in DOMAIN q \ {1} : i - 1 \in DOMAIN Tail(q) /\ Tail(q)[i - 1] = q[i]
  OBVIOUS
<1>3. Distinct(Tail(q)) /\ ~In(Tail(q), Head(q))
  BY <1>1 DEF In, Distinct
<1>4. \A k : In(q, k) <=> In(Tail(q), k) \/ k = Head(q)
  BY <1>1, <1>2 DEF In
<1> QED  BY <1>1, <1>3, <1>4

LEMMA PutInFront ==
  ASSUME NEW q \in Seq(Msgs), NEW m \in Msgs, ~In(q, m), Distinct(q)
  PROVE  /\ Distinct(PutBack(m, q))
         /\ \A k : In(PutBack(m, q), k) <=> In(q, k) \/ k = m
<1> DEFINE f == <<m>> \o q
<1>1. /\ 1 \in DOMAIN f /\ f[1] = m
      /\ \A i \in DOMAIN q : i + 1 \in DOMAIN f /\ f[i + 1] = q[i]
      /\ \A i \in DOMAIN f \ {1} : i - 1 \in DOMAIN q /\ q[i - 1] = f[i] /\ i \in Nat
  OBVIOUS
<1>2. PutBack(m, q) = f
  BY DEF PutBack
<1> HIDE DEF f
<1>3. Distinct(f) /\ \A k : In(f, k) <=> In(q, k) \/ k = m
  BY <1>1 DEF In, Distinct
<1> QED  BY <1>2, <1>3

\* A flush moves the first message into a send, or nothing.
LEMMA FlushPlaced ==
  ASSUME NEW c, NEW w, NEW st, NEW pending, NEW d, queue \in Seq(Msgs),
         Placed(queue, pending, d, refused, calls), Flush(c, queue, w, st, pending)
  PROVE  Placed(queue', sends', d, refused, calls)
<1>1. CASE queue' = queue /\ sends' = pending
  BY <1>1
<1>2. CASE queue # <<>> /\ queue' = PutBack(Head(queue), Tail(queue)) /\ sends' = pending
  <2>1. <<Head(queue)>> \o Tail(queue) = queue
    BY <1>2
  <2> QED  BY <1>2, <2>1 DEF PutBack
<1>3. CASE /\ queue # <<>> /\ queue' = Tail(queue)
           /\ sends' = pending \cup {[msg |-> Head(queue), by |-> c, on |-> w]}
  <2> DEFINE m == Head(queue)
             s == [msg |-> m, by |-> c, on |-> w]
  <2>1. /\ Distinct(queue') /\ ~In(queue', m) /\ m \in Msgs /\ In(queue, m)
        /\ \A k : In(queue, k) <=> In(queue', k) \/ k = m
    BY <1>3, Popped DEF Placed
  <2>2. sends' = pending \cup {s} /\ s.msg = m
    BY <1>3
  <2>3. ~With(pending, m) /\ m \notin d /\ m \notin refused
    BY <2>1 DEF Placed
  <2> HIDE DEF m, s
  <2>4. \A k : With(sends', k) <=> With(pending, k) \/ k = m
    BY <2>2 DEF With
  <2>5. \A t, u \in sends' : t.msg = u.msg => t = u
    BY <2>2, <2>3 DEF Placed, With
  <2> QED  BY <2>1, <2>3, <2>4, <2>5 DEF Placed
<1> QED  BY <1>1, <1>2, <1>3 DEF Flush, Write

\* A message that is in no place is queued or refused.
LEMMA EnqueuePlaced ==
  ASSUME NEW m \in Msgs, NEW p, NEW n, queue \in Seq(Msgs), Enqueue(m),
         m \notin refused,
         Placed(queue, p, delivered, refused \cup {m}, n)
  PROVE  Placed(queue', p, delivered, refused', n)
<1>1. CASE refused' = refused \cup {m} /\ queue' = queue
  BY <1>1
<1>2. CASE queue' = Append(queue, m) /\ refused' = refused
  <2>1. Distinct(queue) /\ ~In(queue, m)
    BY DEF Placed
  <2>2. Distinct(queue') /\ \A k : In(queue', k) <=> In(queue, k) \/ k = m
    BY <1>2, <2>1, Appended
  <2> QED  BY <1>2, <2>2 DEF Placed
<1> QED  BY <1>1, <1>2 DEF Enqueue

LEMMA OnePlaceStep ==
  ASSUME ControlPlaneAssumption, TypeInv, OnePlace, [Next]_vars
  PROVE  OnePlace'
<1> DEFINE P == Placed(queue, sends, delivered, refused, calls)
<1> SUFFICES P'
  BY DEF Placed, OnePlace, Distinct, In, With, InQueue, Sending
<1>0. /\ P /\ queue \in Seq(Msgs) /\ calls \in 0..MaxMessages /\ MaxMessages \in Nat
      /\ \A s \in sends : s.msg \in Msgs
  BY PlacedIsOnePlace DEF TypeInv, Inv, TypeOK, Send, ControlPlaneAssumption
<1>1. CASE Deliver
  <2> DEFINE m == calls + 1
  <2>1. m \in Msgs /\ calls' = m /\ delivered' = delivered
    BY <1>0, <1>1 DEF Deliver, Msgs
  <2>2. /\ ~In(queue, m) /\ ~With(sends, m) /\ m \notin delivered /\ m \notin refused
        /\ \A k \in Msgs : k <= m <=> k <= calls \/ k = m
    <3>1. ~(m <= calls) /\ \A k \in Msgs : k <= m <=> k <= calls \/ k = m
      BY <1>0 DEF Msgs
    <3> QED  BY <1>0, <2>1, <3>1 DEF Placed
  <2> HIDE DEF m
  <2>3. Placed(queue, sends, delivered, refused \cup {m}, m)
    BY <1>0, <2>1, <2>2 DEF Placed
  <2>4. CASE DeliverUnknown(m)
    BY <2>1, <2>3, <2>4 DEF DeliverUnknown, adapter
  <2>5. CASE DeliverNow(m)
    <3>1. PICK s : s.msg = m /\ sends' = sends \cup {s}
      <4>1. sends' = sends \cup {[msg |-> m, by |-> Caller, on |-> websocket]}
        BY <2>5 DEF DeliverNow, Write
      <4> QED  BY <4>1
    <3>2. \A k : With(sends', k) <=> With(sends, k) \/ k = m
      BY <3>1 DEF With
    <3>3. \A t, u \in sends' : t.msg = u.msg => t = u
      BY <1>0, <2>2, <3>1 DEF Placed, With
    <3>4. queue' = queue /\ refused' = refused
      BY <2>5 DEF DeliverNow, adapter
    <3> QED  BY <1>0, <2>1, <2>2, <3>2, <3>3, <3>4 DEF Placed
  <2>6. CASE DeliverFails(m) \/ DeliverLater(m)
    <3>1. Enqueue(m) /\ sends' = sends
      BY <2>6 DEF DeliverFails, DeliverLater
    <3> QED  BY <1>0, <2>1, <2>2, <2>3, <3>1, EnqueuePlaced
  <2> QED  BY <1>1, <2>4, <2>5, <2>6 DEF Deliver, m
<1>2. ASSUME NEW s \in sends, SendEnds(s)  PROVE P'
  <2>1. /\ s.msg \in Msgs /\ calls' = calls
        /\ ~In(queue, s.msg) /\ s.msg \notin delivered /\ s.msg \notin refused
        /\ \A k : With(sends, k) <=> With(sends \ {s}, k) \/ k = s.msg
        /\ ~With(sends \ {s}, s.msg)
        /\ \A t, u \in sends \ {s} : t.msg = u.msg => t = u
    <3>1. With(sends, s.msg)
      BY DEF With
    <3>2. \A t \in sends : t.msg = s.msg => t = s
      BY <1>0 DEF Placed
    <3> QED  BY <1>0, <1>2, <3>1, <3>2 DEF Placed, With, SendEnds
  <2>2. CASE SendSucceeds(s)
    <3>1. Placed(queue, sends \ {s}, delivered', refused, calls) /\ refused' = refused
      BY <1>0, <2>1, <2>2 DEF SendSucceeds, Placed
    <3>2. CASE s.by = Caller
      BY <2>1, <2>2, <3>1, <3>2 DEF SendSucceeds
    <3>3. CASE s.by # Caller
      BY <1>0, <2>1, <2>2, <3>1, <3>3, FlushPlaced DEF SendSucceeds
    <3> QED  BY <3>2, <3>3
  <2>3. CASE SendRaises(s) /\ s.by = Caller
    <3>1. Placed(queue, sends \ {s}, delivered, refused \cup {s.msg}, calls)
      BY <1>0, <2>1 DEF Placed
    <3>2. Enqueue(s.msg) /\ sends' = sends \ {s} /\ delivered' = delivered
      BY <2>3 DEF SendRaises
    <3> QED  BY <1>0, <2>1, <3>1, <3>2, EnqueuePlaced
  <2>4. CASE SendRaises(s) /\ s.by # Caller
    <3>1. /\ queue' = PutBack(s.msg, queue) /\ sends' = sends \ {s}
          /\ delivered' = delivered /\ refused' = refused
      BY <2>4 DEF SendRaises
    <3>2. Distinct(queue') /\ \A k : In(queue', k) <=> In(queue, k) \/ k = s.msg
      <4>1. Distinct(queue)
        BY <1>0 DEF Placed
      <4> QED  BY <1>0, <2>1, <3>1, <4>1, PutInFront
    <3> QED  BY <1>0, <2>1, <3>1, <3>2 DEF Placed
  <2> QED  BY <1>2, <2>2, <2>3, <2>4 DEF SendEnds
<1>3. ASSUME NEW c \in Conns, Register(c)  PROVE P'
  BY <1>0, <1>3, FlushPlaced DEF Register, outcome
<1>4. ASSUME NEW c \in Conns,
             \/ Connect(c) \/ Close(c) \/ GiveUp(c) \/ Unregister(c) \/ InboundRaises(c)
             \/ \E st \in ChannelStatusType : Report(c, st)
      PROVE  P'
  <2>1. UNCHANGED <<queue, sends, delivered, refused, calls>>
    BY <1>4 DEF Connect, Close, GiveUp, Unregister, InboundRaises, Report, adapter, outcome
  <2> QED  BY <1>0, <2>1
<1>5. CASE Stop \/ UNCHANGED vars
  <2>1. UNCHANGED <<queue, sends, delivered, refused, calls>>
    BY <1>5 DEF Stop, vars, adapter, outcome
  <2> QED  BY <1>0, <2>1
<1> QED  BY <1>1, <1>2, <1>3, <1>4, <1>5 DEF Next, Handle

\* deliver_outbound_message, _flush_message_queue and the failures of their sends
\* lose no message and double none: each is queued once, under way once, counted
\* as delivered or refused.
THEOREM MessagesAreInOnePlace == Spec => []OnePlace
<1>1. Init => TypeInv /\ OnePlace
  <2> SUFFICES ASSUME Init PROVE OnePlace
    BY TypeInit, ControlPlaneAssumption
  <2> QED  BY ControlPlaneAssumption
           DEF Init, OnePlace, InQueue, Sending, Msgs, ControlPlaneAssumption
<1>2. TypeInv /\ OnePlace /\ [Next]_vars => TypeInv' /\ OnePlace'
  BY TypeStep, OnePlaceStep, ControlPlaneAssumption
<1> QED  BY <1>1, <1>2, PTL DEF Spec

-------------------------------------------------------------------------------
(* The control plane implements FifoChannel.                               *)

\* At most one send is under way, and its connection is open.
OneOpenSend ==
  /\ \A s, t \in sends : s = t
  /\ \A s \in sends : link[s.on] = "open"

PromptInv == TypeInv /\ NothingLeftBehind /\ OneOpenSend

LEMMA PromptIsNext == [PromptNext]_vars => [Next]_vars
BY DEF PromptNext, Next

\* A flush without another send under way.
LEMMA FlushSends ==
  ASSUME NEW c, NEW q, NEW w, NEW st, Flush(c, q, w, st, {}), link' = link
  PROVE  OneOpenSend'
BY DEF Flush, Write, OneOpenSend

LEMMA OnlySend ==
  ASSUME OneOpenSend, NEW s \in sends, SendEnds(s)
  PROVE  sends \ {s} = {} /\ SendSucceeds(s)
BY DEF OneOpenSend, SendEnds, SendRaises

LEMMA OneOpenSendStep ==
  ASSUME TypeInv, OneOpenSend, [PromptNext]_vars
  PROVE  OneOpenSend'
<1>1. ASSUME NEW s \in sends, SendEnds(s)  PROVE OneOpenSend'
  <2>1. sends \ {s} = {} /\ SendSucceeds(s) /\ link' = link
    BY <1>1, OnlySend DEF SendEnds
  <2>2. CASE s.by = Caller
    BY <2>1, <2>2 DEF SendSucceeds, OneOpenSend
  <2>3. CASE s.by # Caller
    BY <2>1, <2>3, FlushSends DEF SendSucceeds
  <2> QED  BY <2>2, <2>3
<1>2. ASSUME sends = {}, Deliver  PROVE OneOpenSend'
  BY <1>2 DEF Deliver, DeliverUnknown, DeliverNow, DeliverFails, DeliverLater, Write,
              OneOpenSend
<1>3. ASSUME sends = {}, NEW c \in Conns, Register(c)  PROVE OneOpenSend'
  BY <1>3, FlushSends DEF Register
<1>4. ASSUME sends = {}, NEW c \in Conns,
             \/ Connect(c) \/ Close(c) \/ GiveUp(c) \/ Unregister(c) \/ InboundRaises(c)
             \/ \E st \in ChannelStatusType : Report(c, st)
      PROVE  OneOpenSend'
  BY <1>4 DEF Connect, Close, GiveUp, Unregister, InboundRaises, Report, OneOpenSend
<1>5. CASE sends = {} /\ Stop
  BY <1>5 DEF Stop, OneOpenSend
<1>6. CASE UNCHANGED vars
  BY <1>6 DEF vars, OneOpenSend
<1> QED
  BY <1>1, <1>2, <1>3, <1>4, <1>5, <1>6 DEF PromptNext, Next, Handle

\* A flush sends the first message of the queue or leaves the queue as it was:
\* a message that could not be sent is put back where it came from.
LEMMA FlushTransmits ==
  ASSUME NEW c, NEW w, NEW st, NEW pending, queue \in Seq(Msgs),
         Flush(c, queue, w, st, pending), calls' = calls
  PROVE  [Fifo!Next]_<<calls, queue, log>>
<1>1. CASE queue # <<>> /\ queue' = PutBack(Head(queue), Tail(queue)) /\ log' = log
  <2>1. <<Head(queue)>> \o Tail(queue) = queue
    BY <1>1
  <2> QED  BY <1>1, <2>1 DEF PutBack
<1>2. CASE queue # <<>> /\ queue' = Tail(queue) /\ log' = Append(log, Head(queue))
  BY <1>2 DEF Fifo!Next, Fifo!Transmit
<1>3. CASE queue' = queue /\ log' = log
  BY <1>3
<1> QED  BY <1>1, <1>2, <1>3 DEF Flush, Write

LEMMA EnqueueAccepts ==
  ASSUME calls < MaxMessages, calls' = calls + 1, Enqueue(calls + 1), log' = log
  PROVE  Fifo!Next
BY DEF Enqueue, Fifo!Next, Fifo!Refuse, Fifo!Accept

\* With nothing under way, a message is handed to a connected adapter only when
\* nothing is queued before it.
LEMMA DeliverPasses ==
  ASSUME PromptInv, sends = {}, "report" \notin Disturbances, Deliver
  PROVE  Fifo!Next
<1>1. calls < MaxMessages /\ calls' = calls + 1
  BY DEF Deliver
<1>2. CASE DeliverUnknown(calls + 1)
  BY <1>1, <1>2 DEF DeliverUnknown, adapter, Fifo!Next, Fifo!Refuse
<1>3. CASE DeliverNow(calls + 1)
  <2>1. "report" \notin seen /\ Flushing = {}
    BY DEF PromptInv, TypeInv, Inv, TypeOK, Flushing
  <2>2. queue = <<>>
    BY <1>3, <2>1 DEF DeliverNow, PromptInv, NothingLeftBehind
  <2> QED  BY <1>1, <1>3, <2>2 DEF DeliverNow, Write, adapter, Fifo!Next, Fifo!Pass
<1>4. CASE DeliverFails(calls + 1) \/ DeliverLater(calls + 1)
  BY <1>1, <1>4, EnqueueAccepts DEF DeliverFails, DeliverLater
<1> QED  BY <1>2, <1>3, <1>4 DEF Deliver

LEMMA FifoStep ==
  ASSUME PromptInv, "report" \notin Disturbances, [PromptNext]_vars
  PROVE  [Fifo!Next]_<<calls, queue, log>>
<1>0. queue \in Seq(Msgs)
  BY DEF PromptInv, TypeInv, Inv, TypeOK
<1>1. ASSUME NEW s \in sends, SendEnds(s)  PROVE [Fifo!Next]_<<calls, queue, log>>
  <2>1. SendSucceeds(s) /\ calls' = calls
    BY <1>1, OnlySend DEF PromptInv, SendEnds
  <2>2. CASE s.by = Caller
    BY <2>1, <2>2 DEF SendSucceeds
  <2>3. CASE s.by # Caller
    BY <1>0, <2>1, <2>3, FlushTransmits DEF SendSucceeds
  <2> QED  BY <2>2, <2>3
<1>2. ASSUME sends = {}, Deliver  PROVE Fifo!Next
  BY <1>2, DeliverPasses
<1>3. ASSUME NEW c \in Conns, Register(c)  PROVE [Fifo!Next]_<<calls, queue, log>>
  BY <1>0, <1>3, FlushTransmits DEF Register
<1>4. ASSUME NEW c \in Conns,
             \/ Connect(c) \/ Close(c) \/ GiveUp(c) \/ Unregister(c) \/ InboundRaises(c)
             \/ \E st \in ChannelStatusType : Report(c, st)
      PROVE  UNCHANGED <<calls, queue, log>>
  BY <1>4 DEF Connect, Close, GiveUp, Unregister, InboundRaises, Report, adapter
<1>5. CASE Stop \/ UNCHANGED vars
  BY <1>5 DEF Stop, vars, adapter
<1> QED
  BY <1>1, <1>2, <1>3, <1>4, <1>5 DEF PromptNext, Next, Handle

\* The control plane is a bounded first-in first-out channel while its sends
\* return at once: _flush_message_queue, deliver_outbound_message and the handlers
\* of connections that come, go and overlap neither lose, repeat nor reorder a
\* message that was accepted.
THEOREM ChannelIsFifo ==
  ASSUME "report" \notin Disturbances
  PROVE  PromptSpec => IsFifo
<1>1. Init => PromptInv /\ Fifo!Init
  <2> SUFFICES ASSUME Init PROVE PromptInv /\ Fifo!Init
    OBVIOUS
  <2>1. TypeInv
    BY TypeInit, ControlPlaneAssumption
  <2> QED  BY <2>1 DEF Init, PromptInv, NothingLeftBehind, OneOpenSend, Fifo!Init
<1>2. PromptInv /\ [PromptNext]_vars => PromptInv'
  BY PromptIsNext, TypeStep, NothingLeftBehindStep, OneOpenSendStep, ControlPlaneAssumption
     DEF PromptInv
<1>3. PromptInv /\ [PromptNext]_vars => [Fifo!Next]_<<calls, queue, log>>
  BY FifoStep
<1> QED  BY <1>1, <1>2, <1>3, PTL DEF PromptSpec, IsFifo, Fifo!Spec
================================================================================
