------------------------ MODULE NamespaceSocket_proofs ------------------------
(***************************************************************************)
(* Proofs about NamespaceSocket: its type invariant, and that the callback  *)
(* of a message is called at most once.                                     *)
(***************************************************************************)
EXTENDS NamespaceSocket, SequenceTheorems, TLAPS

(* What is left of a sequence after a removal has the type of the sequence. *)
LEMMA RemoveAtType ==
  ASSUME NEW S, NEW s \in Seq(S), NEW i \in DOMAIN s
  PROVE  RemoveAt(s, i) \in Seq(S)
<1>1. Len(s) \in Nat /\ s \in [1 .. Len(s) -> S] /\ i \in 1 .. Len(s)
  BY LenProperties
<1>2. SubSeq(s, 1, i - 1) \in Seq(S)
  BY <1>1, SubSeqProperties
<1>3. SubSeq(s, i + 1, Len(s)) \in Seq(S)
  BY <1>1, SubSeqProperties
<1> QED BY <1>2, <1>3, ConcatProperties DEF RemoveAt

(* The empty sequence has the type of every sequence. *)
LEMMA EmptyType ==
  ASSUME NEW S
  PROVE  <<>> \in Seq(S)
  BY EmptySeq

(* A sequence extended by an element keeps its type. *)
LEMMA AppendType ==
  ASSUME NEW S, NEW s \in Seq(S), NEW e \in S
  PROVE  s \o <<e>> \in Seq(S) /\ Append(s, e) \in Seq(S)
  OBVIOUS

(* A queue entry stays one, of the same message, when _drainQueue tries it. *)
LEMMA TriedType ==
  ASSUME NEW e \in QueueEntry
  PROVE  Tried(e) \in QueueEntry /\ Tried(e).m = e.m
<1> DEFINE sent == [e EXCEPT !.pending = TRUE]
<1>1. sent \in QueueEntry /\ sent.m = e.m BY DEF QueueEntry
<1> HIDE DEF sent
<1>2. [sent EXCEPT !.tryCount = @ + 1] \in QueueEntry
  BY <1>1 DEF QueueEntry
<1>3. [sent EXCEPT !.tryCount = @ + 1].m = e.m
  BY <1>1 DEF QueueEntry
<1> QED BY <1>2, <1>3 DEF Tried, sent

(* The constructor's state has the right type (socket.ts:285-300). *)
LEMMA InitTypeOK == Init => TypeOK
<1> SUFFICES ASSUME Init PROVE TypeOK OBVIOUS
<1> USE RetriesAssumption, BoundsAssumption DEF Init
<1>1. SocketTypeOK BY EmptyType DEF SocketTypeOK, NoFlags, Pids
<1>2. QueueTypeOK BY DEF QueueTypeOK
<1>3. ManagerTypeOK BY EmptyType DEF ManagerTypeOK
<1>4. WireTypeOK BY DEF WireTypeOK
<1>5. HistoryTypeOK BY DEF HistoryTypeOK, Messages
<1> QED BY <1>1, <1>2, <1>3, <1>4, <1>5 DEF TypeOK

(* _drainQueue keeps the types of what it changes. *)
LEMMA DrainQueueType ==
  ASSUME TypeOK, NEW q \in Seq(QueueEntry), NEW a \in SUBSET Handler, NEW t \in SUBSET Handler,
         NEW force \in BOOLEAN, DrainQueue(q, a, t, force)
  PROVE  QueueTypeOK' /\ out' \in Seq(Packet) /\ flags' \subseteq {"volatile", "timeout"}
<1>1. CASE SendsHead(q, force)
  <2>0. q # <<>> BY <1>1 DEF SendsHead
  <2>1. Head(q) \in QueueEntry /\ Tail(q) \in Seq(QueueEntry)
    BY <2>0, HeadTailProperties
  <2>2. Tried(Head(q)) \in QueueEntry BY <2>1, TriedType
  <2>3. HeadHandler(Head(q)) \in Handler
    BY <2>1 DEF HeadHandler, QueueEntry, Handler, TypeOK, QueueTypeOK
  <2>4. EventPacket(ids, Head(q).m) \in Packet
    BY <2>1, BoundsAssumption DEF EventPacket, PacketOf, Packet, QueueEntry, Pids, TypeOK, QueueTypeOK, Messages
  <2>5. queue' \in Seq(QueueEntry) BY <1>1, <2>1, <2>2 DEF DrainQueue
  <2>6. acks' \subseteq Handler /\ timers' \subseteq Handler /\ ids' \in Nat
    BY <1>1, <2>3 DEF DrainQueue, Register, NextId, TypeOK, QueueTypeOK
  <2>7. out' \in Seq(Packet) BY <1>1, <2>4, AppendType DEF DrainQueue, Write, TypeOK, WireTypeOK
  <2> QED BY <1>1, <2>5, <2>6, <2>7 DEF DrainQueue, QueueTypeOK, NoFlags
<1>2. CASE ~SendsHead(q, force)
  BY <1>2 DEF DrainQueue, TypeOK, QueueTypeOK, SocketTypeOK, WireTypeOK
<1> QED BY <1>1, <1>2

(* Writing packets keeps the type of the wire. *)
LEMMA WriteType ==
  ASSUME TypeOK, NEW pkts \in Seq(Packet), Write(pkts)
  PROVE  out' \in Seq(Packet)
  BY ConcatProperties DEF Write, TypeOK, WireTypeOK

(* CONNECT, DISCONNECT and CONNECT_ERROR packets are packets. *)
LEMMA ControlType ==
  ASSUME NEW type \in {"CONNECT", "DISCONNECT", "CONNECT_ERROR"}
  PROVE  Control(type) \in Packet /\ <<Control(type)>> \in Seq(Packet)
<1>1. Control(type) \in Packet BY DEF Control, PacketOf, Packet, Pids, NoId
<1> QED BY <1>1

(* ACK packets are packets. *)
LEMMA AckPacketType ==
  ASSUME NEW id \in Int, NEW n \in Nat
  PROVE  AckPacket(id, n) \in Packet /\ <<AckPacket(id, n)>> \in Seq(Packet)
<1>1. AckPacket(id, n) \in Packet BY DEF AckPacket, PacketOf, Packet, Pids
<1> QED BY <1>1

(* EVENT packets are packets. *)
LEMMA EventPacketType ==
  ASSUME NEW id \in Int, NEW m \in Nat
  PROVE  EventPacket(id, m) \in Packet /\ <<EventPacket(id, m)>> \in Seq(Packet)
<1>1. EventPacket(id, m) \in Packet BY DEF EventPacket, PacketOf, Packet, Pids
<1> QED BY <1>1

(* onclose keeps the types of what it changes. *)
LEMMA OnCloseType ==
  ASSUME TypeOK, NEW n \in Nat, OnClose(n)
  PROVE  connected' \in BOOLEAN /\ stack' \in Seq(Frames)
<1>1. [i \in 1 .. n |-> "disconnect"] \in Seq(Frames)
  BY DEF Frames
<1>2. stack' \in Seq(Frames)
  BY <1>1, ConcatProperties DEF OnClose, TypeOK, SocketTypeOK
<1>3. connected' \in BOOLEAN
  BY DEF OnClose, TypeOK, SocketTypeOK
<1> QED BY <1>2, <1>3

(* destroy() keeps the types of what it changes. *)
LEMMA DestroyType ==
  ASSUME TypeOK, NEW last \in BOOLEAN, NEW yields \in BOOLEAN,
         NEW caller \in {"client", "server", "error"}, NEW n \in Nat,
         Destroy(last, yields, caller, n)
  PROVE  /\ ManagerTypeOK'
         /\ subs' \in BOOLEAN /\ connected' \in BOOLEAN /\ stack' \in Seq(Frames)
         /\ inb' \in Seq(Packet)
<1>1. CASE ~last
  <2>1. OnClose(n) BY <1>1 DEF Destroy
  <2>2. connected' \in BOOLEAN /\ stack' \in Seq(Frames) BY <2>1, OnCloseType
  <2> QED BY <1>1, <2>2 DEF Destroy, ioVars, TypeOK, ManagerTypeOK, WireTypeOK
<1>2. CASE last /\ yields
  <2>1. suspended' \in Seq({"client", "server", "error"})
    BY <1>2, AppendProperties DEF Destroy, TypeOK, ManagerTypeOK
  <2> QED BY <1>2, <2>1, EmptyType
          DEF Destroy, TypeOK, ManagerTypeOK, SocketTypeOK
<1>3. CASE last /\ ~yields
  <2>1. OnClose(n) BY <1>3 DEF Destroy
  <2>2. connected' \in BOOLEAN /\ stack' \in Seq(Frames) BY <2>1, OnCloseType
  <2> QED BY <1>3, <2>2, EmptyType DEF Destroy, TypeOK, ManagerTypeOK
<1> QED BY <1>1, <1>2, <1>3

(* Recording a callback keeps the type of the record. *)
LEMMA ToldType ==
  ASSUME NEW f \in [Messages -> Seq({"ok", "err"})], NEW m \in Messages,
         NEW o \in {"ok", "err"}
  PROVE  Told(f, m, o) \in [Messages -> Seq({"ok", "err"})]
  BY AppendProperties DEF Told

(* The queue is a queue after its callback, which is for a message. *)
LEMMA AfterCallbackType ==
  ASSUME TypeOK, NEW m, NEW err \in BOOLEAN, IsHead(m)
  PROVE  /\ AfterCallback(m, err) \in Seq(QueueEntry)
         /\ m \in Messages
<1>1. queue # <<>> /\ queue \in Seq(QueueEntry) BY DEF IsHead, TypeOK, QueueTypeOK
<1>2. Head(queue) \in QueueEntry /\ Tail(queue) \in Seq(QueueEntry)
  BY <1>1, HeadTailProperties
<1>3. [Head(queue) EXCEPT !.pending = FALSE] \in QueueEntry
  BY <1>2 DEF QueueEntry
<1>4. <<[Head(queue) EXCEPT !.pending = FALSE]>> \o Tail(queue) \in Seq(QueueEntry)
  BY <1>2, <1>3, ConcatProperties
<1>5. m \in Messages BY <1>2 DEF IsHead, QueueEntry
<1> QED BY <1>2, <1>4, <1>5 DEF AfterCallback

(* The callback of _addToQueue keeps the types of what it changes. *)
LEMMA QueueCallbackType ==
  ASSUME TypeOK, NEW m, NEW err \in BOOLEAN, NEW a \in SUBSET Handler,
         NEW t \in SUBSET Handler, QueueCallback(m, err, a, t)
  PROVE  /\ QueueTypeOK' /\ out' \in Seq(Packet)
         /\ flags' \subseteq {"volatile", "timeout"}
         /\ outcomes' \in [Messages -> Seq({"ok", "err"})]
<1>1. outcomes' \in [Messages -> Seq({"ok", "err"})]
  <2>1. CASE Settles(m, err) /\ Head(queue).ack
    <3>1. m \in Messages BY <2>1, AfterCallbackType DEF Settles
    <3>2. outcomes \in [Messages -> Seq({"ok", "err"})]
      BY DEF TypeOK, HistoryTypeOK
    <3>3. outcomes' = Told(outcomes, m, IF err THEN "err" ELSE "ok")
      BY <2>1 DEF QueueCallback
    <3> QED BY <3>1, <3>2, <3>3, ToldType
  <2>2. CASE ~(Settles(m, err) /\ Head(queue).ack)
    BY <2>2 DEF QueueCallback, TypeOK, HistoryTypeOK
  <2> QED BY <2>1, <2>2
<1>2. CASE IsHead(m)
  <2>1. AfterCallback(m, err) \in Seq(QueueEntry) BY <1>2, AfterCallbackType
  <2>2. DrainQueue(AfterCallback(m, err), a, t, FALSE) BY <1>2 DEF QueueCallback
  <2> QED BY <1>1, <2>1, <2>2, DrainQueueType
<1>3. CASE ~IsHead(m)
  BY <1>1, <1>3 DEF QueueCallback, TypeOK, QueueTypeOK, WireTypeOK, SocketTypeOK
<1> QED BY <1>2, <1>3

(* Delivering packets keeps the types of what the user has received. *)
LEMMA DeliverType ==
  ASSUME TypeOK, NEW s \in Seq(Packet), Deliver(s)
  PROVE  delivered' \in Seq(Nat) /\ toAck' \subseteq Nat
<1>1. \A i \in DOMAIN s : s[i].m \in Nat
  <2>1. \A i \in DOMAIN s : s[i] \in Packet BY LenProperties
  <2> QED BY <2>1 DEF Packet
<1>2. EventNumbers(s) \in Seq(Nat)
  BY <1>1, LenProperties DEF EventNumbers
<1>3. delivered' \in Seq(Nat)
  BY <1>2, ConcatProperties DEF Deliver, TypeOK, HistoryTypeOK
<1>4. toAck' \subseteq Nat
  BY <1>1 DEF Deliver, TypeOK, HistoryTypeOK
<1> QED BY <1>3, <1>4

(* emit keeps every type. *)
LEMMA EmitType == ASSUME TypeOK, Emit PROVE TypeOK'
<1>1. PICK mods \in SUBSET Modifiers, kind \in AckKinds :
         EmitDirect(mods, kind) \/ EmitQueued(mods, kind)
  BY DEF Emit
<1> DEFINE fl == flags \cup mods
<1>2. fl \subseteq {"volatile", "timeout"}
  BY ModifiersAssumption DEF TypeOK, SocketTypeOK
<1>3. kind \in {"none", "fn", "table"} BY AckKindsAssumption
<1> HIDE DEF fl
<1>4. ASSUME NextMessage(fl)
      PROVE  /\ emitted + 1 \in Messages
             /\ HistoryTypeOK' /\ ManagerTypeOK' /\ stack' \in Seq(Frames)
             /\ (out' \in Seq(Packet) => WireTypeOK')
  <2>1. emitted + 1 \in Messages
    BY <1>4, BoundsAssumption DEF NextMessage, Messages, TypeOK, HistoryTypeOK
  <2>2. ModeOf(fl) \in {"unsent", "plain", "volatile", "replay"}
    BY DEF ModeOf
  <2>3. HistoryTypeOK'
    BY <1>4, <2>1, <2>2, BoundsAssumption DEF NextMessage, TypeOK, HistoryTypeOK
  <2> QED BY <1>4, <2>1, <2>3
          DEF NextMessage, ioVars, serverVars, TypeOK, ManagerTypeOK, SocketTypeOK, WireTypeOK
<1>5. CASE EmitDirect(mods, kind)
  <2> DEFINE id == IF kind = "none" THEN NoId ELSE ids
  <2>1. NextMessage(fl) BY <1>5 DEF EmitDirect, fl
  <2>2. id \in Int BY DEF NoId, TypeOK, QueueTypeOK
  <2>3. EventPacket(id, emitted + 1) \in Packet
    BY <1>4, <2>1, <2>2, BoundsAssumption, EventPacketType DEF Messages
  <2>4. Route(fl, EventPacket(id, emitted + 1)) BY <1>5 DEF EmitDirect, fl
  <2>5. out' \in Seq(Packet) /\ sendBuffer' \in Seq(Packet)
    <3> DEFINE p == EventPacket(id, emitted + 1)
    <3>1. p \in Packet BY <2>3
    <3>2. Route(fl, p) BY <2>4
    <3> HIDE DEF p, id
    <3>3. sendBuffer' \in Seq(Packet)
      <4>1. sendBuffer \in Seq(Packet) BY DEF TypeOK, SocketTypeOK
      <4>2. Append(sendBuffer, p) \in Seq(Packet) BY <3>1, <4>1, AppendType
      <4> QED BY <3>2, <4>1, <4>2 DEF Route
    <3>4. out' \in Seq(Packet)
      BY <3>1, <3>2, AppendType DEF Route, Write, TypeOK, WireTypeOK
    <3> QED BY <3>3, <3>4
  <2>6. QueueTypeOK'
    <3>1. CASE kind = "none"
      BY <1>5, <3>1 DEF EmitDirect, ackVars, TypeOK, QueueTypeOK
    <3>2. CASE kind # "none"
      <4>1. NewHandler(fl, kind) \in Handler
        BY <1>4, <2>1 DEF NewHandler, Handler, TypeOK, QueueTypeOK
      <4>2. Register(acks, timers, NewHandler(fl, kind))
        BY <1>5, <3>2 DEF EmitDirect, fl
      <4> QED BY <1>5, <4>1, <4>2 DEF EmitDirect, Register, NextId, TypeOK, QueueTypeOK
    <3> QED BY <3>1, <3>2
  <2>7. SocketTypeOK'
    BY <1>5, <1>4, <2>1, <2>5 DEF EmitDirect, TypeOK, SocketTypeOK, NoFlags
  <2> QED BY <1>4, <2>1, <2>5, <2>6, <2>7 DEF TypeOK
<1>6. CASE EmitQueued(mods, kind)
  <2> DEFINE q == Append(queue, NewEntry(fl, kind))
  <2>1. NextMessage(fl) BY <1>6 DEF EmitQueued, fl
  <2>2. NewEntry(fl, kind) \in QueueEntry
    BY <1>4, <2>1 DEF NewEntry, QueueEntry
  <2>3. q \in Seq(QueueEntry)
    BY <2>2, AppendProperties DEF TypeOK, QueueTypeOK
  <2>4. QueueTypeOK' /\ out' \in Seq(Packet) /\ flags' \subseteq {"volatile", "timeout"}
    <3> HIDE DEF q
    <3>1. CASE SendsHead(q, FALSE)
      <4>1. DrainQueue(q, acks, timers, FALSE) BY <1>6, <3>1 DEF EmitQueued, fl, q
      <4> QED BY <2>3, <4>1, DrainQueueType DEF TypeOK, QueueTypeOK
    <3>2. CASE ~SendsHead(q, FALSE)
      <4>1. queue' = q /\ flags' = fl /\ UNCHANGED <<ackVars, out>>
        BY <1>6, <3>2 DEF EmitQueued, fl, q
      <4> QED BY <1>2, <2>3, <4>1 DEF ackVars, TypeOK, QueueTypeOK, WireTypeOK
    <3> QED BY <3>1, <3>2
  <2>5. SocketTypeOK'
    BY <1>6, <1>4, <2>1, <2>4 DEF EmitQueued, TypeOK, SocketTypeOK
  <2> QED BY <1>4, <2>1, <2>4, <2>5 DEF TypeOK
<1> QED BY <1>1, <1>5, <1>6

(* The timer of _registerAckCallback keeps every type. *)
LEMMA TimerType == ASSUME TypeOK, NEW h \in timers, TimerFires(h) PROVE TypeOK'
<1> DEFINE a == Without(h)
           t == timers \ {h}
<1>1. h \in Handler /\ a \in SUBSET Handler /\ t \in SUBSET Handler
  BY DEF Without, TypeOK, QueueTypeOK
<1>2. sendBuffer' \in Seq(Packet)
  <2>1. sendBuffer' = Unbuffer(h.id) BY DEF TimerFires
  <2> QED BY <2>1, RemoveAtType DEF Unbuffer, TypeOK, SocketTypeOK
<1>3. /\ QueueTypeOK' /\ out' \in Seq(Packet)
      /\ flags' \subseteq {"volatile", "timeout"}
      /\ outcomes' \in [Messages -> Seq({"ok", "err"})]
  <2>1. CASE h.queued
    <3>1. QueueCallback(h.m, TRUE, a, t) BY <2>1 DEF TimerFires
    <3> HIDE DEF a, t
    <3> QED BY <1>1, <3>1, QueueCallbackType
  <2>2. CASE ~h.queued
    <3>1. /\ acks' = a /\ timers' = t
          /\ outcomes' = Told(outcomes, h.m, "err")
          /\ UNCHANGED <<queue, ids, out, flags>>
      BY <2>2 DEF TimerFires
    <3>2. h.m \in Messages BY <1>1 DEF Handler
    <3>3. outcomes' \in [Messages -> Seq({"ok", "err"})]
      BY <3>1, <3>2, ToldType DEF TypeOK, HistoryTypeOK
    <3> HIDE DEF a, t
    <3> QED BY <1>1, <3>1, <3>3 DEF TypeOK, QueueTypeOK, WireTypeOK, SocketTypeOK
  <2> QED BY <2>1, <2>2
<1>4. /\ UNCHANGED <<connected, subs, pid, recovered, receiveBuffer, stack>>
      /\ UNCHANGED <<ioVars, serverVars, emitted, mode, delivered, toAck>>
  BY DEF TimerFires
<1> QED BY <1>2, <1>3, <1>4
        DEF TypeOK, SocketTypeOK, ManagerTypeOK, WireTypeOK, HistoryTypeOK, ioVars, serverVars

(* connect(), disconnect() and ack() keep every type. *)
LEMMA UserType ==
  ASSUME TypeOK, Connect \/ Disconnect \/ (\E n \in toAck : UserAcks(n))
  PROVE  TypeOK'
<1> USE DEF TypeOK
<1>1. CASE Connect
  <2>1. <<Control("CONNECT")>> \in Seq(Packet) BY ControlType
  <2>2. out' \in Seq(Packet) /\ inb' \in Seq(Packet)
    BY <1>1, <2>1, EmptyType, WriteType DEF Connect, NewEngine, WireTypeOK
  <2>3. ManagerTypeOK'
    <3>1. io' \in {"closed", "opening", "open"} BY <1>1 DEF Connect, NewEngine, ManagerTypeOK
    <3>2. /\ eng' \in {"none", "opening", "open", "closing"}
          /\ writable' \in BOOLEAN
      BY <1>1 DEF Connect, NewEngine, ManagerTypeOK
    <3>3. engines' \in Nat BY <1>1 DEF Connect, NewEngine, ManagerTypeOK
    <3>4. UNCHANGED <<suspended, reconnecting>> BY <1>1 DEF Connect
    <3> QED BY <3>1, <3>2, <3>3, <3>4 DEF ManagerTypeOK
  <2>4. WireTypeOK'
    BY <1>1, <2>2 DEF Connect, NewEngine, WireTypeOK
  <2> QED BY <1>1, <2>3, <2>4
          DEF Connect, SocketTypeOK, QueueTypeOK, HistoryTypeOK, ackVars, userVars
<1>2. CASE Disconnect
  <2>1. PICK last \in BOOLEAN, yields \in BOOLEAN :
           Destroy(last, yields, "client", IF connected THEN 1 ELSE 0)
    BY <1>2 DEF Disconnect
  <2>2. /\ ManagerTypeOK'
        /\ subs' \in BOOLEAN /\ connected' \in BOOLEAN /\ stack' \in Seq(Frames)
        /\ inb' \in Seq(Packet)
    BY <2>1, DestroyType
  <2>3. out' \in Seq(Packet)
    BY <1>2, ControlType, WriteType DEF Disconnect, WireTypeOK
  <2> QED BY <1>2, <2>2, <2>3
          DEF Disconnect, SocketTypeOK, QueueTypeOK, WireTypeOK, HistoryTypeOK, ackVars, userVars
<1>3. ASSUME NEW n \in toAck, UserAcks(n) PROVE TypeOK'
  <2>1. n \in Int BY DEF HistoryTypeOK
  <2>2. out' \in Seq(Packet)
    BY <1>3, <2>1, AckPacketType, WriteType DEF UserAcks
  <2> QED BY <1>3, <2>2
          DEF UserAcks, SocketTypeOK, QueueTypeOK, ManagerTypeOK, WireTypeOK, HistoryTypeOK,
              socketVars, ioVars, serverVars
<1> QED BY <1>1, <1>2, <1>3

(* The manager's events keep every type. *)
LEMMA IoType == ASSUME TypeOK, Io PROVE TypeOK'
<1> USE DEF TypeOK
<1>1. CASE EngineOpens
  <2>1. out' \in Seq(Packet)
    BY <1>1, ControlType, WriteType DEF EngineOpens, WireTypeOK
  <2> QED BY <1>1, <2>1
          DEF EngineOpens, SocketTypeOK, QueueTypeOK, ManagerTypeOK, WireTypeOK, HistoryTypeOK,
              socketVars, serverVars, userVars
<1>2. CASE EngineFails
  BY <1>2 DEF EngineFails, SocketTypeOK, QueueTypeOK, ManagerTypeOK, WireTypeOK,
              HistoryTypeOK, socketVars, serverVars, userVars
<1>3. CASE EngineStalls
  BY <1>3, EmptyType
     DEF EngineStalls, SocketTypeOK, QueueTypeOK, ManagerTypeOK, WireTypeOK, HistoryTypeOK,
         socketVars, userVars
<1>4. CASE EngineLost
  <2>1. connected' \in BOOLEAN /\ stack' \in Seq(Frames)
    BY <1>4, OnCloseType DEF EngineLost
  <2> QED BY <1>4, <2>1, EmptyType
          DEF EngineLost, SocketTypeOK, QueueTypeOK, ManagerTypeOK, WireTypeOK, HistoryTypeOK,
              ackVars, userVars
<1>5. CASE ManagerReconnects
  <2>1. ManagerTypeOK'
    <3>1. engines' \in Nat BY <1>5 DEF ManagerReconnects, NewEngine, ManagerTypeOK
    <3>2. io' = "opening" /\ eng' = "opening" /\ writable' = FALSE
      BY <1>5 DEF ManagerReconnects, NewEngine
    <3>3. UNCHANGED <<suspended, reconnecting>> BY <1>5 DEF ManagerReconnects
    <3> QED BY <3>1, <3>2, <3>3 DEF ManagerTypeOK
  <2>2. WireTypeOK'
    BY <1>5, EmptyType DEF ManagerReconnects, NewEngine, WireTypeOK
  <2> QED BY <1>5, <2>1, <2>2
          DEF ManagerReconnects, SocketTypeOK, QueueTypeOK, HistoryTypeOK, socketVars, userVars
<1>6. ASSUME NEW i \in DOMAIN suspended, CloseReturns(i) PROVE TypeOK'
  <2>1. CloseFires(suspended[i]) \in Nat BY DEF CloseFires
  <2>2. connected' \in BOOLEAN /\ stack' \in Seq(Frames)
    BY <1>6, <2>1, OnCloseType DEF CloseReturns
  <2>3. suspended' \in Seq({"client", "server", "error"})
    BY <1>6, RemoveAtType DEF CloseReturns, ManagerTypeOK
  <2>4. ManagerTypeOK' BY <1>6, <2>3 DEF CloseReturns, ManagerTypeOK
  <2>5. WireTypeOK' BY <1>6, EmptyType DEF CloseReturns, WireTypeOK
  <2> QED BY <1>6, <2>2, <2>4, <2>5
          DEF CloseReturns, SocketTypeOK, QueueTypeOK, HistoryTypeOK, ackVars, userVars
<1> QED BY <1>1, <1>2, <1>3, <1>4, <1>5, <1>6 DEF Io

(* The packet read is a packet, and so are those that follow it. *)
LEMMA ConsumeType ==
  ASSUME TypeOK, inb # <<>>
  PROVE  /\ Head(inb) \in Packet /\ Tail(inb) \in Seq(Packet)
         /\ Head(inb).pid \in Pids /\ Head(inb).m \in Nat /\ Head(inb).id \in Int
<1>1. Head(inb) \in Packet /\ Tail(inb) \in Seq(Packet)
  BY HeadTailProperties DEF TypeOK, WireTypeOK
<1> QED BY <1>1 DEF Packet

(* An acknowledgement is a success of the queue or an error.                *)
LEMMA AckedCallback ==
  ASSUME NEW m, NEW a, NEW b, QueueCallback(m, TakenForError(Head(inb)), a, b)
  PROVE  \E err \in BOOLEAN : QueueCallback(m, err, a, b)
<1> DEFINE failed == TakenForError(Head(inb))
<1>1. failed \in BOOLEAN BY DEF TakenForError
<1>2. QueueCallback(m, failed, a, b) OBVIOUS
<1> HIDE DEF failed
<1> QED BY <1>1, <1>2, Zenon

(* onpacket keeps every type. *)
LEMMA OnPacketType == ASSUME TypeOK, OnPacket PROVE TypeOK'
<1> USE DEF TypeOK
<1>1. CASE OnConnect
  <2>1. Tail(inb) \in Seq(Packet) /\ Head(inb).pid \in Pids
    BY <1>1, ConsumeType DEF OnConnect, Arrives
  <2>2. delivered' \in Seq(Nat) /\ toAck' \subseteq Nat
    BY <1>1, DeliverType DEF OnConnect, SocketTypeOK
  <2>3. out' \in Seq(Packet) /\ sendBuffer' \in Seq(Packet)
    BY <1>1, WriteType, EmptyType DEF OnConnect, FlushSendBuffer, SocketTypeOK, WireTypeOK
  <2>4. stack' \in Seq(Frames)
    <3>1. <<"connect">> \in Seq(Frames) /\ <<"replay">> \in Seq(Frames) BY DEF Frames
    <3> QED BY <1>1, <3>1 DEF OnConnect
  <2> QED BY <1>1, <2>1, <2>2, <2>3, <2>4
          DEF OnConnect, Consume, SocketTypeOK, QueueTypeOK, ManagerTypeOK, WireTypeOK,
              HistoryTypeOK, ackVars, ioVars
<1>2. CASE OnEvent
  <2>1. Head(inb) \in Packet /\ Tail(inb) \in Seq(Packet)
    BY <1>2, ConsumeType DEF OnEvent, Arrives
  <2>2. <<Head(inb)>> \in Seq(Packet) BY <2>1
  <2>3. delivered' \in Seq(Nat) /\ toAck' \subseteq Nat
    BY <1>2, <2>2, DeliverType DEF OnEvent, HistoryTypeOK
  <2>4. receiveBuffer' \in Seq(Packet)
    <3>1. Append(receiveBuffer, Head(inb)) \in Seq(Packet)
      BY <2>1, AppendType DEF SocketTypeOK
    <3> QED BY <1>2, <3>1 DEF OnEvent, SocketTypeOK
  <2> QED BY <1>2, <2>1, <2>3, <2>4
          DEF OnEvent, Consume, SocketTypeOK, QueueTypeOK, ManagerTypeOK, WireTypeOK,
              HistoryTypeOK, ackVars, ioVars
<1>3. CASE OnAck
  <2>1. Tail(inb) \in Seq(Packet)
    BY <1>3, ConsumeType DEF OnAck, Arrives
  <2> DEFINE Typed == /\ QueueTypeOK' /\ out' \in Seq(Packet)
                      /\ flags' \subseteq {"volatile", "timeout"}
                      /\ outcomes' \in [Messages -> Seq({"ok", "err"})]
  <2>2. Typed
    <3>1. ASSUME NEW h \in acks,
                 IF h.queued
                 THEN QueueCallback(h.m, TakenForError(Head(inb)), acks \ {h}, timers)
                 ELSE /\ acks' = acks \ {h}
                      /\ outcomes' = Told(outcomes, h.m, "ok")
                      /\ UNCHANGED <<timers, queue, ids, out, flags>>
          PROVE  Typed
      <4> DEFINE a == acks \ {h}
      <4>1. h \in Handler /\ a \in SUBSET Handler /\ timers \in SUBSET Handler
        BY DEF QueueTypeOK
      <4>2. CASE h.queued
        <5>1. PICK err \in BOOLEAN : QueueCallback(h.m, err, a, timers)
          BY <3>1, <4>2, AckedCallback, Zenon
        <5> HIDE DEF a
        <5> QED BY <4>1, <5>1, QueueCallbackType
      <4>3. CASE ~h.queued
        <5>1. h.m \in Messages BY <4>1 DEF Handler
        <5>2. outcomes' \in [Messages -> Seq({"ok", "err"})]
          BY <3>1, <4>3, <5>1, ToldType DEF HistoryTypeOK
        <5> QED BY <3>1, <4>1, <4>3, <5>2 DEF QueueTypeOK, WireTypeOK, SocketTypeOK
      <4> QED BY <4>2, <4>3
    <3>2. ASSUME UNCHANGED <<acks, timers, queue, ids, out, flags, outcomes>>
          PROVE  Typed
      BY <3>2 DEF QueueTypeOK, WireTypeOK, SocketTypeOK, HistoryTypeOK
    <3> QED BY <1>3, <3>1, <3>2 DEF OnAck
  <2> QED BY <1>3, <2>1, <2>2
          DEF OnAck, Consume, SocketTypeOK, ManagerTypeOK, WireTypeOK, HistoryTypeOK, ioVars
<1>4. ASSUME NEW type, NEW caller \in {"client", "server", "error"}, NEW n \in Nat,
             OnRefused(type, caller, n)
      PROVE  TypeOK'
  <2>1. Tail(inb) \in Seq(Packet)
    BY <1>4, ConsumeType DEF OnRefused, Arrives
  <2>2. /\ ManagerTypeOK'
        /\ subs' \in BOOLEAN /\ connected' \in BOOLEAN /\ stack' \in Seq(Frames)
        /\ inb' \in Seq(Packet)
    <3>1. CASE Destroy(TRUE, TRUE, caller, n)
      BY <3>1, DestroyType
    <3>2. CASE subs' = FALSE /\ OnClose(n) /\ Consume /\ UNCHANGED ioVars
      BY <2>1, <3>2, OnCloseType DEF Consume, ioVars, ManagerTypeOK
    <3> QED BY <1>4, <3>1, <3>2 DEF OnRefused
  <2> QED BY <1>4, <2>2
          DEF OnRefused, SocketTypeOK, QueueTypeOK, WireTypeOK, HistoryTypeOK, ackVars, userVars
<1>5. CASE OnDisconnect BY <1>4, <1>5 DEF OnDisconnect
<1>6. CASE OnConnectError BY <1>4, <1>6 DEF OnConnectError
<1>7. CASE Unheard
  <2>1. Tail(inb) \in Seq(Packet)
    BY <1>7, ConsumeType DEF Unheard
  <2> QED BY <1>7, <2>1
          DEF Unheard, Consume, SocketTypeOK, QueueTypeOK, ManagerTypeOK, WireTypeOK,
              HistoryTypeOK, socketVars, ioVars, userVars
<1> QED BY <1>1, <1>2, <1>3, <1>5, <1>6, <1>7 DEF OnPacket

(* What runs after the user's listeners keeps every type. *)
LEMMA ReturnsType == ASSUME TypeOK, Returns PROVE TypeOK'
<1> USE DEF TypeOK
<1>0. stack # <<>> => Below \in Seq(Frames)
  BY SubSeqProperties, LenProperties DEF Below, SocketTypeOK
<1>1. CASE ReplayReturns
  <2>1. out' \in Seq(Packet) /\ sendBuffer' \in Seq(Packet)
    BY <1>1, WriteType, EmptyType DEF ReplayReturns, FlushSendBuffer, SocketTypeOK
  <2>2. stack' \in Seq(Frames) /\ receiveBuffer' \in Seq(Packet)
    BY <1>0, <1>1, AppendProperties, EmptyType
       DEF ReplayReturns, EmptyReceiveBuffer, Frames
  <2> QED BY <1>1, <2>1, <2>2
          DEF ReplayReturns, SocketTypeOK, QueueTypeOK, ManagerTypeOK, WireTypeOK,
              HistoryTypeOK, ackVars, ioVars, serverVars, userVars
<1>2. CASE ConnectReturns
  <2>1. DrainQueue(queue, acks, timers, TRUE) BY <1>2 DEF ConnectReturns
  <2>2. QueueTypeOK' /\ out' \in Seq(Packet) /\ flags' \subseteq {"volatile", "timeout"}
    BY <2>1, DrainQueueType DEF QueueTypeOK
  <2> QED BY <1>0, <1>2, <2>2
          DEF ConnectReturns, SocketTypeOK, ManagerTypeOK, WireTypeOK, HistoryTypeOK,
              ioVars, serverVars, userVars
<1>3. CASE DisconnectReturns
  <2>1. queue' \in Seq(QueueEntry)
    <3>1. CASE HeadFails
      <4>1. queue # <<>> BY <3>1 DEF HeadFails, IsHead
      <4>2. IsHead(Head(queue).m) BY <4>1 DEF IsHead
      <4> QED BY <1>3, <3>1, <4>2, AfterCallbackType DEF DisconnectReturns
    <3>2. CASE ~HeadFails BY <1>3, <3>2 DEF DisconnectReturns, QueueTypeOK
    <3> QED BY <3>1, <3>2
  <2>2. acks' \subseteq Handler /\ timers' \subseteq Handler
    BY <1>3 DEF DisconnectReturns, Cleared, QueueTypeOK
  <2>3. outcomes' \in [Messages -> Seq({"ok", "err"})]
    BY <1>3, AppendProperties DEF DisconnectReturns, HistoryTypeOK
  <2> QED BY <1>0, <1>3, <2>1, <2>2, <2>3
          DEF DisconnectReturns, SocketTypeOK, QueueTypeOK, ManagerTypeOK, WireTypeOK,
              HistoryTypeOK, ioVars, serverVars
<1> QED BY <1>1, <1>2, <1>3 DEF Returns

(* The server's answers are packets. *)
LEMMA ReplyType ==
  ASSUME TypeOK, NEW pkts \in Seq(Packet), Reply(pkts)
  PROVE  inb' \in Seq(Packet)
  BY ConcatProperties DEF Reply, TypeOK, WireTypeOK

(* The server's steps keep every type. *)
LEMMA ServerType == ASSUME TypeOK, Server PROVE TypeOK'
<1> USE DEF TypeOK
<1>1. CASE ServerTakes
  <2> DEFINE p == Head(out)
  <2>1. p \in Packet /\ out' \in Seq(Packet)
    BY <1>1, HeadTailProperties DEF ServerTakes, WireTypeOK
  <2>2. \A q \in ServerPids : <<[p EXCEPT !.pid = q]>> \in Seq(Packet)
    <3>1. \A q \in ServerPids : [p EXCEPT !.pid = q] \in Packet
      BY <2>1 DEF Packet, Pids
    <3> QED BY <3>1
  <2>3. <<Control("CONNECT_ERROR")>> \in Seq(Packet) BY ControlType
  <2>4. \A n \in AckSizes : <<AckPacket(p.id, n)>> \in Seq(Packet)
    <3>1. p.id \in Int BY <2>1 DEF Packet
    <3> QED BY <3>1, AckPacketType, AckSizesAssumption
  <2>5. p.m \in Nat BY <2>1 DEF Packet
  <2> HIDE DEF p
  <2>6. inb' \in Seq(Packet)
    BY <1>1, <2>2, <2>3, <2>4, ReplyType DEF ServerTakes, WireTypeOK, p
  <2>7. received' \in Seq(Nat)
    BY ZenonT(60), <1>1, <2>5, AppendProperties DEF ServerTakes, WireTypeOK, p
  <2>8. srv' \in {"none", "joined"}
    BY <1>1 DEF ServerTakes, WireTypeOK
  <2> QED BY <1>1, <2>1, <2>6, <2>7, <2>8
          DEF ServerTakes, SocketTypeOK, QueueTypeOK, ManagerTypeOK, WireTypeOK, HistoryTypeOK,
              socketVars, ioVars, userVars
<1>2. CASE ServerEmits
  <2> DEFINE n == serverEvents + 1
             id == IF n % 2 = 0 THEN n ELSE NoId
  <2>1. n \in Nat /\ id \in Int BY DEF WireTypeOK, NoId
  <2>2. Reply(<<EventPacket(id, n)>>) BY <1>2 DEF ServerEmits
  <2> HIDE DEF id
  <2>3. inb' \in Seq(Packet) BY <2>1, <2>2, EventPacketType, ReplyType
  <2> QED BY <1>2, <2>1, <2>3
          DEF ServerEmits, SocketTypeOK, QueueTypeOK, ManagerTypeOK, WireTypeOK, HistoryTypeOK,
              socketVars, ioVars, userVars
<1>3. CASE ServerDisconnects
  <2>1. inb' \in Seq(Packet)
    BY <1>3, ControlType, ReplyType DEF ServerDisconnects
  <2> QED BY <1>3, <2>1
          DEF ServerDisconnects, SocketTypeOK, QueueTypeOK, ManagerTypeOK, WireTypeOK,
              HistoryTypeOK, socketVars, ioVars, userVars
<1> QED BY <1>1, <1>2, <1>3 DEF Server

(* Every step keeps every type. *)
LEMMA StepTypeOK == ASSUME TypeOK, [Next]_vars PROVE TypeOK'
<1>1. CASE UNCHANGED vars
  BY <1>1 DEF vars, socketVars, ioVars, serverVars, userVars, ackVars, TypeOK, SocketTypeOK,
              QueueTypeOK, ManagerTypeOK, WireTypeOK, HistoryTypeOK
<1>2. CASE User BY <1>2, EmitType, UserType DEF User
<1>3. CASE Timers BY <1>3, TimerType DEF Timers
<1> QED BY <1>1, <1>2, <1>3, ReturnsType, IoType, OnPacketType, ServerType DEF Next

(* TypeOK is an invariant: whatever the numbers of retries, messages and
   engines, every variable keeps its type (socket.ts:157-281). *)
THEOREM TypeCorrect == Spec => []TypeOK
<1> QED BY InitTypeOK, StepTypeOK, PTL DEF Spec

(***************************************************************************)
(* A callback is called at most once                                        *)
(***************************************************************************)
(* The inductive invariant relates the three places that can call back:    *)
(* the handlers, their timers and the queue.  They are parameters because  *)
(* _drainQueue runs on values that are not yet those of the variables.     *)

(* Handlers a with timers t, next id n, callbacks o, e messages emitted.   *)
HandlersOK(a, t, n, o, e) ==
  /\ t = {h \in a : h.kind = "timed"}
  /\ \A h \in a : h.id < n /\ h.m <= e
  /\ \A g, h \in a : g.id = h.id => g = h
  /\ \A g, h \in a : ~g.queued /\ g.m = h.m => g = h
  /\ \A h \in a : ~h.queued => o[h.m] = <<>>

(* The messages of queue q have not been called back; they are distinct,   *)
(* and handlers for them were made by the queue.                           *)
QueueOK(q, a, o, e) ==
  /\ \A i \in 1 .. Len(q) :
       /\ q[i].m <= e
       /\ o[q[i].m] = <<>>
       /\ \A h \in a : h.m = q[i].m => h.queued
  /\ \A i, j \in 1 .. Len(q) : q[i].m = q[j].m => i = j

OutcomesOK(o, e) ==
  \A m \in Messages : Len(o[m]) <= 1 /\ (m > e => o[m] = <<>>)

CallbackInv ==
  /\ TypeOK
  /\ HandlersOK(acks, timers, ids, outcomes, emitted)
  /\ QueueOK(queue, acks, outcomes, emitted)
  /\ OutcomesOK(outcomes, emitted)

(* Sequence facts in the form the steps use. *)
LEMMA HeadTailFacts ==
  ASSUME NEW S, NEW q \in Seq(S), q # <<>>, NEW x \in S
  PROVE  /\ Head(q) = q[1] /\ Head(q) \in S /\ Tail(q) \in Seq(S)
         /\ 1 \in 1 .. Len(q)
         /\ Len(Tail(q)) = Len(q) - 1
         /\ \A i \in 1 .. Len(q) - 1 : Tail(q)[i] = q[i + 1]
         /\ Len(<<x>> \o Tail(q)) = Len(q)
         /\ (<<x>> \o Tail(q))[1] = x
         /\ \A i \in 2 .. Len(q) : (<<x>> \o Tail(q))[i] = q[i]
<1>1. /\ Head(q) \in S /\ Tail(q) \in Seq(S) /\ Head(q) = q[1]
      /\ Len(Tail(q)) = Len(q) - 1
      /\ \A i \in 1 .. Len(q) - 1 : Tail(q)[i] = q[i + 1]
  BY HeadTailProperties
<1>2. Len(q) \in Nat /\ Len(q) >= 1 BY EmptySeq, LenProperties
<1>3. Len(<<x>>) = 1 /\ <<x>>[1] = x /\ <<x>> \in Seq(S) OBVIOUS
<1>4. Len(<<x>> \o Tail(q)) = Len(q) BY <1>1, <1>2, <1>3, ConcatProperties
<1>5. (<<x>> \o Tail(q))[1] = x BY <1>1, <1>2, <1>3, ConcatProperties
<1>6. ASSUME NEW i \in 2 .. Len(q) PROVE (<<x>> \o Tail(q))[i] = q[i]
  <2>1. (<<x>> \o Tail(q))[i] = Tail(q)[i - 1]
    BY <1>1, <1>2, <1>3, ConcatProperties
  <2>2. i - 1 \in 1 .. Len(q) - 1 /\ (i - 1) + 1 = i BY <1>2
  <2> QED BY <1>1, <2>1, <2>2
<1> QED BY <1>1, <1>2, <1>4, <1>5, <1>6

(* A queue whose entries carry the same messages is as good. *)
LEMMA SameMessages ==
  ASSUME NEW q \in Seq(QueueEntry), NEW x \in QueueEntry, q # <<>>, x.m = Head(q).m,
         NEW a, NEW o, NEW e, QueueOK(q, a, o, e)
  PROVE  QueueOK(<<x>> \o Tail(q), a, o, e)
<1> DEFINE r == <<x>> \o Tail(q)
<1>1. Len(r) = Len(q) /\ r[1].m = q[1].m /\ \A i \in 2 .. Len(q) : r[i] = q[i]
  BY HeadTailFacts
<1>2. Len(q) \in Nat BY LenProperties
<1> HIDE DEF r
<1>3. \A i \in 1 .. Len(r) : r[i].m = q[i].m BY <1>1, <1>2
<1>4. QueueOK(r, a, o, e) BY <1>1, <1>3 DEF QueueOK
<1> QED BY <1>4 DEF r

(* Without its head the queue can do without the head's outcome. *)
LEMMA TailOK ==
  ASSUME NEW q \in Seq(QueueEntry), q # <<>>, NEW a, NEW o, NEW p, NEW e, QueueOK(q, a, o, e),
         \A i \in 1 .. Len(q) : q[i].m # Head(q).m => p[q[i].m] = o[q[i].m]
  PROVE  QueueOK(Tail(q), a, p, e)
<1>1. Len(q) \in Nat BY LenProperties
<1>2. /\ Head(q) = q[1] /\ 1 \in 1 .. Len(q)
      /\ Len(Tail(q)) = Len(q) - 1
      /\ \A i \in 1 .. Len(q) - 1 : Tail(q)[i] = q[i + 1]
  <2>1. PICK x \in QueueEntry : x = Head(q) BY HeadTailProperties
  <2> QED BY HeadTailFacts
<1>3. \A i \in 1 .. Len(q) - 1 : i + 1 \in 1 .. Len(q) /\ i + 1 # 1 BY <1>1
<1>4. \A i \in 1 .. Len(q) - 1 : q[i + 1].m # q[1].m
  BY <1>2, <1>3 DEF QueueOK
<1>5. ASSUME NEW i \in 1 .. Len(Tail(q))
      PROVE  /\ Tail(q)[i].m <= e
             /\ p[Tail(q)[i].m] = <<>>
             /\ \A h \in a : h.m = Tail(q)[i].m => h.queued
  BY <1>2, <1>3, <1>4 DEF QueueOK
<1>6. ASSUME NEW i \in 1 .. Len(Tail(q)), NEW j \in 1 .. Len(Tail(q)),
             Tail(q)[i].m = Tail(q)[j].m
      PROVE  i = j
  <2>1. q[i + 1].m = q[j + 1].m BY <1>2, <1>6
  <2>2. i + 1 = j + 1 BY <1>2, <1>3, <2>1 DEF QueueOK
  <2> QED BY <1>2, <1>1, <2>2
<1> QED BY <1>5, <1>6 DEF QueueOK

(* The constructor's state satisfies the invariant. *)
LEMMA CallbackInit == Init => CallbackInv
<1> SUFFICES ASSUME Init PROVE CallbackInv OBVIOUS
<1>1. TypeOK BY InitTypeOK
<1>2. HandlersOK(acks, timers, ids, outcomes, emitted) BY DEF Init, HandlersOK
<1>3. QueueOK(queue, acks, outcomes, emitted) BY DEF Init, QueueOK
<1>4. OutcomesOK(outcomes, emitted) BY DEF Init, OutcomesOK
<1> QED BY <1>1, <1>2, <1>3, <1>4 DEF CallbackInv

(* _drainQueue preserves the invariant for the values it runs on. *)
LEMMA DrainKeeps ==
  ASSUME TypeOK, NEW q \in Seq(QueueEntry), NEW a \in SUBSET Handler, NEW t \in SUBSET Handler,
         NEW o, NEW e, NEW force \in BOOLEAN, DrainQueue(q, a, t, force),
         HandlersOK(a, t, ids, o, e), QueueOK(q, a, o, e)
  PROVE  HandlersOK(acks', timers', ids', o, e) /\ QueueOK(queue', acks', o, e)
<1>1. CASE SendsHead(q, force)
  <2> DEFINE h == HeadHandler(Head(q))
             r == <<Tried(Head(q))>> \o Tail(q)
  <2>0. q # <<>> BY <1>1 DEF SendsHead
  <2>1. Head(q) \in QueueEntry /\ Head(q) = q[1] /\ 1 \in 1 .. Len(q)
    <3>1. PICK x \in QueueEntry : x = Head(q) BY <2>0, HeadTailProperties
    <3> QED BY <2>0, HeadTailFacts
  <2>2. h \in Handler /\ h.id = ids /\ h.m = Head(q).m /\ h.queued
    BY <2>1 DEF HeadHandler, QueueEntry, Handler, TypeOK, QueueTypeOK
  <2>3. QueueOK(r, a, o, e) BY <2>0, <2>1, TriedType, SameMessages
  <2>4. /\ queue' = r /\ acks' = a \cup {h} /\ ids' = ids + 1
        /\ timers' = IF h.kind = "timed" THEN t \cup {h} ELSE t
    BY <1>1 DEF DrainQueue, Register, NextId
  <2>5. ids \in Nat /\ \A g \in a : g.id \in Nat
    BY DEF TypeOK, QueueTypeOK, Handler
  <2>6. h.m <= e /\ \A g \in a : g.m = h.m => g.queued
    BY <2>1, <2>2 DEF QueueOK
  <2> HIDE DEF h, r
  <2>7. QueueOK(queue', acks', o, e) BY <2>2, <2>3, <2>4 DEF QueueOK
  <2>8. HandlersOK(acks', timers', ids', o, e)
    <3>1. timers' = {g \in acks' : g.kind = "timed"}
      BY <2>4 DEF HandlersOK
    <3>2. \A g \in acks' : g.id < ids' /\ g.m <= e
      BY <2>2, <2>4, <2>5, <2>6 DEF HandlersOK
    <3>3. \A f, g \in acks' : f.id = g.id => f = g
      BY <2>2, <2>4, <2>5 DEF HandlersOK
    <3>4. \A f, g \in acks' : ~f.queued /\ f.m = g.m => f = g
      BY <2>2, <2>4, <2>6 DEF HandlersOK
    <3>5. \A g \in acks' : ~g.queued => o[g.m] = <<>>
      BY <2>2, <2>4 DEF HandlersOK
    <3> QED BY <3>1, <3>2, <3>3, <3>4, <3>5 DEF HandlersOK
  <2> QED BY <2>7, <2>8
<1>2. CASE ~SendsHead(q, force)
  BY <1>2 DEF DrainQueue
<1> QED BY <1>1, <1>2

(* A handler that is gone can be forgotten. *)
LEMMA FewerHandlers ==
  ASSUME NEW a, NEW b \in SUBSET a, NEW t, NEW n, NEW o, NEW e, NEW q,
         HandlersOK(a, t, n, o, e), QueueOK(q, a, o, e)
  PROVE  HandlersOK(b, t \cap b, n, o, e) /\ QueueOK(q, b, o, e)
  BY DEF HandlersOK, QueueOK

(* Recording a callback changes the record of one message. *)
LEMMA ToldFacts ==
  ASSUME NEW f \in [Messages -> Seq({"ok", "err"})], NEW m \in Messages,
         NEW v \in {"ok", "err"}
  PROVE  /\ \A k \in Messages \ {m} : Told(f, m, v)[k] = f[k]
         /\ f[m] = <<>> => Len(Told(f, m, v)[m]) = 1
  BY AppendProperties DEF Told

(* The queue's callback, called for a queued handler that is gone from a.  *)
LEMMA QueueCallbackKeeps ==
  ASSUME CallbackInv, NEW m \in Messages, NEW err \in BOOLEAN, NEW a \in SUBSET acks,
         NEW t, t = timers \cap a, QueueCallback(m, err, a, t), UNCHANGED emitted
  PROVE  /\ HandlersOK(acks', timers', ids', outcomes', emitted')
         /\ QueueOK(queue', acks', outcomes', emitted')
         /\ OutcomesOK(outcomes', emitted')
<1> USE DEF CallbackInv
<1>1. HandlersOK(a, t, ids, outcomes, emitted) /\ QueueOK(queue, a, outcomes, emitted)
  BY FewerHandlers
<1>2. a \in SUBSET Handler /\ t \in SUBSET Handler BY DEF TypeOK, QueueTypeOK
<1>3. queue \in Seq(QueueEntry) /\ outcomes \in [Messages -> Seq({"ok", "err"})]
  BY DEF TypeOK, QueueTypeOK, HistoryTypeOK
<1>4. CASE ~IsHead(m)
  BY <1>1, <1>4 DEF QueueCallback, Settles
<1>5. CASE IsHead(m)
  <2> DEFINE r == AfterCallback(m, err)
  <2>1. queue # <<>> /\ Head(queue).m = m BY <1>5 DEF IsHead
  <2>2. Head(queue) \in QueueEntry /\ Head(queue) = queue[1] /\ 1 \in 1 .. Len(queue)
    <3>1. PICK x \in QueueEntry : x = Head(queue) BY <1>3, <2>1, HeadTailProperties
    <3> QED BY <1>3, <2>1, HeadTailFacts
  <2>3. r \in Seq(QueueEntry) BY <1>5, AfterCallbackType
  <2>4. outcomes[m] = <<>> /\ m <= emitted /\ \A g \in acks : g.m = m => g.queued
    BY <2>1, <2>2 DEF QueueOK
  <2>5. /\ \A k \in Messages \ {m} : outcomes'[k] = outcomes[k]
        /\ Len(outcomes'[m]) <= 1
        /\ ~Settles(m, err) => outcomes' = outcomes
    <3> DEFINE v == IF err THEN "err" ELSE "ok"
    <3>1. CASE Settles(m, err) /\ Head(queue).ack
      <4>1. outcomes' = Told(outcomes, m, v) BY <3>1 DEF QueueCallback
      <4>2. v \in {"ok", "err"} OBVIOUS
      <4> HIDE DEF v
      <4>3. /\ \A k \in Messages \ {m} : Told(outcomes, m, v)[k] = outcomes[k]
            /\ outcomes[m] = <<>> => Len(Told(outcomes, m, v)[m]) = 1
        BY <1>3, <4>2, ToldFacts
      <4>4. Len(Told(outcomes, m, v)[m]) = 1 BY <2>4, <4>3
      <4> DEFINE f == Told(outcomes, m, v)
      <4>5. outcomes' = f /\ Len(f[m]) = 1 /\ \A k \in Messages \ {m} : f[k] = outcomes[k]
        BY <4>1, <4>3, <4>4
      <4> HIDE DEF f
      <4>6. Len(outcomes'[m]) <= 1 BY <4>5
      <4>7. \A k \in Messages \ {m} : outcomes'[k] = outcomes[k] BY <4>5
      <4> QED BY <3>1, <4>6, <4>7
    <3>2. CASE ~(Settles(m, err) /\ Head(queue).ack)
      <4>1. outcomes' = outcomes BY <3>2 DEF QueueCallback
      <4> QED BY <2>4, <4>1
    <3> QED BY <3>1, <3>2
  <2>6. QueueOK(r, a, outcomes', emitted)
    <3>1. CASE Settles(m, err)
      <4>1. r = Tail(queue) BY <3>1 DEF AfterCallback
      <4>2. \A i \in 1 .. Len(queue) : queue[i].m \in Messages
        <5>1. \A i \in 1 .. Len(queue) : queue[i] \in QueueEntry BY <1>3, LenProperties
        <5> QED BY <5>1 DEF QueueEntry
      <4> QED BY <1>1, <1>3, <2>1, <2>5, <4>1, <4>2, TailOK
    <3>2. CASE ~Settles(m, err)
      <4> DEFINE x == [Head(queue) EXCEPT !.pending = FALSE]
      <4>1. x \in QueueEntry /\ x.m = Head(queue).m BY <2>2 DEF QueueEntry
      <4>2. r = <<x>> \o Tail(queue) BY <3>2 DEF AfterCallback
      <4> HIDE DEF x, r
      <4> QED BY <1>1, <1>3, <2>1, <2>5, <3>2, <4>1, <4>2, SameMessages
    <3> QED BY <3>1, <3>2
  <2>7. HandlersOK(a, t, ids, outcomes', emitted)
    <3>1. \A g \in a : ~g.queued => g.m \in Messages \ {m}
      BY <1>2, <2>4 DEF Handler
    <3> QED BY <1>1, <2>5, <3>1 DEF HandlersOK
  <2>8. DrainQueue(r, a, t, FALSE) BY <1>5 DEF QueueCallback
  <2> HIDE DEF r
  <2>9. HandlersOK(acks', timers', ids', outcomes', emitted)
        /\ QueueOK(queue', acks', outcomes', emitted)
    BY <1>2, <2>3, <2>6, <2>7, <2>8, DrainKeeps
  <2>10. OutcomesOK(outcomes', emitted)
    BY <2>4, <2>5 DEF OutcomesOK, TypeOK, HistoryTypeOK, Messages
  <2> QED BY <2>9, <2>10
<1> QED BY <1>4, <1>5

(* The one callback of a handler that the user registered directly. *)
LEMMA DirectCallbackKeeps ==
  ASSUME CallbackInv, NEW h \in acks, ~h.queued, NEW v \in {"ok", "err"},
         acks' = acks \ {h}, timers' = timers \ {h},
         outcomes' = Told(outcomes, h.m, v), UNCHANGED <<ids, queue, emitted>>
  PROVE  /\ HandlersOK(acks', timers', ids', outcomes', emitted')
         /\ QueueOK(queue', acks', outcomes', emitted')
         /\ OutcomesOK(outcomes', emitted')
<1> USE DEF CallbackInv
<1>1. h \in Handler /\ h.m \in Messages BY DEF TypeOK, QueueTypeOK, Handler
<1>2. outcomes[h.m] = <<>> /\ h.m <= emitted BY DEF HandlersOK
<1>3. /\ \A k \in Messages \ {h.m} : outcomes'[k] = outcomes[k]
      /\ Len(outcomes'[h.m]) = 1
  BY <1>1, <1>2, ToldFacts DEF TypeOK, HistoryTypeOK
<1>4. \A g \in acks' : ~g.queued => g.m \in Messages \ {h.m}
  BY DEF HandlersOK, TypeOK, QueueTypeOK, Handler
<1>5. HandlersOK(acks', timers', ids', outcomes', emitted')
  <2>1. timers' = {g \in acks' : g.kind = "timed"} BY DEF HandlersOK
  <2>2. \A g \in acks' : ~g.queued => outcomes'[g.m] = <<>>
    BY <1>3, <1>4 DEF HandlersOK
  <2> QED BY <2>1, <2>2 DEF HandlersOK
<1>6. QueueOK(queue', acks', outcomes', emitted')
  <2>1. \A i \in 1 .. Len(queue) : queue[i] \in QueueEntry
    BY LenProperties DEF TypeOK, QueueTypeOK
  <2>2. \A i \in 1 .. Len(queue) : queue[i].m \in Messages \ {h.m}
    BY <2>1 DEF QueueOK, QueueEntry
  <2> QED BY <1>3, <2>2 DEF QueueOK
<1>7. OutcomesOK(outcomes', emitted')
  <2>1. \A k \in Messages \ {h.m} : Len(outcomes'[k]) <= 1 /\ (k > emitted => outcomes'[k] = <<>>)
    BY <1>3 DEF OutcomesOK
  <2>2. Len(outcomes'[h.m]) <= 1 BY <1>3
  <2>3. ~(h.m > emitted)
    BY <1>1, <1>2, BoundsAssumption DEF TypeOK, HistoryTypeOK, Messages
  <2> QED BY <2>1, <2>2, <2>3 DEF OutcomesOK
<1> QED BY <1>5, <1>6, <1>7

(* emit registers its handler under a fresh id, for a fresh message. *)
LEMMA EmitKeeps == ASSUME CallbackInv, Emit PROVE CallbackInv'
<1> USE DEF CallbackInv
<1>1. TypeOK' BY EmitType
<1>2. PICK mods \in SUBSET Modifiers, kind \in AckKinds :
         EmitDirect(mods, kind) \/ EmitQueued(mods, kind)
  BY DEF Emit
<1> DEFINE fl == flags \cup mods
           m  == emitted + 1
<1>3. NextMessage(fl) BY <1>2 DEF EmitDirect, EmitQueued
<1>4. /\ m \in Messages /\ emitted' = m /\ UNCHANGED outcomes /\ emitted < m
      /\ outcomes[m] = <<>> /\ emitted \in Nat
  BY <1>3, BoundsAssumption DEF NextMessage, TypeOK, HistoryTypeOK, Messages, OutcomesOK
<1>5. OutcomesOK(outcomes', emitted')
  BY <1>4 DEF OutcomesOK, Messages
<1>6. \A h \in acks : h.m \in Messages /\ h.id \in Nat /\ h.m # m /\ h.m <= m
  BY <1>4 DEF TypeOK, QueueTypeOK, Handler, HandlersOK, Messages
<1>7. HandlersOK(acks, timers, ids, outcomes, m)
  BY <1>6 DEF HandlersOK
<1>8. /\ queue \in Seq(QueueEntry) /\ Len(queue) \in Nat
      /\ \A i \in 1 .. Len(queue) : queue[i].m \in Nat /\ queue[i].m # m /\ queue[i].m <= m
  <2>1. queue \in Seq(QueueEntry) BY DEF TypeOK, QueueTypeOK
  <2>2. Len(queue) \in Nat /\ \A i \in 1 .. Len(queue) : queue[i] \in QueueEntry
    BY <2>1, LenProperties
  <2>3. \A i \in 1 .. Len(queue) : queue[i].m \in Messages /\ queue[i].m <= emitted
    BY <2>2 DEF QueueEntry, QueueOK
  <2> QED BY <1>4, <2>1, <2>2, <2>3 DEF Messages
<1>9. QueueOK(queue, acks, outcomes, m)
  BY <1>8 DEF QueueOK
<1>10. CASE EmitDirect(mods, kind)
  <2>1. queue' = queue BY <1>10 DEF EmitDirect
  <2>2. CASE kind = "none"
    <3>1. UNCHANGED ackVars BY <1>10, <2>2 DEF EmitDirect
    <3> HIDE DEF m
    <3> QED BY <1>1, <1>4, <1>5, <1>7, <1>9, <2>1, <3>1 DEF ackVars
  <2>3. CASE kind # "none"
    <3> DEFINE h == NewHandler(fl, kind)
    <3>1. h.id = ids /\ h.m = m /\ ~h.queued BY DEF NewHandler
    <3>2. /\ acks' = acks \cup {h} /\ ids' = ids + 1
          /\ timers' = IF h.kind = "timed" THEN timers \cup {h} ELSE timers
      BY <1>10, <2>3 DEF EmitDirect, Register, NextId
    <3>3. ids \in Nat BY DEF TypeOK, QueueTypeOK
    <3> HIDE DEF h, m
    <3>4. HandlersOK(acks', timers', ids', outcomes, m)
      <4>1. timers' = {g \in acks' : g.kind = "timed"} BY <3>2 DEF HandlersOK
      <4>2. \A g \in acks' : g.id < ids' /\ g.m <= m
        BY <1>4, <1>6, <3>1, <3>2, <3>3 DEF HandlersOK, Messages
      <4>3. \A f, g \in acks' : f.id = g.id => f = g
        BY <1>6, <3>1, <3>2, <3>3 DEF HandlersOK
      <4>4. \A f, g \in acks' : ~f.queued /\ f.m = g.m => f = g
        BY <1>6, <3>1, <3>2 DEF HandlersOK
      <4>5. \A g \in acks' : ~g.queued => outcomes[g.m] = <<>>
        BY <1>4, <3>1, <3>2 DEF HandlersOK
      <4> QED BY <4>1, <4>2, <4>3, <4>4, <4>5 DEF HandlersOK
    <3>5. QueueOK(queue', acks', outcomes, m)
      BY <1>8, <1>9, <2>1, <3>1, <3>2 DEF QueueOK
    <3> QED BY <1>1, <1>4, <1>5, <3>4, <3>5
  <2> QED BY <2>2, <2>3
<1>11. CASE EmitQueued(mods, kind)
  <2> DEFINE x == NewEntry(fl, kind)
             q == Append(queue, x)
  <2>1. x \in QueueEntry /\ x.m = m
    BY <1>4 DEF NewEntry, QueueEntry
  <2>2. /\ q \in Seq(QueueEntry) /\ Len(q) = Len(queue) + 1
        /\ q[Len(queue) + 1] = x
        /\ \A i \in 1 .. Len(queue) : q[i] = queue[i]
    BY <1>8, <2>1, AppendProperties
  <2> HIDE DEF q, x, m
  <2>3. QueueOK(q, acks, outcomes, m)
    <3>1. \A i \in 1 .. Len(q) : i \in 1 .. Len(queue) \/ i = Len(queue) + 1
      BY <1>8, <2>2
    <3>2. ASSUME NEW i \in 1 .. Len(q)
          PROVE  /\ q[i].m <= m
                 /\ outcomes[q[i].m] = <<>>
                 /\ \A h \in acks : h.m = q[i].m => h.queued
      <4>1. CASE i \in 1 .. Len(queue) BY <1>9, <2>2, <4>1 DEF QueueOK
      <4>2. CASE i = Len(queue) + 1
        BY <1>4, <1>6, <2>1, <2>2, <4>2 DEF Messages
      <4> QED BY <3>1, <4>1, <4>2
    <3>3. ASSUME NEW i \in 1 .. Len(q), NEW j \in 1 .. Len(q), q[i].m = q[j].m
          PROVE  i = j
      BY <1>8, <1>9, <2>1, <2>2, <3>1, <3>3 DEF QueueOK
    <3> QED BY <3>2, <3>3 DEF QueueOK
  <2>4. CASE SendsHead(q, FALSE)
    <3>1. DrainQueue(q, acks, timers, FALSE)
      BY <1>11, <2>4 DEF EmitQueued, q, x
    <3>2. acks \in SUBSET Handler /\ timers \in SUBSET Handler
      BY DEF TypeOK, QueueTypeOK
    <3> QED BY <1>1, <1>4, <1>5, <1>7, <2>2, <2>3, <3>1, <3>2, DrainKeeps
  <2>5. CASE ~SendsHead(q, FALSE)
    <3>1. queue' = q /\ UNCHANGED ackVars
      BY <1>11, <2>5 DEF EmitQueued, q, x
    <3> QED BY <1>1, <1>4, <1>5, <1>7, <2>3, <3>1 DEF ackVars
  <2> QED BY <2>4, <2>5
<1> QED BY <1>2, <1>10, <1>11

(* The timer removes the handler before it calls it (socket.ts:482-492). *)
LEMMA TimerKeeps == ASSUME CallbackInv, NEW h \in timers, TimerFires(h) PROVE CallbackInv'
<1> USE DEF CallbackInv
<1>1. TypeOK' BY TimerType
<1>2. h \in acks BY DEF HandlersOK
<1>3. Without(h) = acks \ {h} BY <1>2 DEF Without, HandlersOK
<1>4. timers \ {h} = timers \cap (acks \ {h}) BY DEF HandlersOK
<1>5. emitted' = emitted BY DEF TimerFires
<1>6. h.m \in Messages BY <1>2 DEF TypeOK, QueueTypeOK, Handler
<1>7. CASE h.queued
  <2>1. QueueCallback(h.m, TRUE, acks \ {h}, timers \ {h})
    BY <1>3, <1>7 DEF TimerFires
  <2> QED BY <1>1, <1>4, <1>5, <1>6, <2>1, QueueCallbackKeeps
<1>8. CASE ~h.queued
  <2>1. /\ acks' = acks \ {h} /\ timers' = timers \ {h}
        /\ outcomes' = Told(outcomes, h.m, "err")
        /\ UNCHANGED <<ids, queue, emitted>>
    BY <1>3, <1>8 DEF TimerFires
  <2> QED BY <1>1, <1>2, <1>8, <2>1, DirectCallbackKeeps
<1> QED BY <1>7, <1>8

(* onack removes the handler before it calls it (socket.ts:815-831). *)
LEMMA OnAckKeeps == ASSUME CallbackInv, OnAck PROVE CallbackInv'
<1> USE DEF CallbackInv
<1>1. TypeOK' BY OnPacketType DEF OnPacket
<1>2. emitted' = emitted BY DEF OnAck
<1>3. ASSUME NEW h \in acks, IsFunction(h),
             IF h.queued
             THEN QueueCallback(h.m, TakenForError(Head(inb)), acks \ {h}, timers)
             ELSE /\ acks' = acks \ {h}
                  /\ outcomes' = Told(outcomes, h.m, "ok")
                  /\ UNCHANGED <<timers, queue, ids, out, flags>>
      PROVE  CallbackInv'
  <2>1. h \notin timers BY <1>3 DEF HandlersOK, IsFunction
  <2>2. timers = timers \cap (acks \ {h}) BY <2>1 DEF HandlersOK
  <2>3. h.m \in Messages BY DEF TypeOK, QueueTypeOK, Handler
  <2>4. CASE h.queued
    <3>1. PICK err \in BOOLEAN : QueueCallback(h.m, err, acks \ {h}, timers)
      BY <1>3, <2>4, AckedCallback, Zenon
    <3> QED BY <1>1, <1>2, <2>2, <2>3, <3>1, QueueCallbackKeeps
  <2>5. CASE ~h.queued
    <3>1. /\ acks' = acks \ {h} /\ timers' = timers \ {h}
          /\ outcomes' = Told(outcomes, h.m, "ok")
          /\ UNCHANGED <<ids, queue, emitted>>
      BY <1>2, <1>3, <2>1, <2>5
    <3> QED BY <1>1, <2>5, <3>1, DirectCallbackKeeps
  <2> QED BY <2>4, <2>5
<1>4. ASSUME UNCHANGED <<acks, timers, queue, ids, out, flags, outcomes>>
      PROVE  CallbackInv'
  BY <1>1, <1>2, <1>4
<1> QED BY <1>3, <1>4 DEF OnAck

(* _clearAcks removes the handlers it calls (socket.ts:679-701). *)
LEMMA ReturnsKeep == ASSUME CallbackInv, Returns PROVE CallbackInv'
<1> USE DEF CallbackInv
<1>1. TypeOK' BY ReturnsType
<1>2. CASE ReplayReturns
  BY <1>1, <1>2 DEF ReplayReturns, ackVars, userVars
<1>3. CASE ConnectReturns
  <2>1. DrainQueue(queue, acks, timers, TRUE) /\ UNCHANGED <<outcomes, emitted>>
    BY <1>3 DEF ConnectReturns, userVars
  <2>2. /\ queue \in Seq(QueueEntry) /\ acks \in SUBSET Handler
        /\ timers \in SUBSET Handler
    BY DEF TypeOK, QueueTypeOK
  <2> QED BY <1>1, <2>1, <2>2, DrainKeeps
<1>4. CASE DisconnectReturns
  <2> DEFINE Direct(m) == \E h \in Failed : h.m = m /\ ~h.queued
             Gone(m)   == HeadFails /\ Settles(m, TRUE) /\ Head(queue).ack
  <2>1. /\ acks' = acks \ Dropped /\ timers' = timers \ Failed
        /\ queue' = IF HeadFails THEN AfterCallback(Head(queue).m, TRUE) ELSE queue
        /\ outcomes' = [m \in Messages |-> IF Direct(m) \/ Gone(m)
                                          THEN Append(outcomes[m], "err") ELSE outcomes[m]]
        /\ UNCHANGED <<ids, emitted>>
    BY <1>4 DEF DisconnectReturns, Cleared
  <2>2. queue \in Seq(QueueEntry) /\ \A i \in 1 .. Len(queue) : queue[i] \in QueueEntry
    BY LenProperties DEF TypeOK, QueueTypeOK
  <2>3. timers' = timers \cap (acks \ Dropped)
    <3>1. \A h \in timers : h \in acks /\ (h \in Failed <=> h \in Dropped)
      BY DEF HandlersOK, Failed, WithError
    <3> QED BY <2>1, <3>1
  <2>4. /\ HandlersOK(acks', timers', ids, outcomes, emitted)
        /\ QueueOK(queue, acks', outcomes, emitted)
    <3> DEFINE b == acks \ Dropped
    <3>1. b \in SUBSET acks OBVIOUS
    <3> HIDE DEF b
    <3>2. /\ HandlersOK(b, timers \cap b, ids, outcomes, emitted)
          /\ QueueOK(queue, b, outcomes, emitted)
      BY <3>1, FewerHandlers
    <3> QED BY <2>1, <2>3, <3>2 DEF b
  <2>5. \A m \in Messages : Gone(m) => queue # <<>> /\ Head(queue).m = m
    BY DEF Settles, IsHead
  <2>6. queue # <<>> => Head(queue) \in QueueEntry /\ Head(queue) = queue[1]
                        /\ 1 \in 1 .. Len(queue)
    <3> SUFFICES ASSUME queue # <<>>
                 PROVE  Head(queue) \in QueueEntry /\ Head(queue) = queue[1]
                        /\ 1 \in 1 .. Len(queue)
      OBVIOUS
    <3>1. PICK x \in QueueEntry : x = Head(queue) BY <2>2, HeadTailProperties
    <3> QED BY <2>2, HeadTailFacts
  <2>7. \A m \in Messages : Direct(m) \/ Gone(m) => outcomes[m] = <<>> /\ m <= emitted
    <3>1. \A m \in Messages : Direct(m) => outcomes[m] = <<>> /\ m <= emitted
      BY DEF Failed, Dropped, HandlersOK
    <3>2. \A m \in Messages : Gone(m) => outcomes[m] = <<>> /\ m <= emitted
      BY <2>5, <2>6 DEF QueueOK
    <3> QED BY <3>1, <3>2
  <2>8. \A i \in 1 .. Len(queue) : queue[i].m \in Messages /\ ~Direct(queue[i].m)
    BY <2>2 DEF QueueEntry, QueueOK, Failed, Dropped
  <2>9. \A g \in acks' : ~g.queued => g.m \in Messages /\ ~Direct(g.m) /\ ~Gone(g.m)
    <3> SUFFICES ASSUME NEW g \in acks', ~g.queued
                 PROVE  g.m \in Messages /\ ~Direct(g.m) /\ ~Gone(g.m)
      OBVIOUS
    <3>1. g \in acks /\ g \notin Dropped BY <2>1
    <3>2. g.m \in Messages BY <3>1 DEF TypeOK, QueueTypeOK, Handler
    <3>3. ~Direct(g.m) BY <3>1 DEF Failed, Dropped, HandlersOK
    <3>4. ~Gone(g.m) BY <2>5, <2>6, <3>1, <3>2 DEF QueueOK
    <3> QED BY <3>2, <3>3, <3>4
  <2> HIDE DEF Direct, Gone
  <2>10. \A m \in Messages : ~Direct(m) /\ ~Gone(m) => outcomes'[m] = outcomes[m]
    BY <2>1
  <2>11. HandlersOK(acks', timers', ids', outcomes', emitted')
    <3>1. \A g \in acks' : ~g.queued => outcomes'[g.m] = <<>>
      BY <2>4, <2>9, <2>10 DEF HandlersOK
    <3> QED BY <2>1, <2>4, <3>1 DEF HandlersOK
  <2>12. QueueOK(queue', acks', outcomes', emitted')
    <3>1. CASE HeadFails
      <4>1. queue # <<>> BY <3>1 DEF HeadFails, IsHead
      <4> DEFINE k == Head(queue).m
      <4>2. queue' = AfterCallback(k, TRUE) BY <2>1, <3>1
      <4>3. CASE Settles(k, TRUE)
        <5>1. queue' = Tail(queue) BY <4>2, <4>3 DEF AfterCallback
        <5>2. \A i \in 1 .. Len(queue) :
                 queue[i].m # k => outcomes'[queue[i].m] = outcomes[queue[i].m]
          BY <2>5, <2>8, <2>10
        <5>3. QueueOK(Tail(queue), acks', outcomes', emitted)
          BY <2>2, <2>4, <4>1, <5>2, TailOK
        <5> QED BY <2>1, <5>1, <5>3
      <4>4. CASE ~Settles(k, TRUE)
        <5> DEFINE x == [Head(queue) EXCEPT !.pending = FALSE]
        <5>1. x \in QueueEntry /\ x.m = Head(queue).m BY <2>6, <4>1 DEF QueueEntry
        <5>2. queue' = <<x>> \o Tail(queue) BY <4>2, <4>4 DEF AfterCallback
        <5>3. \A m \in Messages : ~Gone(m)
          BY <2>5, <4>4 DEF Gone
        <5>4. QueueOK(queue, acks', outcomes', emitted)
          BY <2>4, <2>8, <2>10, <5>3 DEF QueueOK
        <5> HIDE DEF x
        <5> QED BY <2>1, <2>2, <4>1, <5>1, <5>2, <5>4, SameMessages
      <4> QED BY <4>3, <4>4
    <3>2. CASE ~HeadFails
      <4>1. \A m \in Messages : ~Gone(m) BY <3>2 DEF Gone
      <4>2. QueueOK(queue, acks', outcomes', emitted)
        BY <2>4, <2>8, <2>10, <4>1 DEF QueueOK
      <4> QED BY <2>1, <3>2, <4>2
    <3> QED BY <3>1, <3>2
  <2>13. OutcomesOK(outcomes', emitted')
    <3> SUFFICES ASSUME NEW m \in Messages
                 PROVE  Len(outcomes'[m]) <= 1 /\ (m > emitted => outcomes'[m] = <<>>)
      BY <2>1 DEF OutcomesOK
    <3>1. CASE Direct(m) \/ Gone(m)
      <4>1. outcomes'[m] = Append(outcomes[m], "err") BY <2>1, <3>1
      <4>2. outcomes[m] = <<>> /\ m <= emitted BY <2>7, <3>1
      <4>3. Len(outcomes'[m]) = 1 BY <4>1, <4>2
      <4>4. m \in Int /\ emitted \in Int
        BY BoundsAssumption DEF Messages, TypeOK, HistoryTypeOK
      <4> QED BY <4>2, <4>3, <4>4
    <3>2. CASE ~Direct(m) /\ ~Gone(m)
      BY <2>10, <3>2 DEF OutcomesOK
    <3> QED BY <3>1, <3>2
  <2> QED BY <1>1, <2>11, <2>12, <2>13
<1> QED BY <1>2, <1>3, <1>4 DEF Returns

(* Every step keeps the invariant. *)
LEMMA StepKeeps == ASSUME CallbackInv, [Next]_vars PROVE CallbackInv'
<1>1. TypeOK' BY StepTypeOK DEF CallbackInv
<1>2. ASSUME UNCHANGED <<ackVars, queue, outcomes, emitted>> PROVE CallbackInv'
  BY <1>1, <1>2 DEF CallbackInv, ackVars
<1>3. CASE UNCHANGED vars
  BY <1>2, <1>3 DEF vars, socketVars, userVars, ackVars
<1>4. CASE User
  <2>1. CASE Emit BY <2>1, EmitKeeps
  <2>2. CASE Connect BY <1>2, <2>2 DEF Connect, userVars
  <2>3. CASE Disconnect BY <1>2, <2>3 DEF Disconnect, userVars
  <2>4. ASSUME NEW n \in toAck, UserAcks(n) PROVE CallbackInv'
    BY <1>2, <2>4 DEF UserAcks, socketVars, ackVars
  <2> QED BY <1>4, <2>1, <2>2, <2>3, <2>4 DEF User
<1>5. CASE Io
  BY <1>2, <1>5
     DEF Io, EngineOpens, EngineFails, EngineStalls, EngineLost, ManagerReconnects,
         CloseReturns, socketVars, userVars, ackVars
<1>6. CASE OnPacket
  <2>1. CASE OnAck BY <2>1, OnAckKeeps
  <2>2. CASE OnConnect BY <1>2, <2>2 DEF OnConnect
  <2>3. CASE OnEvent BY <1>2, <2>3 DEF OnEvent
  <2>4. CASE OnDisconnect \/ OnConnectError
    BY <1>2, <2>4 DEF OnDisconnect, OnConnectError, OnRefused, userVars
  <2>5. CASE Unheard BY <1>2, <2>5 DEF Unheard, socketVars, ackVars, userVars
  <2> QED BY <1>6, <2>1, <2>2, <2>3, <2>4, <2>5 DEF OnPacket
<1>7. CASE Server
  BY <1>2, <1>7
     DEF Server, ServerTakes, ServerEmits, ServerDisconnects, socketVars, userVars, ackVars
<1>8. CASE Timers BY <1>8, TimerKeeps DEF Timers
<1> QED BY <1>3, <1>4, <1>5, <1>6, <1>7, <1>8, ReturnsKeep DEF Next

(* The inductive invariant holds in every reachable state. *)
LEMMA CallbackInvariant == Spec => []CallbackInv
<1> QED BY CallbackInit, StepKeeps, PTL DEF Spec

(* CallbackOnce is an invariant: the callback of a message is called at most
   once, be it by onack, by the timer of _registerAckCallback, by _clearAcks or
   by the queue's callback (socket.ts:474-503, 555-578, 679-701, 809-831), for
   any number of retries and messages. *)
THEOREM CallbackOnceCorrect == Spec => []CallbackOnce
<1>1. CallbackInv => CallbackOnce BY DEF CallbackInv, OutcomesOK, CallbackOnce
<1> QED BY <1>1, CallbackInvariant, PTL

(* TimersMatchHandlers is an invariant: a timed handler is registered exactly
   as long as its timer runs (socket.ts:482-502, 679-701). *)
THEOREM TimersMatchCorrect == Spec => []TimersMatchHandlers
<1>1. CallbackInv => TimersMatchHandlers
  BY DEF CallbackInv, HandlersOK, TimersMatchHandlers
<1> QED BY <1>1, CallbackInvariant, PTL
==============================================================================
