------------------------- MODULE NamespaceQueue_proofs -------------------------
(***************************************************************************)
(* Proofs about the retry queue of NamespaceSocket: it tries its head only, *)
(* it does not stall, it loses nothing silently, and success is reported    *)
(* only for what the server has received.  CallbackInv of                   *)
(* NamespaceSocket_proofs is the ground they stand on.                      *)
(***************************************************************************)
EXTENDS NamespaceSocket_proofs

(***************************************************************************)
(* Handlers that are inside a call of user listeners                        *)
(***************************************************************************)
(* Only a disconnection comes on top of a handler, and a socket that is     *)
(* connected has no disconnection to finish.                                *)
StackFits ==
  /\ \A i \in 2 .. Len(stack) : stack[i] = "disconnect"
  /\ connected /\ Len(stack) > 0 => Len(stack) = 1 /\ stack[1] # "disconnect"

(* What onclose adds to the stack.                                          *)
LEMMA OnCloseFacts ==
  ASSUME TypeOK, NEW n \in Nat, OnClose(n)
  PROVE  /\ Len(stack) \in Nat /\ Len(stack') = Len(stack) + n
         /\ \A i \in 1 .. Len(stack) : stack'[i] = stack[i]
         /\ \A i \in Len(stack) + 1 .. Len(stack') : stack'[i] = "disconnect"
         /\ connected' = (connected /\ n = 0)
<1> DEFINE d == [i \in 1 .. n |-> "disconnect"]
<1>1. stack \in Seq(Frames) BY DEF TypeOK, SocketTypeOK
<1>2. d \in Seq(Frames) /\ Len(d) = n /\ \A i \in 1 .. n : d[i] = "disconnect"
  BY DEF Frames
<1>3. stack' = stack \o d /\ connected' = (connected /\ n = 0) BY DEF OnClose
<1> HIDE DEF d
<1>4. Len(stack) \in Nat BY <1>1, LenProperties
<1>5. /\ Len(stack \o d) = Len(stack) + n
      /\ \A i \in 1 .. Len(stack) + n :
           (stack \o d)[i] = IF i <= Len(stack) THEN stack[i] ELSE d[i - Len(stack)]
  BY <1>1, <1>2, ConcatProperties
<1> QED BY <1>2, <1>3, <1>4, <1>5

(* What is left of the stack when its top returns.                          *)
LEMMA BelowFacts ==
  ASSUME TypeOK, stack # <<>>
  PROVE  /\ Len(stack) \in Nat \ {0} /\ Top = stack[Len(stack)]
         /\ Below \in Seq(Frames) /\ Len(Below) = Len(stack) - 1
         /\ \A i \in 1 .. Len(stack) - 1 : Below[i] = stack[i]
<1>1. stack \in Seq(Frames) BY DEF TypeOK, SocketTypeOK
<1>2. Len(stack) \in Nat \ {0} BY <1>1, EmptySeq
<1> DEFINE n == Len(stack) - 1
<1>3. 1 \in Int /\ n \in Int /\ n >= 0 BY <1>2
<1>4. ASSUME NEW i \in 1 .. n PROVE stack[i] \in Frames
  <2>1. i \in 1 .. Len(stack) BY <1>2
  <2> QED BY <1>1, <2>1, ElementOfSeq
<1>5. /\ SubSeq(stack, 1, n) \in Seq(Frames)
      /\ Len(SubSeq(stack, 1, n)) = IF 1 <= n THEN n - 1 + 1 ELSE 0
      /\ \A i \in 1 .. n - 1 + 1 : SubSeq(stack, 1, n)[i] = stack[1 + i - 1]
  BY <1>3, <1>4, SubSeqProperties
<1> HIDE DEF n
<1>6. Len(SubSeq(stack, 1, n)) = n BY <1>3, <1>5
<1>7. \A i \in 1 .. n : SubSeq(stack, 1, n)[i] = stack[i]
  <2>1. n - 1 + 1 = n /\ \A i \in 1 .. n : 1 + i - 1 = i BY <1>3
  <2> QED BY <1>5, <2>1
<1> QED BY <1>2, <1>5, <1>6, <1>7 DEF Below, Top, n

(* The ways in which a step moves connected and the stack.                  *)
Returned == /\ stack # <<>> /\ Top # "replay"
            /\ stack' = Below /\ UNCHANGED connected
Replayed == /\ stack # <<>> /\ Top = "replay"
            /\ stack' = Append(Below, "connect") /\ UNCHANGED connected
Joined   == stack = <<>> /\ connected' /\ stack' \in {<<"connect">>, <<"replay">>}

LEMMA StackMoves ==
  ASSUME TypeOK, [Next]_vars
  PROVE  \/ UNCHANGED <<connected, stack>>
         \/ \E n \in Nat : OnClose(n)
         \/ OnConnect /\ Joined
         \/ (ConnectReturns \/ DisconnectReturns) /\ Returned
         \/ ReplayReturns /\ Replayed
<1>1. CASE UNCHANGED vars BY <1>1 DEF vars, socketVars
<1>2. CASE User
  <2>1. CASE Emit BY <2>1 DEF Emit, EmitDirect, EmitQueued, NextMessage
  <2>2. CASE Connect BY <2>2 DEF Connect
  <2>3. CASE Disconnect
    BY <2>3 DEF Disconnect, Destroy
  <2>4. ASSUME NEW n \in toAck, UserAcks(n) PROVE UNCHANGED <<connected, stack>>
    BY <2>4 DEF UserAcks, socketVars
  <2> QED BY <1>2, <2>1, <2>2, <2>3, <2>4 DEF User
<1>3. CASE Returns
  <2>1. CASE ReplayReturns BY <2>1 DEF ReplayReturns, Replayed
  <2>2. CASE ConnectReturns BY <2>2 DEF ConnectReturns, Returned
  <2>3. CASE DisconnectReturns BY <2>3 DEF DisconnectReturns, Returned
  <2> QED BY <1>3, <2>1, <2>2, <2>3 DEF Returns
<1>4. CASE Timers BY <1>4 DEF Timers, TimerFires
<1>5. CASE Io
  <2>1. CASE EngineLost BY <2>1 DEF EngineLost
  <2>2. ASSUME NEW i \in DOMAIN suspended, CloseReturns(i) PROVE \E n \in Nat : OnClose(n)
    <3>1. CloseFires(suspended[i]) \in Nat BY DEF CloseFires
    <3> QED BY <2>2, <3>1 DEF CloseReturns
  <2>3. CASE EngineOpens \/ EngineFails \/ EngineStalls \/ ManagerReconnects
    BY <2>3 DEF EngineOpens, EngineFails, EngineStalls, ManagerReconnects, socketVars
  <2> QED BY <1>5, <2>1, <2>2, <2>3 DEF Io
<1>6. CASE OnPacket
  <2>1. CASE OnConnect BY <2>1 DEF OnConnect, Arrives, Joined
  <2>2. ASSUME NEW type, NEW caller, NEW n \in Nat, OnRefused(type, caller, n)
        PROVE  UNCHANGED <<connected, stack>> \/ \E k \in Nat : OnClose(k)
    <3>1. CASE Destroy(TRUE, TRUE, caller, n) BY <3>1 DEF Destroy
    <3>2. CASE OnClose(n) BY <3>2
    <3> QED BY <2>2, <3>1, <3>2 DEF OnRefused
  <2>3. CASE OnDisconnect BY <2>2, <2>3 DEF OnDisconnect
  <2>4. CASE OnConnectError BY <2>2, <2>4 DEF OnConnectError
  <2>5. CASE OnEvent \/ OnAck \/ Unheard BY <2>5 DEF OnEvent, OnAck, Unheard, socketVars
  <2> QED BY <1>6, <2>1, <2>3, <2>4, <2>5 DEF OnPacket
<1>7. CASE Server
  BY <1>7 DEF Server, ServerTakes, ServerEmits, ServerDisconnects, socketVars
<1> QED BY <1>1, <1>2, <1>3, <1>4, <1>5, <1>6, <1>7 DEF Next

LEMMA StackKept == ASSUME TypeOK, StackFits, [Next]_vars PROVE StackFits'
<1>0. Len(stack) \in Nat BY LenProperties DEF TypeOK, SocketTypeOK
<1>1. CASE UNCHANGED <<connected, stack>> BY <1>1 DEF StackFits
<1>2. ASSUME NEW n \in Nat, OnClose(n) PROVE StackFits'
  <2>1. /\ Len(stack') = Len(stack) + n
        /\ \A i \in 1 .. Len(stack) : stack'[i] = stack[i]
        /\ \A i \in Len(stack) + 1 .. Len(stack') : stack'[i] = "disconnect"
        /\ connected' = (connected /\ n = 0)
    BY <1>2, OnCloseFacts
  <2>2. \A i \in 2 .. Len(stack') : stack'[i] = "disconnect"
    BY <1>0, <2>1 DEF StackFits
  <2>3. connected' => connected /\ n = 0 BY <2>1, Zenon
  <2>4. ASSUME connected', Len(stack') > 0
        PROVE  Len(stack') = 1 /\ stack'[1] # "disconnect"
    <3>1. connected /\ Len(stack') = Len(stack) BY <1>0, <2>1, <2>3, <2>4
    <3>2. Len(stack) = 1 /\ stack[1] # "disconnect" BY <2>4, <3>1 DEF StackFits
    <3>3. \A i \in 1 .. Len(stack) : stack'[i] = stack[i] BY <2>1
    <3>4. stack'[1] = stack[1] BY <3>2, <3>3
    <3> QED BY <3>1, <3>2, <3>4
  <2> QED BY <2>2, <2>4 DEF StackFits
<1>3. CASE Joined
  <2>1. Len(stack') = 1 /\ stack'[1] # "disconnect" BY <1>3 DEF Joined
  <2> QED BY <2>1 DEF StackFits
<1>4. CASE Returned
  <2>1. Len(stack') = Len(stack) - 1 /\ \A i \in 1 .. Len(stack) - 1 : stack'[i] = stack[i]
    BY <1>4, BelowFacts DEF Returned
  <2> QED BY <1>0, <1>4, <2>1 DEF StackFits, Returned
<1>5. CASE Replayed
  <2>0. Len(stack) \in Nat \ {0} /\ Below \in Seq(Frames) /\ Len(Below) = Len(stack) - 1
    BY <1>5, BelowFacts DEF Replayed
  <2>1. Len(stack) = 1
    <3>1. stack[Len(stack)] # "disconnect" BY <1>5 DEF Replayed, Top
    <3> QED BY <2>0, <3>1 DEF StackFits
  <2>2. Len(stack') = 1 /\ stack'[1] = "connect"
    <3>1. "connect" \in Frames BY DEF Frames
    <3>2. Len(Append(Below, "connect")) = Len(Below) + 1
          /\ Append(Below, "connect")[Len(Below) + 1] = "connect"
      BY <2>0, <3>1, AppendProperties
    <3> QED BY <1>5, <2>0, <2>1, <3>2 DEF Replayed
  <2> QED BY <2>2 DEF StackFits
<1> QED BY <1>1, <1>2, <1>3, <1>4, <1>5, StackMoves

(***************************************************************************)
(* The retry queue                                                          *)
(***************************************************************************)
(* Behind the head nothing has been tried.                                  *)
Untried(q) == \A i \in 2 .. Len(q) : q[i].tryCount = 0 /\ ~q[i].pending

(* Of a head that has been sent, a handler waits for the answer.            *)
Awaited(q, a) == Head(q).pending /\ \E h \in a : h.queued /\ h.m = Head(q).m

LEMMA QueueFacts ==
  ASSUME NEW q \in Seq(QueueEntry), q # <<>>
  PROVE  /\ Len(q) \in Nat \ {0} /\ 1 \in 1 .. Len(q)
         /\ Head(q) \in QueueEntry /\ Head(q) = q[1]
         /\ Tail(q) \in Seq(QueueEntry) /\ Len(Tail(q)) = Len(q) - 1
         /\ \A i \in 1 .. Len(q) - 1 : Tail(q)[i] = q[i + 1]
<1>1. Head(q) \in QueueEntry BY HeadTailProperties
<1>2. PICK x \in QueueEntry : x = Head(q) BY <1>1
<1>3. Len(q) \in Nat \ {0} BY EmptySeq
<1> QED BY <1>2, <1>3, HeadTailFacts

(* Replacing the head, or dropping it, leaves the rest untried.             *)
LEMMA UntriedRest ==
  ASSUME NEW q \in Seq(QueueEntry), NEW x \in QueueEntry, q # <<>>, Untried(q)
  PROVE  /\ Untried(<<x>> \o Tail(q)) /\ Untried(Tail(q))
         /\ Tail(q) # <<>> => ~Head(Tail(q)).pending
<1> DEFINE r == <<x>> \o Tail(q)
<1>0. Len(q) \in Nat \ {0} BY QueueFacts
<1>1. Len(r) = Len(q) /\ \A i \in 2 .. Len(q) : r[i] = q[i]
  BY HeadTailFacts
<1>2. /\ Tail(q) \in Seq(QueueEntry) /\ Len(Tail(q)) = Len(q) - 1
      /\ \A i \in 1 .. Len(q) - 1 : Tail(q)[i] = q[i + 1]
  BY QueueFacts
<1> HIDE DEF r
<1>3. Untried(r) BY <1>1 DEF Untried
<1>4. \A i \in 1 .. Len(Tail(q)) : i + 1 \in 2 .. Len(q) /\ Tail(q)[i] = q[i + 1]
  BY <1>0, <1>2
<1>5. \A i \in 1 .. Len(Tail(q)) : Tail(q)[i].tryCount = 0 /\ ~Tail(q)[i].pending
  BY <1>4 DEF Untried
<1>6. Untried(Tail(q))
  <2>1. \A i \in 2 .. Len(Tail(q)) : i \in 1 .. Len(Tail(q)) BY <1>0, <1>2
  <2> QED BY <1>5, <2>1 DEF Untried
<1>7. ASSUME Tail(q) # <<>> PROVE ~Head(Tail(q)).pending
  <2>1. Head(Tail(q)) = Tail(q)[1] /\ 1 \in 1 .. Len(Tail(q))
    BY <1>2, <1>7, QueueFacts
  <2> QED BY <1>5, <2>1
<1> QED BY <1>3, <1>6, <1>7 DEF r

(* _drainQueue leaves the rest untried, and of a socket that is connected   *)
(* a head that is awaited.                                                  *)
LEMMA DrainUntried ==
  ASSUME NEW q \in Seq(QueueEntry), NEW a, NEW t, NEW force \in BOOLEAN,
         DrainQueue(q, a, t, force), Untried(q)
  PROVE  Untried(queue')
<1>1. CASE SendsHead(q, force)
  <2>1. q # <<>> /\ queue' = <<Tried(Head(q))>> \o Tail(q)
    BY <1>1 DEF SendsHead, DrainQueue
  <2>2. Tried(Head(q)) \in QueueEntry BY <2>1, QueueFacts, TriedType
  <2> QED BY <2>1, <2>2, UntriedRest
<1>2. CASE ~SendsHead(q, force)
  BY <1>2 DEF DrainQueue
<1> QED BY <1>1, <1>2

LEMMA DrainAwaited ==
  ASSUME NEW q \in Seq(QueueEntry), NEW a, NEW t, NEW force \in BOOLEAN,
         DrainQueue(q, a, t, force), connected,
         q # <<>> /\ Head(q).pending /\ ~force => Awaited(q, a)
  PROVE  queue' # <<>> => Awaited(queue', acks')
<1>1. CASE SendsHead(q, force)
  <2> DEFINE h == HeadHandler(Head(q))
             x == Tried(Head(q))
  <2>1. /\ q # <<>> /\ queue' = <<x>> \o Tail(q)
        /\ acks' = a \cup {h}
    BY <1>1 DEF SendsHead, DrainQueue, Register
  <2>2. Head(q) \in QueueEntry BY <2>1, QueueFacts
  <2>3. x \in QueueEntry /\ x.m = Head(q).m BY <2>2, TriedType
  <2>4. x.pending BY <2>2 DEF Tried, QueueEntry
  <2>5. h.queued /\ h.m = Head(q).m BY DEF HeadHandler
  <2> HIDE DEF h, x
  <2>6. (<<x>> \o Tail(q))[1] = x /\ Len(<<x>> \o Tail(q)) = Len(q) BY <2>1, <2>3, HeadTailFacts
  <2>7. <<x>> \o Tail(q) \in Seq(QueueEntry)
    BY <2>1, <2>3, QueueFacts, ConcatProperties
  <2>8. Head(queue') = x
    <3>1. queue' \in Seq(QueueEntry) /\ queue'[1] = x BY <2>1, <2>6, <2>7
    <3>2. queue' # <<>>
      <4>1. Len(queue') # 0 BY <2>1, <2>6, QueueFacts
      <4> QED BY <4>1
    <3> DEFINE r == queue'
    <3>3. r \in Seq(QueueEntry) /\ r # <<>> /\ r[1] = x BY <3>1, <3>2
    <3> HIDE DEF r
    <3>4. Head(r) = x BY <3>3, QueueFacts
    <3> QED BY <3>4 DEF r
  <2> QED BY <2>1, <2>3, <2>4, <2>5, <2>8 DEF Awaited
<1>2. CASE ~SendsHead(q, force)
  <2>1. queue' = q /\ acks' = a BY <1>2 DEF DrainQueue
  <2>2. q # <<>> => Head(q).pending /\ ~force BY <1>2 DEF SendsHead
  <2> QED BY <2>1, <2>2
<1> QED BY <1>1, <1>2

(* What the queue's callback makes of the queue: the rest stays untried,    *)
(* and the head that _drainQueue finds is not pending.                      *)
LEMMA AfterUntried ==
  ASSUME TypeOK, Untried(queue), NEW m, NEW err \in BOOLEAN, IsHead(m)
  PROVE  LET r == AfterCallback(m, err)
         IN  r \in Seq(QueueEntry) /\ Untried(r) /\ (r # <<>> => ~Head(r).pending)
<1> DEFINE x == [Head(queue) EXCEPT !.pending = FALSE]
<1>1. queue \in Seq(QueueEntry) /\ queue # <<>> BY DEF IsHead, TypeOK, QueueTypeOK
<1>2. Head(queue) \in QueueEntry BY <1>1, QueueFacts
<1>3. x \in QueueEntry /\ ~x.pending BY <1>2 DEF QueueEntry
<1>4. AfterCallback(m, err) \in Seq(QueueEntry) BY AfterCallbackType
<1>5. AfterCallback(m, err) \in {Tail(queue), <<x>> \o Tail(queue)} BY DEF AfterCallback
<1> HIDE DEF x
<1>6. /\ Untried(<<x>> \o Tail(queue)) /\ Untried(Tail(queue))
      /\ Tail(queue) # <<>> => ~Head(Tail(queue)).pending
  BY <1>1, <1>3, UntriedRest
<1>7. Head(<<x>> \o Tail(queue)) = x
  <2> DEFINE r == <<x>> \o Tail(queue)
  <2>1. r[1] = x /\ Len(r) = Len(queue) BY <1>1, <1>3, HeadTailFacts
  <2>2. r \in Seq(QueueEntry) BY <1>1, <1>3, QueueFacts, ConcatProperties
  <2>3. Len(r) # 0 BY <1>1, <2>1, QueueFacts
  <2> HIDE DEF r
  <2>4. r # <<>> BY <2>3
  <2>5. Head(r) = x BY <2>1, <2>2, <2>4, QueueFacts
  <2> QED BY <2>5 DEF r
<1> QED BY <1>3, <1>4, <1>5, <1>6, <1>7

(* The queue's callback, called for a handler h that is gone.               *)
LEMMA CallbackQueue ==
  ASSUME TypeOK, Untried(queue), NEW h, NEW err \in BOOLEAN, NEW a, NEW t,
         QueueCallback(h.m, err, a, t), acks \ {h} \subseteq a
  PROVE  /\ Untried(queue')
         /\ connected /\ (queue # <<>> => Awaited(queue, acks)) =>
              (queue' # <<>> => Awaited(queue', acks'))
<1>1. CASE IsHead(h.m)
  <2> DEFINE r == AfterCallback(h.m, err)
  <2>1. r \in Seq(QueueEntry) /\ Untried(r) /\ (r # <<>> => ~Head(r).pending)
    BY <1>1, AfterUntried
  <2>2. DrainQueue(r, a, t, FALSE) BY <1>1 DEF QueueCallback
  <2> HIDE DEF r
  <2>3. Untried(queue') BY <2>1, <2>2, DrainUntried
  <2>4. connected => (queue' # <<>> => Awaited(queue', acks'))
    BY <2>1, <2>2, DrainAwaited
  <2> QED BY <2>3, <2>4
<1>2. CASE ~IsHead(h.m)
  <2>1. queue' = queue /\ acks' = a BY <1>2 DEF QueueCallback
  <2>2. queue # <<>> => Head(queue).m # h.m BY <1>2 DEF IsHead
  <2> QED BY <2>1, <2>2 DEF Awaited
<1> QED BY <1>1, <1>2

(* The steps that do not touch the queue and its handlers.                  *)
Idle == UNCHANGED <<queue, acks>>

LEMMA QueueMoves ==
  ASSUME TypeOK, [Next]_vars
  PROVE  \/ Idle \/ Emit \/ Timers \/ OnAck \/ ConnectReturns \/ DisconnectReturns
<1> USE DEF Idle, socketVars, ackVars
<1>1. CASE UNCHANGED vars BY <1>1 DEF vars
<1>2. CASE User BY <1>2 DEF User, Connect, Disconnect, UserAcks
<1>3. CASE Returns BY <1>3 DEF Returns, ReplayReturns
<1>4. CASE Io
  BY <1>4 DEF Io, EngineOpens, EngineFails, EngineStalls, EngineLost, ManagerReconnects,
              CloseReturns
<1>5. CASE OnPacket
  BY <1>5 DEF OnPacket, OnConnect, OnEvent, OnDisconnect, OnConnectError, OnRefused, Unheard
<1>6. CASE Server BY <1>6 DEF Server, ServerTakes, ServerEmits, ServerDisconnects
<1> QED BY <1>1, <1>2, <1>3, <1>4, <1>5, <1>6 DEF Next

QueueInv == CallbackInv /\ StackFits /\ OnlyHeadTried /\ QueueAdvances

(* The two properties in terms of the operators above.                      *)
LEMMA QueueTerms ==
  /\ OnlyHeadTried <=> Untried(queue)
  /\ QueueAdvances <=> (connected /\ stack = <<>> => (queue # <<>> => Awaited(queue, acks)))
BY DEF OnlyHeadTried, Untried, QueueAdvances, Awaited

LEMMA QueueTermsNext ==
  /\ OnlyHeadTried' <=> Untried(queue')
  /\ QueueAdvances' <=>
       (connected' /\ stack' = <<>> => (queue' # <<>> => Awaited(queue', acks')))
BY DEF OnlyHeadTried, Untried, QueueAdvances, Awaited

(* emit extends the queue by a message that has not been tried.             *)
LEMMA EmitQueue ==
  ASSUME QueueInv, Emit
  PROVE  OnlyHeadTried' /\ QueueAdvances'
<1>1. PICK mods \in SUBSET Modifiers, kind \in AckKinds :
         EmitDirect(mods, kind) \/ EmitQueued(mods, kind)
  BY DEF Emit
<1>2. /\ TypeOK /\ queue \in Seq(QueueEntry) /\ Untried(queue)
      /\ connected /\ stack = <<>> /\ queue # <<>> => Awaited(queue, acks)
  BY QueueTerms DEF QueueInv, CallbackInv, TypeOK, QueueTypeOK
<1>3. UNCHANGED <<connected, stack>>
  BY <1>1 DEF EmitDirect, EmitQueued, NextMessage
<1>4. CASE EmitDirect(mods, kind)
  <2>1. queue' = queue /\ acks \subseteq acks'
    BY <1>4 DEF EmitDirect, Register, ackVars
  <2>2. Awaited(queue, acks) => Awaited(queue', acks') BY <2>1 DEF Awaited
  <2> QED BY <1>2, <1>3, <2>1, <2>2, QueueTermsNext
<1>5. CASE EmitQueued(mods, kind)
  <2> DEFINE fl == flags \cup mods
             x  == NewEntry(fl, kind)
             q  == Append(queue, x)
  <2>1. NextMessage(fl) BY <1>5 DEF EmitQueued
  <2>2. x \in QueueEntry /\ x.tryCount = 0 /\ ~x.pending
    <3>1. emitted + 1 \in Messages
      BY <1>2, <2>1, BoundsAssumption DEF NextMessage, Messages, TypeOK, HistoryTypeOK
    <3> QED BY <3>1 DEF NewEntry, QueueEntry
  <2>3. IF SendsHead(q, FALSE)
        THEN DrainQueue(q, acks, timers, FALSE)
        ELSE queue' = q /\ UNCHANGED ackVars
    BY <1>5 DEF EmitQueued
  <2> HIDE DEF x
  <2>4. /\ q \in Seq(QueueEntry) /\ q # <<>> /\ Len(q) = Len(queue) + 1
        /\ q[Len(queue) + 1] = x /\ \A i \in 1 .. Len(queue) : q[i] = queue[i]
    BY <1>2, <2>2, AppendProperties
  <2> HIDE DEF q
  <2>5. Len(queue) \in Nat /\ (queue # <<>> => Len(queue) > 0)
    BY <1>2, QueueFacts, LenProperties
  <2>6. Head(q) = q[1] BY <2>4, QueueFacts
  <2>7. Untried(q) BY <1>2, <2>2, <2>4, <2>5 DEF Untried
  <2>8. Head(q).pending => queue # <<>> /\ Head(q) = Head(queue)
    <3>1. CASE queue = <<>>
      <4>1. Len(queue) = 0 BY <3>1
      <4> QED BY <2>2, <2>4, <2>6, <4>1
    <3>2. CASE queue # <<>> BY <1>2, <2>4, <2>5, <2>6, <3>2, QueueFacts
    <3> QED BY <3>1, <3>2
  <2>9. connected /\ stack = <<>> /\ Head(q).pending => Awaited(q, acks)
    BY <1>2, <2>8 DEF Awaited
  <2>10. CASE SendsHead(q, FALSE)
    <3>1. DrainQueue(q, acks, timers, FALSE) BY <2>3, <2>10
    <3>2. Untried(queue') BY <2>4, <2>7, <3>1, DrainUntried
    <3>3. connected /\ stack = <<>> => (queue' # <<>> => Awaited(queue', acks'))
      BY <2>4, <2>9, <3>1, DrainAwaited
    <3> QED BY <1>3, <3>2, <3>3, QueueTermsNext
  <2>11. CASE ~SendsHead(q, FALSE)
    <3>1. queue' = q /\ acks' = acks BY <2>3, <2>11 DEF ackVars
    <3>2. connected => Head(q).pending BY <2>4, <2>11 DEF SendsHead
    <3>3. connected /\ stack = <<>> => Awaited(queue', acks') BY <2>9, <3>1, <3>2
    <3> QED BY <1>3, <2>7, <3>1, <3>3, QueueTermsNext
  <2> QED BY <2>10, <2>11
<1> QED BY <1>1, <1>4, <1>5

(* The timer and the server's answer call back the handler they remove.     *)
LEMMA TimerQueue ==
  ASSUME QueueInv, NEW h \in timers, TimerFires(h)
  PROVE  OnlyHeadTried' /\ QueueAdvances'
<1>1. /\ TypeOK /\ Untried(queue)
      /\ connected /\ stack = <<>> => (queue # <<>> => Awaited(queue, acks))
  BY QueueTerms DEF QueueInv, CallbackInv
<1>2. UNCHANGED <<connected, stack>> BY DEF TimerFires
<1>3. h \in acks /\ Without(h) = acks \ {h}
  BY DEF QueueInv, CallbackInv, HandlersOK, Without
<1>4. CASE h.queued
  <2>1. QueueCallback(h.m, TRUE, acks \ {h}, timers \ {h}) BY <1>3, <1>4 DEF TimerFires
  <2> QED BY <1>1, <1>2, <2>1, CallbackQueue, QueueTermsNext
<1>5. CASE ~h.queued
  <2>1. queue' = queue /\ acks' = acks \ {h} BY <1>3, <1>5 DEF TimerFires
  <2>2. Awaited(queue, acks) => Awaited(queue', acks') BY <1>5, <2>1 DEF Awaited
  <2> QED BY <1>1, <1>2, <2>1, <2>2, QueueTermsNext
<1> QED BY <1>4, <1>5

LEMMA OnAckQueue ==
  ASSUME QueueInv, OnAck
  PROVE  OnlyHeadTried' /\ QueueAdvances'
<1>1. /\ TypeOK /\ Untried(queue)
      /\ connected /\ stack = <<>> => (queue # <<>> => Awaited(queue, acks))
  BY QueueTerms DEF QueueInv, CallbackInv
<1>2. UNCHANGED <<connected, stack>> BY DEF OnAck
<1>3. ASSUME NEW h \in acks,
             IF h.queued
             THEN QueueCallback(h.m, TakenForError(Head(inb)), acks \ {h}, timers)
             ELSE acks' = acks \ {h} /\ UNCHANGED queue
      PROVE  OnlyHeadTried' /\ QueueAdvances'
  <2>1. CASE h.queued
    <3>1. PICK err \in BOOLEAN : QueueCallback(h.m, err, acks \ {h}, timers)
      BY <1>3, <2>1, AckedCallback, Zenon
    <3> QED BY <1>1, <1>2, <3>1, CallbackQueue, QueueTermsNext
  <2>2. CASE ~h.queued
    <3>1. queue' = queue /\ acks' = acks \ {h} BY <1>3, <2>2
    <3>2. Awaited(queue, acks) => Awaited(queue', acks') BY <2>2, <3>1 DEF Awaited
    <3> QED BY <1>1, <1>2, <3>1, <3>2, QueueTermsNext
  <2> QED BY <2>1, <2>2
<1>4. CASE Idle BY <1>1, <1>2, <1>4, QueueTermsNext DEF Idle
<1> QED BY <1>3, <1>4 DEF OnAck, Idle

(* The "connect" listeners have returned: the head is sent by force.  The   *)
(* socket of one whose "disconnect" listeners return is not connected.      *)
LEMMA ReturnsQueue ==
  ASSUME QueueInv, ConnectReturns \/ DisconnectReturns
  PROVE  OnlyHeadTried' /\ QueueAdvances'
<1>1. /\ TypeOK /\ Untried(queue) /\ queue \in Seq(QueueEntry)
  BY QueueTerms DEF QueueInv, CallbackInv, TypeOK, QueueTypeOK
<1>2. CASE ConnectReturns
  <2>1. DrainQueue(queue, acks, timers, TRUE) /\ UNCHANGED connected
    BY <1>2 DEF ConnectReturns
  <2>2. Untried(queue') BY <1>1, <2>1, DrainUntried
  <2>3. connected => (queue' # <<>> => Awaited(queue', acks'))
    BY <1>1, <2>1, DrainAwaited
  <2> QED BY <2>1, <2>2, <2>3, QueueTermsNext
<1>3. CASE DisconnectReturns
  <2>1. ~connected'
    <3>1. /\ stack # <<>> /\ Top = "disconnect" /\ UNCHANGED connected
      BY <1>3 DEF DisconnectReturns
    <3>2. Len(stack) \in Nat \ {0} /\ stack[Len(stack)] = "disconnect" BY <1>1, <3>1, BelowFacts
    <3> QED BY <3>1, <3>2 DEF QueueInv, StackFits
  <2>2. Untried(queue')
    <3>1. CASE HeadFails
      <4> DEFINE r == AfterCallback(Head(queue).m, TRUE)
      <4>1. IsHead(Head(queue).m) BY <3>1 DEF HeadFails, IsHead
      <4>2. Untried(r) BY <1>1, <4>1, AfterUntried
      <4>3. queue' = r BY <1>3, <3>1 DEF DisconnectReturns
      <4> QED BY <4>2, <4>3
    <3>2. CASE ~HeadFails BY <1>1, <1>3, <3>2 DEF DisconnectReturns
    <3> QED BY <3>1, <3>2
  <2> QED BY <2>1, <2>2, QueueTermsNext
<1> QED BY <1>2, <1>3

LEMMA QueueKept == ASSUME QueueInv, [Next]_vars PROVE QueueInv'
<1>1. CallbackInv' BY StepKeeps DEF QueueInv
<1>2. TypeOK /\ StackFits BY DEF QueueInv, CallbackInv
<1>3. StackFits' BY <1>2, StackKept
<1>4. CASE Idle /\ ~(ConnectReturns \/ DisconnectReturns)
  <2>1. OnlyHeadTried' BY <1>4, QueueTerms, QueueTermsNext DEF Idle, QueueInv
  <2>2. connected' /\ stack' = <<>> => connected /\ stack = <<>>
    <3> SUFFICES ASSUME connected', stack' = <<>> PROVE connected /\ stack = <<>> OBVIOUS
    <3>1. CASE UNCHANGED <<connected, stack>> BY <3>1
    <3>2. ASSUME NEW n \in Nat, OnClose(n) PROVE connected /\ stack = <<>>
      <4>1. connected' = (connected /\ n = 0) /\ Len(stack') = Len(stack) + n /\ Len(stack) \in Nat
        BY <1>2, <3>2, OnCloseFacts
      <4>2. connected BY <4>1
      <4>3. Len(stack) = 0 BY <4>1
      <4> QED BY <1>2, <4>2, <4>3, EmptySeq DEF TypeOK, SocketTypeOK
    <3>3. CASE Joined BY <3>3 DEF Joined
    <3>4. CASE Replayed
      <4>1. Below \in Seq(Frames) BY <1>2, <3>4, BelowFacts DEF Replayed
      <4>2. Append(Below, "connect") # <<>> BY <4>1, AppendProperties DEF Frames
      <4> QED BY <3>4, <4>2 DEF Replayed
    <3> QED BY <1>2, <1>4, <3>1, <3>2, <3>3, <3>4, StackMoves
  <2>3. QueueAdvances'
    BY <1>4, <2>2, QueueTerms, QueueTermsNext DEF Idle, QueueInv
  <2> QED BY <1>1, <1>3, <2>1, <2>3 DEF QueueInv
<1>5. OnlyHeadTried' /\ QueueAdvances'
  <2>1. CASE Emit BY <2>1, EmitQueue
  <2>2. CASE Timers BY <2>2, TimerQueue DEF Timers
  <2>3. CASE OnAck BY <2>3, OnAckQueue
  <2>4. CASE ConnectReturns \/ DisconnectReturns BY <2>4, ReturnsQueue
  <2>5. CASE Idle /\ ~(ConnectReturns \/ DisconnectReturns) BY <1>4, <2>5 DEF QueueInv
  <2> QED BY <1>2, <2>1, <2>2, <2>3, <2>4, <2>5, QueueMoves
<1> QED BY <1>1, <1>3, <1>5 DEF QueueInv

LEMMA InitQueue == Init => QueueInv
<1> SUFFICES ASSUME Init PROVE QueueInv OBVIOUS
<1>1. CallbackInv BY CallbackInit
<1>2. Len(stack) = 0 /\ Len(queue) = 0 /\ queue = <<>> BY DEF Init
<1>3. StackFits BY <1>2 DEF StackFits
<1>4. OnlyHeadTried /\ QueueAdvances BY <1>2 DEF OnlyHeadTried, QueueAdvances
<1> QED BY <1>1, <1>3, <1>4 DEF QueueInv

LEMMA QueueInvariant == Spec => []QueueInv
BY InitQueue, QueueKept, PTL DEF Spec

(* The queue sends one message at a time (_drainQueue, _addToQueue): those  *)
(* behind the head are untried, for any number of retries and messages.     *)
THEOREM OnlyHeadTriedCorrect == Spec => []OnlyHeadTried
<1>1. QueueInv => OnlyHeadTried BY DEF QueueInv
<1> QED BY <1>1, QueueInvariant, PTL

(* The retry queue never stalls: a socket that is connected and runs no     *)
(* listener has sent the head of its queue and waits for the answer, after  *)
(* whatever timers, answers, disconnections and emissions there were.       *)
THEOREM QueueAdvancesCorrect == Spec => []QueueAdvances
<1>1. QueueInv => QueueAdvances BY DEF QueueInv
<1> QED BY <1>1, QueueInvariant, PTL

(***************************************************************************)
(* Success is reported for what the server has received                     *)
(***************************************************************************)
(* The packets of s carry ids below n, and a handler of a that has the id   *)
(* of one belongs to its message.  a and n are those that _drainQueue and   *)
(* _registerAckCallback leave.                                              *)
IdsFit(s, a, n) ==
  \A i \in 1 .. Len(s) : s[i].type = "EVENT" =>
     s[i].id < n /\ \A h \in a : h.id = s[i].id => h.m = s[i].m

Received(m) == \E j \in 1 .. Len(received) : received[j] = m

(* The answers on the way are to messages that have been received.          *)
AnswersFit(a, n) ==
  \A i \in 1 .. Len(inb) : inb[i].type = "ACK" =>
     inb[i].id < n /\ \A h \in a : h.id = inb[i].id => Received(h.m)

(* The queue's messages are not buffered, and only messages are.            *)
BufferFits(a) ==
  \A i \in 1 .. Len(sendBuffer) :
     /\ sendBuffer[i].type = "EVENT"
     /\ \A h \in a : h.id = sendBuffer[i].id => ~h.queued

WireFits(a, n) ==
  /\ IdsFit(out, a, n) /\ IdsFit(sendBuffer, a, n)
  /\ AnswersFit(a, n) /\ BufferFits(a)

Success(o)  == \E i \in 1 .. Len(o) : o[i] = "ok"
SuccessFits == \A m \in Messages : Success(outcomes[m]) => Received(m)

(* An id that is new is that of no packet.                                  *)
LEMMA FreshIds ==
  ASSUME NEW a, NEW b, NEW h, b \subseteq a \cup {h},
         NEW n \in Nat, h.id = n, NEW s \in Seq(Packet), IdsFit(s, a, n)
  PROVE  IdsFit(s, b, n + 1)
<1>1. \A i \in 1 .. Len(s) : s[i].id \in Int
  <2>1. \A i \in 1 .. Len(s) : s[i] \in Packet BY ElementOfSeq
  <2> QED BY <2>1 DEF Packet
<1> QED BY <1>1 DEF IdsFit

LEMMA FreshWire ==
  ASSUME TypeOK, NEW a, NEW b, NEW h, b \subseteq a \cup {h},
         NEW n \in Nat, h.id = n, WireFits(a, n)
  PROVE  WireFits(b, n + 1)
<1>1. /\ out \in Seq(Packet) /\ sendBuffer \in Seq(Packet) /\ inb \in Seq(Packet)
  BY DEF TypeOK, WireTypeOK, SocketTypeOK
<1>2. IdsFit(out, b, n + 1) /\ IdsFit(sendBuffer, b, n + 1)
  BY <1>1, FreshIds DEF WireFits
<1>3. AnswersFit(b, n + 1)
  <2>1. \A i \in 1 .. Len(inb) : inb[i].id \in Int
    <3>1. \A i \in 1 .. Len(inb) : inb[i] \in Packet BY <1>1, ElementOfSeq
    <3> QED BY <3>1 DEF Packet
  <2> QED BY <2>1 DEF WireFits, AnswersFit
<1>4. BufferFits(b)
  <2>1. \A i \in 1 .. Len(sendBuffer) :
           sendBuffer[i].id \in Int /\ sendBuffer[i].type = "EVENT" /\ sendBuffer[i].id < n
    <3>1. \A i \in 1 .. Len(sendBuffer) : sendBuffer[i] \in Packet BY <1>1, ElementOfSeq
    <3> QED BY <3>1 DEF Packet, WireFits, BufferFits, IdsFit
  <2> QED BY <2>1 DEF WireFits, BufferFits
<1> QED BY <1>2, <1>3, <1>4 DEF WireFits

(* Fewer handlers fit as well.                                              *)
LEMMA FewerWire ==
  ASSUME NEW a, NEW b \in SUBSET a, NEW n, WireFits(a, n)
  PROVE  WireFits(b, n)
BY DEF WireFits, IdsFit, AnswersFit, BufferFits

(* Sequences of which one is written after the other.                       *)
LEMMA ConcatIds ==
  ASSUME NEW s \in Seq(Packet), NEW t \in Seq(Packet), NEW a, NEW n,
         IdsFit(s, a, n), IdsFit(t, a, n)
  PROVE  IdsFit(s \o t, a, n)
<1> DEFINE r == s \o t
<1>1. Len(s) \in Nat /\ Len(t) \in Nat BY LenProperties
<1>2. /\ Len(r) = Len(s) + Len(t)
      /\ \A i \in 1 .. Len(s) + Len(t) : r[i] = IF i <= Len(s) THEN s[i] ELSE t[i - Len(s)]
  BY ConcatProperties
<1> HIDE DEF r
<1>3. ASSUME NEW i \in 1 .. Len(r)
      PROVE  \/ \E j \in 1 .. Len(s) : r[i] = s[j]
             \/ \E j \in 1 .. Len(t) : r[i] = t[j]
  <2>1. CASE i <= Len(s) BY <1>1, <1>2, <2>1
  <2>2. CASE i > Len(s)
    <3>1. i - Len(s) \in 1 .. Len(t) /\ r[i] = t[i - Len(s)] BY <1>1, <1>2, <2>2
    <3> QED BY <3>1
  <2> QED BY SMTT(40), <1>1, <1>2, <2>1, <2>2
<1>4. ASSUME NEW i \in 1 .. Len(r), r[i].type = "EVENT"
      PROVE  r[i].id < n /\ \A h \in a : h.id = r[i].id => h.m = r[i].m
  <2>1. ASSUME NEW j \in 1 .. Len(s), r[i] = s[j]
        PROVE  r[i].id < n /\ \A h \in a : h.id = r[i].id => h.m = r[i].m
    BY <1>4, <2>1 DEF IdsFit
  <2>2. ASSUME NEW j \in 1 .. Len(t), r[i] = t[j]
        PROVE  r[i].id < n /\ \A h \in a : h.id = r[i].id => h.m = r[i].m
    BY <1>4, <2>2 DEF IdsFit
  <2> QED BY <1>3, <2>1, <2>2
<1>5. IdsFit(r, a, n) BY <1>4 DEF IdsFit
<1> QED BY <1>5 DEF r

(* A sequence of which each element was one of s.                           *)
Part(r, s) == \A i \in 1 .. Len(r) : \E j \in 1 .. Len(s) : r[i] = s[j]

LEMMA PartIds ==
  ASSUME NEW r, NEW s, NEW a, NEW n, Part(r, s), IdsFit(s, a, n)
  PROVE  IdsFit(r, a, n)
BY DEF Part, IdsFit

LEMMA TailPart ==
  ASSUME NEW S, NEW s \in Seq(S), s # <<>>
  PROVE  Part(Tail(s), s) /\ \E j \in 1 .. Len(s) : Head(s) = s[j]
<1>1. Head(s) \in S BY HeadTailProperties
<1>2. /\ Head(s) = s[1] /\ 1 \in 1 .. Len(s)
      /\ Len(Tail(s)) = Len(s) - 1 /\ \A i \in 1 .. Len(s) - 1 : Tail(s)[i] = s[i + 1]
  <2>1. PICK x \in S : x = Head(s) BY <1>1
  <2> QED BY <2>1, HeadTailFacts
<1>3. Len(s) \in Nat BY LenProperties
<1>4. \A i \in 1 .. Len(Tail(s)) : i + 1 \in 1 .. Len(s) /\ Tail(s)[i] = s[i + 1]
  BY <1>2, <1>3
<1> QED BY <1>2, <1>4 DEF Part

LEMMA RemovePart ==
  ASSUME NEW S, NEW s \in Seq(S), NEW k \in DOMAIN s
  PROVE  /\ Len(RemoveAt(s, k)) = Len(s) - 1 /\ Len(s) \in Nat /\ k \in 1 .. Len(s)
         /\ \A i \in 1 .. Len(s) - 1 : RemoveAt(s, k)[i] = IF i < k THEN s[i] ELSE s[i + 1]
         /\ Part(RemoveAt(s, k), s)
<1> DEFINE p == SubSeq(s, 1, k - 1)
           q == SubSeq(s, k + 1, Len(s))
<1>1. /\ Len(s) \in Nat /\ k \in 1 .. Len(s)
      /\ \A i \in 1 .. Len(s) : s[i] \in S
  BY LenProperties, ElementOfSeq
<1>2. /\ 1 \in Int /\ k - 1 \in Int /\ k + 1 \in Int /\ Len(s) \in Int
      /\ \A i \in 1 .. k - 1 : s[i] \in S
      /\ \A i \in k + 1 .. Len(s) : s[i] \in S
  BY <1>1
<1>3. /\ p \in Seq(S) /\ Len(p) = IF 1 <= k - 1 THEN (k - 1) - 1 + 1 ELSE 0
      /\ \A i \in 1 .. (k - 1) - 1 + 1 : p[i] = s[1 + i - 1]
  BY <1>2, SubSeqProperties
<1>4. /\ q \in Seq(S)
      /\ Len(q) = IF k + 1 <= Len(s) THEN Len(s) - (k + 1) + 1 ELSE 0
      /\ \A i \in 1 .. Len(s) - (k + 1) + 1 : q[i] = s[k + 1 + i - 1]
  BY <1>2, SubSeqProperties
<1> HIDE DEF p, q
<1>5. Len(p) = k - 1 /\ Len(q) = Len(s) - k BY <1>1, <1>3, <1>4
<1>6. \A i \in 1 .. k - 1 : p[i] = s[i]
  <2>1. \A i \in 1 .. k - 1 : i \in 1 .. (k - 1) - 1 + 1 /\ 1 + i - 1 = i BY <1>1
  <2> QED BY <1>3, <2>1
<1>7. \A i \in 1 .. Len(s) - k : q[i] = s[k + i]
  <2>1. \A i \in 1 .. Len(s) - k : i \in 1 .. Len(s) - (k + 1) + 1 /\ k + 1 + i - 1 = k + i
    BY <1>1
  <2> QED BY <1>4, <2>1
<1> DEFINE r == p \o q
<1>8. /\ Len(r) = Len(p) + Len(q)
      /\ \A i \in 1 .. Len(p) + Len(q) : r[i] = IF i <= Len(p) THEN p[i] ELSE q[i - Len(p)]
  BY <1>3, <1>4, ConcatProperties
<1> HIDE DEF r
<1>9. Len(r) = Len(s) - 1 BY <1>1, <1>5, <1>8
<1>10. ASSUME NEW i \in 1 .. Len(s) - 1
       PROVE  r[i] = IF i < k THEN s[i] ELSE s[i + 1]
  <2>0. i \in Int /\ k \in Int /\ i \in 1 .. Len(p) + Len(q) /\ Len(p) = k - 1
    BY <1>1, <1>5
  <2>1. CASE i < k
    <3>1. i \in 1 .. k - 1 /\ i <= Len(p) BY <2>0, <2>1
    <3>2. r[i] = p[i] BY <1>8, <2>0, <3>1
    <3>3. p[i] = s[i] BY <1>6, <3>1
    <3> QED BY <2>1, <3>2, <3>3
  <2>2. CASE i >= k
    <3>0. i - (k - 1) \in 1 .. Len(s) - k /\ ~(i <= Len(p)) BY <1>1, <2>0, <2>2
    <3>1. r[i] = q[i - (k - 1)] BY <1>8, <2>0, <3>0
    <3>2. k + (i - (k - 1)) = i + 1 BY <1>1
    <3>3. r[i] = s[i + 1] BY <1>7, <3>0, <3>1, <3>2
    <3> QED BY <2>0, <2>2, <3>3
  <2> QED BY <2>0, <2>1, <2>2
<1>11. Part(r, s)
  <2>1. \A i \in 1 .. Len(r) : i \in 1 .. Len(s) /\ i + 1 \in 1 .. Len(s) BY <1>1, <1>9
  <2> QED BY <1>9, <1>10, <2>1 DEF Part
<1> QED BY <1>1, <1>9, <1>10, <1>11 DEF RemoveAt, p, q, r

(* Writing: control packets and answers carry no id of a handler.           *)
LEMMA WriteIds ==
  ASSUME TypeOK, NEW pkts \in Seq(Packet), Write(pkts), NEW a, NEW n,
         IdsFit(out, a, n), IdsFit(pkts, a, n)
  PROVE  IdsFit(out', a, n)
BY ConcatIds DEF Write, TypeOK, WireTypeOK

LEMMA ControlIds ==
  ASSUME NEW p \in Packet, p.type # "EVENT"
  PROVE  /\ <<p>> \in Seq(Packet) /\ Len(<<p>>) = 1 /\ <<p>>[1] = p
         /\ \A a, n : IdsFit(<<p>>, a, n)
<1>1. <<p>> \in Seq(Packet) /\ Len(<<p>>) = 1 /\ <<p>>[1] = p OBVIOUS
<1> DEFINE s == <<p>>
<1> HIDE DEF s
<1>2. s \in Seq(Packet) /\ Len(s) = 1 /\ s[1] = p BY <1>1 DEF s
<1>3. \A i \in 1 .. Len(s) : s[i].type # "EVENT" BY <1>2
<1>4. \A a, n : IdsFit(s, a, n) BY <1>3 DEF IdsFit
<1> QED BY <1>2, <1>4 DEF s

(* What was told: success only of a message that was received.              *)
LEMMA ToldSuccess ==
  ASSUME TypeOK, SuccessFits, NEW m \in Messages, NEW v \in {"ok", "err"},
         v = "ok" => Received(m)
  PROVE  \A k \in Messages : Success(Told(outcomes, m, v)[k]) => Received(k)
<1> DEFINE f == Told(outcomes, m, v)
<1>1. outcomes \in [Messages -> Seq({"ok", "err"})] BY DEF TypeOK, HistoryTypeOK
<1>2. \A k \in Messages \ {m} : f[k] = outcomes[k] BY <1>1, ToldFacts
<1>3. f[m] = Append(outcomes[m], v) BY <1>1 DEF Told
<1> HIDE DEF f
<1>4. ASSUME Success(f[m]) PROVE Received(m)
  <2>1. outcomes[m] \in Seq({"ok", "err"}) BY <1>1
  <2>2. /\ Len(outcomes[m]) \in Nat
        /\ Len(f[m]) = Len(outcomes[m]) + 1 /\ f[m][Len(outcomes[m]) + 1] = v
        /\ \A i \in 1 .. Len(outcomes[m]) : f[m][i] = outcomes[m][i]
    BY <1>3, <2>1, AppendProperties, LenProperties
  <2>3. PICK i \in 1 .. Len(f[m]) : f[m][i] = "ok" BY <1>4 DEF Success
  <2>4. CASE i \in 1 .. Len(outcomes[m]) BY <2>2, <2>3, <2>4 DEF SuccessFits, Success
  <2>5. CASE i = Len(outcomes[m]) + 1 BY <2>2, <2>3, <2>5
  <2> QED BY <2>2, <2>4, <2>5
<1>5. \A k \in Messages : Success(f[k]) => Received(k) BY <1>2, <1>4 DEF SuccessFits
<1> QED BY <1>5 DEF f

(* What _drainQueue writes has the id of the handler that it registers.     *)
LEMMA DrainWire ==
  ASSUME TypeOK, NEW q \in Seq(QueueEntry), NEW a \in SUBSET Handler, NEW t,
         NEW force \in BOOLEAN, DrainQueue(q, a, t, force), WireFits(a, ids),
         \A g \in a : g.id < ids
  PROVE  IdsFit(out', acks', ids') /\ WireFits(acks', ids')
<1>1. CASE SendsHead(q, force)
  <2> DEFINE h == HeadHandler(Head(q))
             p == EventPacket(ids, Head(q).m)
  <2>0. Head(q) \in QueueEntry BY <1>1, QueueFacts DEF SendsHead
  <2>1. ids \in Nat /\ Head(q).m \in Nat
    BY <2>0, BoundsAssumption DEF TypeOK, QueueTypeOK, QueueEntry, Messages
  <2>2. h.id = ids /\ h.m = Head(q).m BY DEF HeadHandler
  <2>3. p \in Packet /\ <<p>> \in Seq(Packet) BY <2>1, EventPacketType
  <2>4. p.type = "EVENT" /\ p.id = ids /\ p.m = Head(q).m BY DEF EventPacket, PacketOf
  <2>5. acks' = a \cup {h} /\ ids' = ids + 1 /\ Write(<<p>>)
    BY <1>1 DEF DrainQueue, Register, NextId
  <2> HIDE DEF h, p
  <2>6. WireFits(acks', ids') BY <2>1, <2>2, <2>5, FreshWire
  <2>7. IdsFit(<<p>>, acks', ids')
    <3>1. \A g \in acks' : g.id = ids => g.m = p.m
      BY <2>1, <2>2, <2>4, <2>5 DEF Handler
    <3>2. Len(<<p>>) = 1 /\ <<p>>[1] = p OBVIOUS
    <3> QED BY <2>1, <2>4, <2>5, <3>1, <3>2 DEF IdsFit
  <2> QED BY <2>3, <2>5, <2>6, <2>7, WriteIds DEF WireFits
<1>2. CASE ~SendsHead(q, force)
  BY <1>2 DEF DrainQueue, WireFits
<1> QED BY <1>1, <1>2

(* The callback of the queue, for a handler that is gone.                   *)
LEMMA CallbackWire ==
  ASSUME CallbackInv, NEW m \in Messages, NEW err \in BOOLEAN, NEW a \in SUBSET acks,
         NEW t, QueueCallback(m, err, a, t), WireFits(acks, ids), SuccessFits,
         err \/ Received(m)
  PROVE  /\ IdsFit(out', acks', ids') /\ WireFits(acks', ids')
         /\ \A k \in Messages : Success(outcomes'[k]) => Received(k)
<1>1. WireFits(a, ids) BY FewerWire
<1>2. TypeOK /\ a \in SUBSET Handler /\ \A g \in a : g.id < ids
  BY DEF CallbackInv, TypeOK, QueueTypeOK, HandlersOK
<1>3. IdsFit(out', acks', ids') /\ WireFits(acks', ids')
  <2>1. CASE IsHead(m)
    <3> DEFINE r == AfterCallback(m, err)
    <3>1. r \in Seq(QueueEntry) BY <1>2, <2>1, AfterCallbackType
    <3>2. DrainQueue(r, a, t, FALSE) BY <2>1 DEF QueueCallback
    <3> HIDE DEF r
    <3> QED BY <1>1, <1>2, <3>1, <3>2, DrainWire
  <2>2. CASE ~IsHead(m)
    BY <1>1, <2>2 DEF QueueCallback, WireFits
  <2> QED BY <2>1, <2>2
<1>4. \A k \in Messages : Success(outcomes'[k]) => Received(k)
  <2> DEFINE v == IF err THEN "err" ELSE "ok"
  <2>1. v \in {"ok", "err"} /\ (v = "ok" => Received(m)) OBVIOUS
  <2>2. outcomes' \in {outcomes, Told(outcomes, m, v)} BY DEF QueueCallback
  <2> HIDE DEF v
  <2>3. \A k \in Messages : Success(Told(outcomes, m, v)[k]) => Received(k)
    BY <1>2, <2>1, ToldSuccess
  <2> QED BY <2>2, <2>3 DEF SuccessFits
<1> QED BY <1>3, <1>4

WireInv == QueueInv /\ WireFits(acks, ids) /\ SuccessFits
WireNext == WireFits(acks', ids') /\ IdsFit(out', acks', ids')

(* The rest of a step: the buffer and what arrives only get shorter.        *)
LEMMA WirePart ==
  ASSUME WireNext, Part(sendBuffer', sendBuffer), Part(inb', inb), received' = received
  PROVE  WireFits(acks, ids)'
<1>1. IdsFit(sendBuffer', acks', ids') BY PartIds DEF WireNext, WireFits
<1>2. BufferFits(acks)' BY DEF WireNext, WireFits, BufferFits, Part
<1>3. AnswersFit(acks, ids)' BY ZenonT(60) DEF WireNext, WireFits, AnswersFit, Received, Part
<1> QED BY <1>1, <1>2, <1>3 DEF WireNext, WireFits

LEMMA PartFacts ==
  ASSUME NEW s
  PROVE  Part(s, s) /\ Part(<<>>, s)
<1>1. Len(<<>>) = 0 BY EmptySeq
<1> QED BY <1>1 DEF Part

(* A message is routed with the id of the handler that emit registers.      *)
LEMMA EmitWire == ASSUME WireInv, Emit PROVE WireFits(acks, ids)'
<1>1. PICK mods \in SUBSET Modifiers, kind \in AckKinds :
         EmitDirect(mods, kind) \/ EmitQueued(mods, kind)
  BY DEF Emit
<1> DEFINE fl == flags \cup mods
<1>2. TypeOK /\ WireFits(acks, ids) /\ \A g \in acks : g \in Handler /\ g.id < ids
  BY DEF WireInv, QueueInv, CallbackInv, TypeOK, QueueTypeOK, HandlersOK
<1>3. NextMessage(fl) /\ UNCHANGED <<inb, received>>
  BY <1>1 DEF EmitDirect, EmitQueued, NextMessage, serverVars
<1>4. emitted + 1 \in Messages /\ emitted + 1 \in Nat /\ ids \in Nat
  BY <1>2, <1>3, BoundsAssumption DEF NextMessage, Messages, TypeOK, HistoryTypeOK, QueueTypeOK
<1>5. CASE EmitQueued(mods, kind)
  <2> DEFINE q == Append(queue, NewEntry(fl, kind))
  <2>1. q \in Seq(QueueEntry)
    <3>1. NewEntry(fl, kind) \in QueueEntry BY <1>4 DEF NewEntry, QueueEntry
    <3> QED BY <1>2, <3>1, AppendProperties DEF TypeOK, QueueTypeOK
  <2>2. sendBuffer' = sendBuffer BY <1>5 DEF EmitQueued
  <2>3. IF SendsHead(q, FALSE) THEN DrainQueue(q, acks, timers, FALSE)
                               ELSE UNCHANGED <<ackVars, out>>
    BY <1>5 DEF EmitQueued
  <2> HIDE DEF q
  <2>4. WireNext
    <3>1. CASE SendsHead(q, FALSE)
      <4>1. DrainQueue(q, acks, timers, FALSE) BY <2>3, <3>1
      <4>2. acks \in SUBSET Handler BY <1>2
      <4> QED BY <1>2, <2>1, <4>1, <4>2, DrainWire DEF WireNext
    <3>2. CASE ~SendsHead(q, FALSE)
      BY <1>2, <2>3, <3>2 DEF ackVars, WireNext, WireFits
    <3> QED BY <3>1, <3>2
  <2> QED BY <1>3, <2>2, <2>4, PartFacts, WirePart
<1>6. CASE EmitDirect(mods, kind)
  <2> DEFINE id == IF kind = "none" THEN NoId ELSE ids
             m  == emitted + 1
             p  == EventPacket(id, m)
  <2>1. Route(fl, p) BY <1>6 DEF EmitDirect
  <2>2. id \in Int BY <1>4 DEF NoId
  <2>3. p \in Packet /\ <<p>> \in Seq(Packet) BY <1>4, <2>2, EventPacketType
  <2>4. p.type = "EVENT" /\ p.id = id /\ p.m = m BY DEF EventPacket, PacketOf
  <2>5. /\ WireFits(acks', ids')
        /\ id < ids' /\ \A h \in acks' : h.id = id => h.m = m /\ ~h.queued
    <3>1. CASE kind = "none"
      <4>1. UNCHANGED ackVars BY <1>6, <3>1 DEF EmitDirect
      <4>2. id = -1 BY <3>1 DEF NoId
      <4>3. \A h \in acks : h.id >= 0 BY <1>2 DEF Handler
      <4> QED BY <1>2, <1>4, <4>1, <4>2, <4>3 DEF ackVars
    <3>2. CASE kind # "none"
      <4> DEFINE h == NewHandler(fl, kind)
      <4>1. acks' = acks \cup {h} /\ ids' = ids + 1
        BY <1>6, <3>2 DEF EmitDirect, Register, NextId
      <4>2. h.id = ids /\ h.m = m /\ ~h.queued BY DEF NewHandler
      <4>3. id = ids BY <3>2
      <4> HIDE DEF h, id, m
      <4>4. WireFits(acks', ids') BY <1>2, <1>4, <4>1, <4>2, FreshWire
      <4>5. \A g \in acks : g.id # ids BY <1>2, <1>4 DEF Handler
      <4> QED BY <1>4, <4>1, <4>2, <4>3, <4>4, <4>5
    <3> QED BY <3>1, <3>2
  <2> HIDE DEF p, id, m
  <2>6. IdsFit(<<p>>, acks', ids')
    <3>1. Len(<<p>>) = 1 /\ <<p>>[1] = p OBVIOUS
    <3> QED BY <2>4, <2>5, <3>1 DEF IdsFit
  <2>7. IdsFit(out', acks', ids')
    <3>1. CASE Write(<<p>>)
      BY <1>2, <2>3, <2>5, <2>6, <3>1, WriteIds DEF WireFits
    <3>2. CASE UNCHANGED out BY <2>5, <3>2 DEF WireFits
    <3> QED BY <2>1, <3>1, <3>2 DEF Route
  <2>8. IdsFit(sendBuffer', acks', ids') /\ BufferFits(acks)'
    <3>1. CASE UNCHANGED sendBuffer BY <2>5, <3>1 DEF WireFits, BufferFits
    <3>2. CASE sendBuffer' = Append(sendBuffer, p)
      <4>1. sendBuffer \in Seq(Packet) BY <1>2 DEF TypeOK, SocketTypeOK
      <4>2. sendBuffer' = sendBuffer \o <<p>>
        BY <2>3, <3>2, <4>1, AppendIsConcat
      <4>3. IdsFit(sendBuffer', acks', ids')
        BY <2>3, <2>5, <2>6, <4>1, <4>2, ConcatIds DEF WireFits
      <4>4. /\ Len(sendBuffer) \in Nat /\ Len(sendBuffer') = Len(sendBuffer) + 1
            /\ sendBuffer'[Len(sendBuffer) + 1] = p
            /\ \A i \in 1 .. Len(sendBuffer) : sendBuffer'[i] = sendBuffer[i]
        BY <2>3, <3>2, <4>1, AppendProperties, LenProperties
      <4>5. ASSUME NEW i \in 1 .. Len(sendBuffer')
            PROVE  /\ sendBuffer'[i].type = "EVENT"
                   /\ \A h \in acks' : h.id = sendBuffer'[i].id => ~h.queued
        <5>1. CASE i \in 1 .. Len(sendBuffer) BY <2>5, <4>4, <5>1 DEF WireFits, BufferFits
        <5>2. CASE i = Len(sendBuffer) + 1 BY <2>4, <2>5, <4>4, <5>2
        <5> QED BY <4>4, <5>1, <5>2
      <4>6. BufferFits(acks)' BY <4>5 DEF BufferFits
      <4> QED BY <4>3, <4>6
    <3> QED BY <2>1, <3>1, <3>2 DEF Route
  <2>9. AnswersFit(acks, ids)' BY <1>3, <2>5 DEF WireFits, AnswersFit, Received
  <2> QED BY <2>7, <2>8, <2>9 DEF WireFits
<1> QED BY <1>1, <1>5, <1>6

(* The timer removes its packet from the buffer.                            *)
LEMMA TimerWire ==
  ASSUME WireInv, NEW h \in timers, TimerFires(h)
  PROVE  WireFits(acks, ids)' /\ SuccessFits'
<1>1. /\ CallbackInv /\ TypeOK /\ WireFits(acks, ids) /\ SuccessFits
      /\ h \in acks /\ h.m \in Messages
  BY DEF WireInv, QueueInv, CallbackInv, TypeOK, QueueTypeOK, HandlersOK, Handler
<1>2. Without(h) = acks \ {h} BY <1>1 DEF CallbackInv, HandlersOK, Without
<1>3. UNCHANGED <<inb, received>> BY DEF TimerFires, serverVars
<1>4. Part(sendBuffer', sendBuffer)
  <2>1. sendBuffer' = Unbuffer(h.id) BY DEF TimerFires
  <2>2. sendBuffer \in Seq(Packet) BY <1>1 DEF TypeOK, SocketTypeOK
  <2> QED BY <2>1, <2>2, RemovePart, PartFacts DEF Unbuffer
<1>5. WireNext /\ \A k \in Messages : Success(outcomes'[k]) => Received(k)
  <2>1. CASE h.queued
    <3>1. QueueCallback(h.m, TRUE, acks \ {h}, timers \ {h}) BY <1>2, <2>1 DEF TimerFires
    <3> DEFINE a == acks \ {h}
    <3>2. a \in SUBSET acks /\ QueueCallback(h.m, TRUE, a, timers \ {h}) BY <3>1
    <3> HIDE DEF a
    <3> QED BY <1>1, <3>2, CallbackWire DEF WireNext
  <2>2. CASE ~h.queued
    <3>1. /\ acks' = acks \ {h} /\ UNCHANGED <<ids, out>>
          /\ outcomes' = Told(outcomes, h.m, "err")
      BY <1>2, <2>2 DEF TimerFires
    <3>2. WireFits(acks', ids') BY <1>1, <3>1, FewerWire
    <3>3. \A k \in Messages : Success(outcomes'[k]) => Received(k)
      BY <1>1, <3>1, ToldSuccess
    <3> QED BY <3>1, <3>2, <3>3 DEF WireNext, WireFits
  <2> QED BY <2>1, <2>2
<1> QED BY <1>3, <1>4, <1>5, PartFacts, WirePart DEF SuccessFits, Received

(* The answer calls back the handler of its id, whose message was received. *)
LEMMA OnAckWire == ASSUME WireInv, OnAck PROVE WireFits(acks, ids)' /\ SuccessFits'
<1>1. CallbackInv /\ TypeOK /\ WireFits(acks, ids) /\ SuccessFits
  BY DEF WireInv, QueueInv, CallbackInv
<1>2. UNCHANGED <<sendBuffer, received>> BY DEF OnAck
<1>3. inb \in Seq(Packet) /\ inb # <<>> /\ Head(inb).type = "ACK" /\ inb' = Tail(inb)
  BY <1>1 DEF OnAck, Arrives, Consume, TypeOK, WireTypeOK
<1>4. Part(inb', inb) /\ \E j \in 1 .. Len(inb) : Head(inb) = inb[j] BY <1>3, TailPart
<1>5. \A h \in acks : h.id = Head(inb).id => Received(h.m)
  BY <1>1, <1>3, <1>4 DEF WireFits, AnswersFit
<1>6. ASSUME NEW h \in acks, h.id = Head(inb).id,
             IF h.queued
             THEN QueueCallback(h.m, TakenForError(Head(inb)), acks \ {h}, timers)
             ELSE /\ acks' = acks \ {h}
                  /\ outcomes' = Told(outcomes, h.m, "ok")
                  /\ UNCHANGED <<timers, queue, ids, out, flags>>
      PROVE  WireNext /\ \A k \in Messages : Success(outcomes'[k]) => Received(k)
  <2>0. h.m \in Messages /\ Received(h.m) BY <1>1, <1>5, <1>6 DEF TypeOK, QueueTypeOK, Handler
  <2>1. CASE h.queued
    <3> DEFINE a == acks \ {h}
    <3>1. a \in SUBSET acks OBVIOUS
    <3>2. \E err \in BOOLEAN : QueueCallback(h.m, err, a, timers)
      BY <1>6, <2>1, AckedCallback, Zenon
    <3> HIDE DEF a
    <3> QED BY <1>1, <2>0, <3>1, <3>2, CallbackWire DEF WireNext
  <2>2. CASE ~h.queued
    <3>1. /\ acks' = acks \ {h} /\ UNCHANGED <<ids, out>>
          /\ outcomes' = Told(outcomes, h.m, "ok")
      BY <1>6, <2>2
    <3>2. WireFits(acks', ids') BY <1>1, <3>1, FewerWire
    <3>3. \A k \in Messages : Success(outcomes'[k]) => Received(k)
      BY <1>1, <2>0, <3>1, ToldSuccess
    <3> QED BY <3>1, <3>2, <3>3 DEF WireNext, WireFits
  <2> QED BY <2>1, <2>2
<1>7. ASSUME UNCHANGED <<acks, timers, queue, ids, out, flags, outcomes>>
      PROVE  WireNext /\ \A k \in Messages : Success(outcomes'[k]) => Received(k)
  BY <1>1, <1>7 DEF WireNext, WireFits, SuccessFits
<1>8. WireNext /\ \A k \in Messages : Success(outcomes'[k]) => Received(k)
  BY <1>6, <1>7 DEF OnAck
<1> QED BY <1>2, <1>4, <1>8, PartFacts, WirePart DEF SuccessFits, Received

(* The steps that leave the handlers alone, with what they do to the wire.  *)
Calm == UNCHANGED <<acks, ids, outcomes>>

LEMMA CalmWire ==
  ASSUME WireInv, Calm, received' = received,
         IdsFit(out', acks, ids), Part(sendBuffer', sendBuffer), Part(inb', inb)
  PROVE  WireFits(acks, ids)' /\ SuccessFits'
<1>1. WireNext BY DEF WireInv, Calm, WireNext, WireFits
<1>2. WireFits(acks, ids)' BY <1>1, WirePart
<1> QED BY <1>2 DEF WireInv, Calm, SuccessFits, Received

LEMMA FlushIds ==
  ASSUME WireInv, FlushSendBuffer
  PROVE  IdsFit(out', acks, ids) /\ Part(sendBuffer', sendBuffer)
<1>1. TypeOK /\ WireFits(acks, ids) BY DEF WireInv, QueueInv, CallbackInv
<1>2. sendBuffer \in Seq(Packet) BY <1>1 DEF TypeOK, SocketTypeOK
<1> QED BY <1>1, <1>2, WriteIds, PartFacts DEF FlushSendBuffer, WireFits

LEMMA ReturnsWire == ASSUME WireInv, Returns PROVE WireFits(acks, ids)' /\ SuccessFits'
<1>1. /\ CallbackInv /\ TypeOK /\ WireFits(acks, ids) /\ SuccessFits
      /\ queue \in Seq(QueueEntry) /\ acks \in SUBSET Handler /\ \A g \in acks : g.id < ids
  BY DEF WireInv, QueueInv, CallbackInv, TypeOK, QueueTypeOK, HandlersOK
<1>2. CASE ReplayReturns
  BY <1>2, CalmWire, FlushIds, PartFacts
     DEF ReplayReturns, Calm, ackVars, serverVars, userVars
<1>3. CASE ConnectReturns
  <2>1. /\ DrainQueue(queue, acks, timers, TRUE)
        /\ UNCHANGED <<sendBuffer, inb, received, outcomes>>
    BY <1>3 DEF ConnectReturns, serverVars, userVars
  <2>2. WireNext BY <1>1, <2>1, DrainWire DEF WireNext
  <2>3. WireFits(acks, ids)' BY <2>1, <2>2, PartFacts, WirePart
  <2> QED BY <1>1, <2>1, <2>3 DEF SuccessFits, Received
<1>4. CASE DisconnectReturns
  <2>1. /\ acks' = acks \ Dropped
        /\ UNCHANGED <<ids, sendBuffer, inb, out, received>>
        /\ \A m \in Messages : outcomes'[m] \in {outcomes[m], Append(outcomes[m], "err")}
    BY <1>4 DEF DisconnectReturns, serverVars
  <2>2. WireFits(acks', ids')
    <3> DEFINE b == acks \ Dropped
    <3>1. b \in SUBSET acks /\ acks' = b /\ ids' = ids BY <2>1
    <3> HIDE DEF b
    <3> QED BY <1>1, <3>1, FewerWire
  <2>3. WireFits(acks, ids)'
    BY <2>1, <2>2, PartFacts, WirePart DEF WireNext, WireFits
  <2>4. ASSUME NEW m \in Messages, Success(outcomes'[m]) PROVE Received(m)
    <3>1. outcomes[m] \in Seq({"ok", "err"}) BY <1>1 DEF TypeOK, HistoryTypeOK
    <3> DEFINE o == outcomes[m]
               p == Append(o, "err")
    <3>2. /\ Len(o) \in Nat /\ Len(p) = Len(o) + 1 /\ p[Len(o) + 1] = "err"
          /\ \A i \in 1 .. Len(o) : p[i] = o[i]
      BY <3>1, AppendProperties, LenProperties
    <3>3. outcomes'[m] \in {o, p} BY <2>1
    <3> HIDE DEF p
    <3>4. Success(p) => Success(o) BY <3>2 DEF Success
    <3>5. Success(o) BY <2>4, <3>3, <3>4
    <3> QED BY <1>1, <3>5 DEF SuccessFits
  <2> QED BY <2>1, <2>3, <2>4 DEF SuccessFits, Received
<1> QED BY <1>2, <1>3, <1>4 DEF Returns

(* What the server answers, and what it has received by then.               *)
LEMMA AnswersAppend ==
  ASSUME TypeOK, UNCHANGED <<acks, ids>>, AnswersFit(acks, ids),
         \A m : Received(m) => Received(m)', NEW p \in Packet, Reply(<<p>>),
         p.type = "ACK" => p.id < ids /\ \A h \in acks : h.id = p.id => Received(h.m)'
  PROVE  AnswersFit(acks, ids)'
<1>1. inb \in Seq(Packet) /\ <<p>> \in Seq(Packet) /\ Len(<<p>>) = 1 /\ <<p>>[1] = p
  BY DEF TypeOK, WireTypeOK
<1>2. CASE inb' = inb BY <1>2 DEF AnswersFit
<1>3. CASE inb' = inb \o <<p>>
  <2> DEFINE t == <<p>>
  <2>1. /\ Len(inb) \in Nat /\ Len(inb \o t) = Len(inb) + 1
        /\ (inb \o t)[Len(inb) + 1] = p
        /\ \A i \in 1 .. Len(inb) : (inb \o t)[i] = inb[i]
    <3>1. Len(inb) \in Nat BY <1>1, LenProperties
    <3> HIDE DEF t
    <3>2. t \in Seq(Packet) /\ Len(t) = 1 /\ t[1] = p BY <1>1 DEF t
    <3>3. /\ Len(inb \o t) = Len(inb) + Len(t)
          /\ \A i \in 1 .. Len(inb) + Len(t) :
               (inb \o t)[i] = IF i <= Len(inb) THEN inb[i] ELSE t[i - Len(inb)]
      BY <1>1, <3>2, ConcatProperties
    <3> QED BY <3>1, <3>2, <3>3
  <2> HIDE DEF t
  <2>2. inb' = inb \o t BY <1>3 DEF t
  <2>3. ASSUME NEW i \in 1 .. Len(inb'), inb'[i].type = "ACK"
        PROVE  inb'[i].id < ids' /\ \A h \in acks' : h.id = inb'[i].id => Received(h.m)'
    <3>1. CASE i \in 1 .. Len(inb) BY <2>1, <2>2, <2>3, <3>1 DEF AnswersFit
    <3>2. CASE i = Len(inb) + 1 BY <2>1, <2>2, <2>3, <3>2
    <3> QED BY <2>1, <2>2, <3>1, <3>2
  <2> QED BY <2>3 DEF AnswersFit
<1> QED BY <1>2, <1>3 DEF Reply

LEMMA ServerWire == ASSUME WireInv, Server PROVE WireFits(acks, ids)' /\ SuccessFits'
<1>1. TypeOK /\ WireFits(acks, ids) /\ SuccessFits
  BY DEF WireInv, QueueInv, CallbackInv
<1>2. out \in Seq(Packet) /\ received \in Seq(Nat) BY <1>1 DEF TypeOK, WireTypeOK
<1>3. Calm /\ UNCHANGED sendBuffer
  BY DEF Server, ServerTakes, ServerEmits, ServerDisconnects, socketVars, userVars, Calm
<1>4. IdsFit(out', acks, ids)
  <2>1. CASE ServerTakes BY <1>1, <1>2, <2>1, TailPart, PartIds DEF ServerTakes, WireFits
  <2>2. CASE ServerEmits \/ ServerDisconnects
    BY <1>1, <2>2 DEF ServerEmits, ServerDisconnects, WireFits
  <2> QED BY <2>1, <2>2 DEF Server
<1>5. AnswersFit(acks, ids)' /\ \A m : Received(m) => Received(m)'
  <2>1. CASE ServerTakes
    <3>0. PICK p \in Packet : p = Head(out)
      BY <1>2, <2>1, HeadTailProperties DEF ServerTakes
    <3>1. p \in Packet /\ p.id \in Int /\ p.m \in Nat BY DEF Packet
    <3>2. \E j \in 1 .. Len(out) : p = out[j] BY <1>2, <2>1, <3>0, TailPart DEF ServerTakes
    <3>3. p.type = "EVENT" => p.id < ids /\ \A h \in acks : h.id = p.id => h.m = p.m
      BY <1>1, <3>2 DEF WireFits, IdsFit
    <3>4. CASE /\ p.type = "CONNECT" /\ received' = received
               /\ \/ \E q \in ServerPids : Reply(<<[p EXCEPT !.pid = q]>>)
                  \/ Reply(<<Control("CONNECT_ERROR")>>)
      <4>1. ASSUME NEW q \in ServerPids PROVE [p EXCEPT !.pid = q] \in Packet
                                              /\ [p EXCEPT !.pid = q].type = "CONNECT"
        BY <3>1, <3>4 DEF Packet, Pids
      <4>2. Control("CONNECT_ERROR") \in Packet /\ Control("CONNECT_ERROR").type # "ACK"
        BY ControlType DEF Control, PacketOf
      <4>3. \A m : Received(m) => Received(m)' BY <3>4 DEF Received
      <4>4. AnswersFit(acks, ids) /\ UNCHANGED <<acks, ids>>
        BY <1>1, <1>3 DEF WireFits, Calm
      <4>5. CASE Reply(<<Control("CONNECT_ERROR")>>)
        BY <1>1, <4>2, <4>3, <4>4, <4>5, AnswersAppend
      <4>6. ASSUME NEW q \in ServerPids, Reply(<<[p EXCEPT !.pid = q]>>)
            PROVE  AnswersFit(acks, ids)'
        <5> DEFINE r == [p EXCEPT !.pid = q]
        <5>1. r \in Packet /\ r.type # "ACK" /\ Reply(<<r>>) BY <4>1, <4>6
        <5> HIDE DEF r
        <5> QED BY <1>1, <4>3, <4>4, <5>1, AnswersAppend
      <4> QED BY <3>4, <4>3, <4>5, <4>6
    <3>5. CASE /\ p.type = "EVENT" /\ received' = Append(received, p.m)
               /\ (\E n \in AckSizes : Reply(<<AckPacket(p.id, n)>>)) \/ UNCHANGED inb
      <4>1. /\ Len(received') = Len(received) + 1 /\ Len(received) \in Nat
            /\ received'[Len(received) + 1] = p.m
            /\ \A i \in 1 .. Len(received) : received'[i] = received[i]
        BY <1>2, <3>1, <3>5, AppendProperties, LenProperties
      <4>2. \A m : Received(m) => Received(m)' BY <4>1 DEF Received
      <4>3. Received(p.m)'
        <5>1. Len(received) + 1 \in 1 .. Len(received') BY <4>1
        <5> QED BY <4>1, <5>1 DEF Received
      <4>4. \A n \in AckSizes : AckPacket(p.id, n) \in Packet /\ AckPacket(p.id, n).id = p.id
        BY <3>1, AckPacketType, AckSizesAssumption DEF AckPacket, PacketOf
      <4>5. AnswersFit(acks, ids) /\ UNCHANGED <<acks, ids>>
        BY <1>1, <1>3 DEF WireFits, Calm
      <4>6. \A h \in acks : h.id = p.id => Received(h.m)' BY <3>3, <3>5, <4>3
      <4>7. CASE UNCHANGED inb BY <4>2, <4>5, <4>7 DEF AnswersFit
      <4>8. ASSUME NEW n \in AckSizes, Reply(<<AckPacket(p.id, n)>>)
            PROVE  AnswersFit(acks, ids)'
        BY <1>1, <3>3, <3>5, <4>2, <4>4, <4>5, <4>6, <4>8, AnswersAppend
      <4> QED BY <3>5, <4>2, <4>7, <4>8
    <3>6. CASE UNCHANGED <<inb, received>>
      BY <1>1, <1>3, <3>6 DEF WireFits, AnswersFit, Received, Calm
    <3> QED BY <2>1, <3>0, <3>4, <3>5, <3>6 DEF ServerTakes
  <2>2. CASE ServerEmits
    <3> DEFINE n  == serverEvents + 1
               id == IF n % 2 = 0 THEN n ELSE NoId
    <3>1. n \in Nat /\ id \in Int BY <1>1 DEF TypeOK, WireTypeOK, NoId
    <3>2. Reply(<<EventPacket(id, n)>>) /\ received' = received BY <2>2 DEF ServerEmits
    <3> HIDE DEF id
    <3>3. EventPacket(id, n) \in Packet /\ EventPacket(id, n).type # "ACK"
      BY <3>1, EventPacketType DEF EventPacket, PacketOf
    <3>4. \A m : Received(m) => Received(m)' BY <3>2 DEF Received
    <3>5. AnswersFit(acks, ids) /\ UNCHANGED <<acks, ids>> BY <1>1, <1>3 DEF WireFits, Calm
    <3> QED BY <1>1, <3>2, <3>3, <3>4, <3>5, AnswersAppend
  <2>3. CASE ServerDisconnects
    <3>1. Reply(<<Control("DISCONNECT")>>) /\ received' = received
      BY <2>3 DEF ServerDisconnects
    <3>2. Control("DISCONNECT") \in Packet /\ Control("DISCONNECT").type # "ACK"
      BY ControlType DEF Control, PacketOf
    <3>3. \A m : Received(m) => Received(m)' BY <3>1 DEF Received
    <3>4. AnswersFit(acks, ids) /\ UNCHANGED <<acks, ids>> BY <1>1, <1>3 DEF WireFits, Calm
    <3> QED BY <1>1, <3>1, <3>2, <3>3, <3>4, AnswersAppend
  <2> QED BY <2>1, <2>2, <2>3 DEF Server
<1> QED BY <1>1, <1>3, <1>4, <1>5 DEF WireFits, BufferFits, Calm, SuccessFits, IdsFit

(* Connections and packets that do not answer an emission.                  *)
LEMMA UserWire ==
  ASSUME WireInv, Connect \/ Disconnect \/ (\E n \in toAck : UserAcks(n))
  PROVE  WireFits(acks, ids)' /\ SuccessFits'
<1>1. TypeOK /\ IdsFit(out, acks, ids)
  BY DEF WireInv, QueueInv, CallbackInv, WireFits
<1>2. Calm /\ received' = received /\ Part(sendBuffer', sendBuffer)
  BY PartFacts DEF Connect, Disconnect, UserAcks, Calm, ackVars, userVars, socketVars, serverVars
<1>3. ASSUME NEW type \in {"CONNECT", "DISCONNECT"}, Write(<<Control(type)>>)
      PROVE  IdsFit(out', acks, ids)
  <2>1. Control(type) \in Packet /\ Control(type).type # "EVENT"
    BY ControlType DEF Control, PacketOf
  <2> QED BY <1>1, <1>3, <2>1, ControlIds, WriteIds
<1>4. IdsFit(<<>>, acks, ids) BY PartFacts, <1>1, PartIds
<1>5. CASE Connect
  <2>1. IdsFit(out', acks, ids) BY <1>1, <1>3, <1>4, <1>5 DEF Connect, NewEngine
  <2>2. Part(inb', inb) BY <1>5, PartFacts DEF Connect, NewEngine
  <2> QED BY <1>2, <2>1, <2>2, CalmWire
<1>6. CASE Disconnect
  <2>1. IdsFit(out', acks, ids) BY <1>1, <1>3, <1>6 DEF Disconnect
  <2>2. Part(inb', inb) BY <1>6, PartFacts DEF Disconnect, Destroy
  <2> QED BY <1>2, <2>1, <2>2, CalmWire
<1>7. ASSUME NEW n \in toAck, UserAcks(n) PROVE IdsFit(out', acks, ids) /\ Part(inb', inb)
  <2>1. n \in Int BY <1>1 DEF TypeOK, HistoryTypeOK
  <2>2. AckPacket(n, 0) \in Packet /\ AckPacket(n, 0).type # "EVENT"
    BY <2>1, AckPacketType DEF AckPacket, PacketOf
  <2>3. Write(<<AckPacket(n, 0)>>) BY <1>7 DEF UserAcks
  <2>4. IdsFit(out', acks, ids) BY <1>1, <2>2, <2>3, ControlIds, WriteIds
  <2> QED BY <1>7, <2>4, PartFacts DEF UserAcks, serverVars
<1> QED BY <1>2, <1>5, <1>6, <1>7, CalmWire

LEMMA IoWire == ASSUME WireInv, Io PROVE WireFits(acks, ids)' /\ SuccessFits'
<1>1. TypeOK /\ IdsFit(out, acks, ids)
  BY DEF WireInv, QueueInv, CallbackInv, WireFits
<1>2. Calm /\ received' = received /\ Part(sendBuffer', sendBuffer)
  BY PartFacts
     DEF Io, EngineOpens, EngineFails, EngineStalls, EngineLost, ManagerReconnects, CloseReturns,
         Calm, ackVars, userVars, socketVars, serverVars
<1>3. Part(inb', inb)
  BY PartFacts
     DEF Io, EngineOpens, EngineFails, EngineStalls, EngineLost, ManagerReconnects, CloseReturns,
         NewEngine, serverVars
<1>4. IdsFit(<<>>, acks, ids) BY PartFacts, <1>1, PartIds
<1>5. IdsFit(out', acks, ids)
  <2>1. CASE EngineOpens
    <3>1. Control("CONNECT") \in Packet /\ Control("CONNECT").type # "EVENT"
      BY ControlType DEF Control, PacketOf
    <3>2. Write(<<Control("CONNECT")>>) \/ UNCHANGED out BY <2>1 DEF EngineOpens
    <3> QED BY <1>1, <3>1, <3>2, ControlIds, WriteIds
  <2>2. CASE EngineFails \/ EngineStalls BY <1>1, <2>2 DEF EngineFails, EngineStalls
  <2>3. CASE EngineLost \/ ManagerReconnects
    BY <1>4, <2>3 DEF EngineLost, ManagerReconnects, NewEngine
  <2>4. ASSUME NEW i \in DOMAIN suspended, CloseReturns(i) PROVE IdsFit(out', acks, ids)
    BY <1>1, <1>4, <2>4 DEF CloseReturns
  <2> QED BY <2>1, <2>2, <2>3, <2>4 DEF Io
<1> QED BY <1>2, <1>3, <1>5, CalmWire

LEMMA PacketWire ==
  ASSUME WireInv, OnConnect \/ OnEvent \/ OnDisconnect \/ OnConnectError \/ Unheard
  PROVE  WireFits(acks, ids)' /\ SuccessFits'
<1>1. TypeOK /\ IdsFit(out, acks, ids) /\ inb \in Seq(Packet)
  BY DEF WireInv, QueueInv, CallbackInv, WireFits, TypeOK, WireTypeOK
<1>2. Calm /\ received' = received
  BY DEF OnConnect, OnEvent, OnDisconnect, OnConnectError, OnRefused, Unheard,
         Calm, ackVars, userVars, socketVars, serverVars
<1>3. inb # <<>> => Part(Tail(inb), inb) BY <1>1, TailPart
<1>4. CASE OnConnect
  <2>1. Part(inb', inb) BY <1>3, <1>4 DEF OnConnect, Arrives, Consume
  <2>2. IdsFit(out', acks, ids) /\ Part(sendBuffer', sendBuffer)
    BY <1>1, <1>4, FlushIds, PartFacts DEF OnConnect
  <2> QED BY <1>2, <2>1, <2>2, CalmWire
<1>5. CASE OnEvent
  BY <1>1, <1>2, <1>3, <1>5, CalmWire, PartFacts DEF OnEvent, Arrives, Consume
<1>6. ASSUME NEW type, NEW caller, NEW n, OnRefused(type, caller, n)
      PROVE  WireFits(acks, ids)' /\ SuccessFits'
  <2>1. Part(inb', inb)
    <3>1. CASE Destroy(TRUE, TRUE, caller, n) BY <3>1, PartFacts DEF Destroy
    <3>2. CASE Consume BY <1>3, <1>6, <3>2 DEF OnRefused, Arrives, Consume
    <3> QED BY <1>6, <3>1, <3>2 DEF OnRefused
  <2>2. UNCHANGED <<out, sendBuffer>> BY <1>6 DEF OnRefused
  <2> QED BY <1>1, <1>2, <2>1, <2>2, CalmWire, PartFacts
<1>7. CASE Unheard
  BY <1>1, <1>2, <1>3, <1>7, CalmWire, PartFacts DEF Unheard, Consume, socketVars
<1> QED BY <1>4, <1>5, <1>6, <1>7 DEF OnDisconnect, OnConnectError

LEMMA WireKept == ASSUME WireInv, [Next]_vars PROVE WireInv'
<1>1. QueueInv' BY QueueKept DEF WireInv
<1>2. WireFits(acks, ids)' /\ SuccessFits'
  <2>1. CASE UNCHANGED vars
    <3>1. Calm /\ UNCHANGED <<received, out, sendBuffer, inb>>
      BY <2>1 DEF vars, socketVars, ackVars, serverVars, userVars, Calm
    <3>2. IdsFit(out', acks, ids) BY <3>1 DEF WireInv, WireFits
    <3> QED BY <3>1, <3>2, CalmWire, PartFacts
  <2>2. CASE Emit
    <3>1. UNCHANGED <<outcomes, received>>
      BY <2>2 DEF Emit, EmitDirect, EmitQueued, NextMessage, serverVars
    <3> QED BY <2>2, <3>1, EmitWire DEF WireInv, SuccessFits, Received
  <2>3. CASE User BY <2>2, <2>3, UserWire DEF User
  <2>4. CASE Returns BY <2>4, ReturnsWire
  <2>5. CASE Timers BY <2>5, TimerWire DEF Timers
  <2>6. CASE Io BY <2>6, IoWire
  <2>7. CASE OnPacket BY <2>7, OnAckWire, PacketWire DEF OnPacket
  <2>8. CASE Server BY <2>8, ServerWire
  <2> QED BY <2>1, <2>3, <2>4, <2>5, <2>6, <2>7, <2>8 DEF Next
<1> QED BY <1>1, <1>2 DEF WireInv

LEMMA InitWire == Init => WireInv
<1> SUFFICES ASSUME Init PROVE WireInv OBVIOUS
<1>1. QueueInv BY InitQueue
<1>2. Len(out) = 0 /\ Len(sendBuffer) = 0 /\ Len(inb) = 0
      /\ \A m \in Messages : Len(outcomes[m]) = 0
  BY DEF Init
<1>3. WireFits(acks, ids) BY <1>2 DEF WireFits, IdsFit, AnswersFit, BufferFits
<1>4. SuccessFits BY <1>2 DEF SuccessFits, Success
<1> QED BY <1>1, <1>3, <1>4 DEF WireInv

LEMMA WireInvariant == Spec => []WireInv
BY InitWire, WireKept, PTL DEF Spec

(* A callback that reports success belongs to a message that the server has *)
(* received (onack, _addToQueue), however many tries, timers, engines and   *)
(* late answers there were: ids are not used twice and handlers not moved.  *)
THEOREM SuccessCorrect == Spec => []SuccessMeansReceived
<1>1. ASSUME WireInv PROVE SuccessMeansReceived
  <2>1. received \in Seq(Nat) /\ outcomes \in [Messages -> Seq({"ok", "err"})]
    BY <1>1 DEF WireInv, QueueInv, CallbackInv, TypeOK, WireTypeOK, HistoryTypeOK
  <2>2. DOMAIN received = 1 .. Len(received) BY <2>1, LenProperties
  <2>3. \A m \in Messages : DOMAIN outcomes[m] = 1 .. Len(outcomes[m]) BY <2>1, LenProperties
  <2> QED BY <1>1, <2>2, <2>3 DEF WireInv, SuccessFits, Success, Received, SuccessMeansReceived
<1> QED BY <1>1, WireInvariant, PTL

(***************************************************************************)
(* The queue loses nothing silently                                         *)
(***************************************************************************)
Holds(q, m) == \E j \in 1 .. Len(q) : q[j].m = m

(* What becomes of the entries of the queue when r takes its place.         *)
Accounted(r) ==
  \A i \in 1 .. Len(queue) :
     Holds(r, queue[i].m) \/ Received(queue[i].m) \/ queue[i].tryCount > Retries

(* Whatever replaces the head of q, the messages behind it stay.            *)
LEMMA HeldBehind ==
  ASSUME NEW q \in Seq(QueueEntry), NEW x \in QueueEntry, q # <<>>
  PROVE  /\ \A i \in 2 .. Len(q) : Holds(Tail(q), q[i].m)
         /\ \A i \in 2 .. Len(q) : Holds(<<x>> \o Tail(q), q[i].m)
         /\ Holds(<<x>> \o Tail(q), x.m)
<1> DEFINE r == <<x>> \o Tail(q)
<1>1. /\ Len(q) \in Nat \ {0} /\ Len(Tail(q)) = Len(q) - 1
      /\ \A i \in 1 .. Len(q) - 1 : Tail(q)[i] = q[i + 1]
  BY QueueFacts
<1>2. Len(r) = Len(q) /\ r[1] = x /\ \A i \in 2 .. Len(q) : r[i] = q[i]
  BY HeadTailFacts
<1> HIDE DEF r
<1>3. ASSUME NEW i \in 2 .. Len(q) PROVE Holds(Tail(q), q[i].m)
  <2>1. i - 1 \in 1 .. Len(q) - 1 /\ (i - 1) + 1 = i BY <1>1
  <2>2. Tail(q)[i - 1] = q[i] BY <1>1, <2>1
  <2> QED BY <1>1, <2>1, <2>2 DEF Holds
<1>4. \A i \in 2 .. Len(q) : Holds(r, q[i].m) BY <1>1, <1>2 DEF Holds
<1>5. Holds(r, x.m) BY <1>1, <1>2 DEF Holds
<1> QED BY <1>3, <1>4, <1>5 DEF r

(* _drainQueue keeps every message.                                         *)
LEMMA DrainHolds ==
  ASSUME NEW q \in Seq(QueueEntry), NEW a, NEW t, NEW force, DrainQueue(q, a, t, force),
         NEW m, Holds(q, m)
  PROVE  Holds(queue', m)
<1>1. CASE SendsHead(q, force)
  <2> DEFINE x == Tried(Head(q))
  <2>1. q # <<>> /\ queue' = <<x>> \o Tail(q) BY <1>1 DEF SendsHead, DrainQueue
  <2>2. Head(q) \in QueueEntry /\ Head(q) = q[1] /\ Len(q) \in Nat BY <2>1, QueueFacts
  <2>3. x \in QueueEntry /\ x.m = q[1].m BY <2>2, TriedType
  <2> HIDE DEF x
  <2>4. PICK i \in 1 .. Len(q) : q[i].m = m BY DEF Holds
  <2>5. Holds(<<x>> \o Tail(q), m)
    <3>1. CASE i = 1 BY <2>1, <2>3, <2>4, <3>1, HeldBehind
    <3>2. CASE i \in 2 .. Len(q) BY <2>1, <2>3, <2>4, <3>2, HeldBehind
    <3> QED BY <2>2, <3>1, <3>2
  <2> QED BY <2>1, <2>5
<1>2. CASE ~SendsHead(q, force)
  <2>1. queue' = q BY <1>2 DEF DrainQueue
  <2> QED BY <2>1
<1> QED BY <1>1, <1>2

(* The queue's callback drops the head only when it is settled.             *)
LEMMA CallbackAccounted ==
  ASSUME TypeOK, NEW m, NEW err \in BOOLEAN, IsHead(m), err \/ Received(m)
  PROVE  Accounted(AfterCallback(m, err))
<1> DEFINE x == [Head(queue) EXCEPT !.pending = FALSE]
<1>1. queue \in Seq(QueueEntry) /\ queue # <<>> BY DEF IsHead, TypeOK, QueueTypeOK
<1>2. /\ Head(queue) \in QueueEntry /\ Head(queue) = queue[1] /\ Len(queue) \in Nat
      /\ Head(queue).m = m
  BY <1>1, QueueFacts DEF IsHead
<1>3. x \in QueueEntry /\ x.m = m BY <1>2 DEF QueueEntry
<1>4. AfterCallback(m, err) =
        IF Settles(m, err) THEN Tail(queue) ELSE <<x>> \o Tail(queue)
  BY DEF AfterCallback
<1> HIDE DEF x
<1>5. ASSUME NEW i \in 1 .. Len(queue)
      PROVE  \/ Holds(AfterCallback(m, err), queue[i].m)
             \/ Received(queue[i].m)
             \/ queue[i].tryCount > Retries
  <2>1. CASE i \in 2 .. Len(queue) BY <1>1, <1>3, <1>4, <2>1, HeldBehind
  <2>2. CASE i = 1 /\ Settles(m, err) BY <1>2, <2>2 DEF Settles
  <2>3. CASE i = 1 /\ ~Settles(m, err) BY <1>1, <1>2, <1>3, <1>4, <2>3, HeldBehind
  <2> QED BY <1>2, <2>1, <2>2, <2>3
<1> QED BY <1>5 DEF Accounted

LEMMA CallbackLoss ==
  ASSUME TypeOK, NEW m, NEW err \in BOOLEAN, NEW a, NEW t, QueueCallback(m, err, a, t),
         err \/ Received(m)
  PROVE  Accounted(queue')
<1>1. CASE IsHead(m)
  <2> DEFINE r == AfterCallback(m, err)
  <2>1. r \in Seq(QueueEntry) /\ Accounted(r) BY <1>1, AfterCallbackType, CallbackAccounted
  <2>2. DrainQueue(r, a, t, FALSE) BY <1>1 DEF QueueCallback
  <2> HIDE DEF r
  <2>3. \A k : Holds(r, k) => Holds(queue', k) BY <2>1, <2>2, DrainHolds
  <2> QED BY <2>1, <2>3 DEF Accounted
<1>2. CASE ~IsHead(m)
  <2>1. queue' = queue BY <1>2 DEF QueueCallback
  <2> QED BY <2>1 DEF Accounted, Holds
<1> QED BY <1>1, <1>2

LEMMA QueueLoss == ASSUME WireInv, [Next]_vars PROVE Accounted(queue')
<1>1. /\ TypeOK /\ WireFits(acks, ids) /\ queue \in Seq(QueueEntry)
      /\ acks \subseteq Handler /\ timers \subseteq acks
  BY DEF WireInv, QueueInv, CallbackInv, TypeOK, QueueTypeOK, HandlersOK
<1>2. Accounted(queue) BY DEF Accounted, Holds
<1>3. ASSUME NEW r, \A k : Holds(queue, k) => Holds(r, k) PROVE Accounted(r)
  BY <1>2, <1>3 DEF Accounted
<1>4. CASE Idle BY <1>2, <1>4 DEF Idle
<1>5. CASE Emit
  <2>1. PICK mods \in SUBSET Modifiers, kind \in AckKinds :
          EmitDirect(mods, kind) \/ EmitQueued(mods, kind)
    BY <1>5 DEF Emit
  <2>2. CASE EmitDirect(mods, kind) BY <1>2, <2>2 DEF EmitDirect
  <2>3. CASE EmitQueued(mods, kind)
    <3> DEFINE x == NewEntry(flags \cup mods, kind)
               q == Append(queue, x)
    <3>1. x \in QueueEntry
      <4>1. emitted + 1 \in Messages
        BY <1>1, <2>3, BoundsAssumption
           DEF EmitQueued, NextMessage, Messages, TypeOK, HistoryTypeOK
      <4> QED BY <4>1 DEF NewEntry, QueueEntry
    <3>2. DrainQueue(q, acks, timers, FALSE) \/ queue' = q BY <2>3 DEF EmitQueued
    <3> HIDE DEF x
    <3>3. /\ q \in Seq(QueueEntry) /\ Len(q) = Len(queue) + 1 /\ Len(queue) \in Nat
          /\ \A i \in 1 .. Len(queue) : q[i] = queue[i]
      BY <1>1, <3>1, AppendProperties, LenProperties
    <3> HIDE DEF q
    <3>4. \A k : Holds(queue, k) => Holds(q, k) BY <3>3 DEF Holds
    <3>5. \A k : Holds(queue, k) => Holds(queue', k) BY <3>2, <3>3, <3>4, DrainHolds
    <3> QED BY <1>3, <3>5
  <2> QED BY <2>1, <2>2, <2>3
<1>6. ASSUME NEW h \in timers, TimerFires(h) PROVE Accounted(queue')
  <2>1. CASE h.queued
    <3>1. QueueCallback(h.m, TRUE, Without(h), timers \ {h}) BY <1>6, <2>1 DEF TimerFires
    <3> QED BY <1>1, <3>1, CallbackLoss
  <2>2. CASE ~h.queued BY <1>2, <1>6, <2>2 DEF TimerFires
  <2> QED BY <2>1, <2>2
<1>7. CASE OnAck
  <2>1. inb \in Seq(Packet) /\ inb # <<>> /\ Head(inb).type = "ACK"
    BY <1>1, <1>7 DEF OnAck, Arrives, TypeOK, WireTypeOK
  <2>2. \E j \in 1 .. Len(inb) : Head(inb) = inb[j] BY <2>1, TailPart
  <2>3. \A h \in acks : h.id = Head(inb).id => Received(h.m)
    BY <1>1, <2>1, <2>2 DEF WireFits, AnswersFit
  <2>4. ASSUME NEW h \in acks, h.id = Head(inb).id,
               IF h.queued THEN QueueCallback(h.m, TakenForError(Head(inb)), acks \ {h}, timers)
                           ELSE UNCHANGED queue
        PROVE  Accounted(queue')
    <3>1. CASE h.queued
      <4>1. PICK err \in BOOLEAN : QueueCallback(h.m, err, acks \ {h}, timers)
        BY <2>4, <3>1, AckedCallback, Zenon
      <4> QED BY <1>1, <2>3, <2>4, <4>1, CallbackLoss
    <3>2. CASE ~h.queued BY <1>2, <2>4, <3>2
    <3> QED BY <3>1, <3>2
  <2>5. CASE UNCHANGED queue BY <1>2, <2>5
  <2> QED BY <1>7, <2>4, <2>5 DEF OnAck
<1>8. CASE ConnectReturns
  <2>1. DrainQueue(queue, acks, timers, TRUE) BY <1>8 DEF ConnectReturns
  <2>2. \A k : Holds(queue, k) => Holds(queue', k) BY <1>1, <2>1, DrainHolds
  <2> QED BY <1>3, <2>2
<1>9. CASE DisconnectReturns
  <2>1. CASE HeadFails
    <3>1. IsHead(Head(queue).m) BY <2>1 DEF HeadFails, IsHead
    <3>2. queue' = AfterCallback(Head(queue).m, TRUE) BY <1>9, <2>1 DEF DisconnectReturns
    <3> QED BY <1>1, <3>1, <3>2, CallbackAccounted
  <2>2. CASE ~HeadFails BY <1>2, <1>9, <2>2 DEF DisconnectReturns
  <2> QED BY <2>1, <2>2
<1> QED BY <1>1, <1>4, <1>5, <1>6, <1>7, <1>8, <1>9, QueueMoves DEF Timers

(* A message leaves the retry queue only when the server has received it or *)
(* its tries are used up (_addToQueue's callback): an answer, a timer or a  *)
(* disconnection never discards a message other than the one it is about.   *)
THEOREM NoSilentLossCorrect == Spec => NoSilentLoss
<1> DEFINE Step == \A i \in DOMAIN queue :
                      \/ Queued(queue', queue[i].m)
                      \/ \E j \in DOMAIN received : received[j] = queue[i].m
                      \/ queue[i].tryCount > Retries
<1>1. ASSUME WireInv, WireInv', [Next]_vars PROVE Step
  <2>1. queue \in Seq(QueueEntry) /\ received \in Seq(Nat)
    BY <1>1 DEF WireInv, QueueInv, CallbackInv, TypeOK, QueueTypeOK, WireTypeOK
  <2>2. queue' \in Seq(QueueEntry)
    BY <1>1 DEF WireInv, QueueInv, CallbackInv, TypeOK, QueueTypeOK
  <2>3. /\ DOMAIN queue = 1 .. Len(queue) /\ DOMAIN received = 1 .. Len(received)
    BY <2>1, LenProperties
  <2>4. DOMAIN queue' = 1 .. Len(queue') BY <2>2, LenProperties
  <2>5. Accounted(queue') BY <1>1, QueueLoss
  <2> QED BY <2>3, <2>4, <2>5 DEF Accounted, Holds, Received, Queued
<1>2. Spec => [][Step]_vars BY <1>1, WireInvariant, PTL DEF Spec
<1> QED BY <1>2 DEF NoSilentLoss
=============================================================================
