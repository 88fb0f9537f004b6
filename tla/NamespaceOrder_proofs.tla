------------------------- MODULE NamespaceOrder_proofs -------------------------
(***************************************************************************)
(* Proofs about the order and the number of messages in NamespaceSocket:    *)
(* nothing is stranded in the buffers or lost from them, events reach the   *)
(* user and messages reach the server in order, and without retries at most *)
(* once.  The invariants of NamespaceQueue_proofs are the ground.           *)
(***************************************************************************)
EXTENDS NamespaceQueue_proofs, FiniteSetTheorems

(***************************************************************************)
(* The buffers of a connected socket                                        *)
(***************************************************************************)
Replaying == Len(stack) > 0 /\ stack[1] = "replay"

(* A connected socket has empty buffers, unless it is still replaying.      *)
Stranded == connected /\ ~Replaying => Len(sendBuffer) = 0 /\ Len(receiveBuffer) = 0

(* While a handler of a connected socket runs, nobody closes the engine but *)
(* the user, who closes the subscription first.                             *)
OpenFits == connected /\ subs /\ Len(stack) > 0 => eng = "open"

BufferInv == WireInv /\ Stranded /\ OpenFits

LEMMA ReplayFacts ==
  ASSUME TypeOK, StackFits
  PROVE  InReplay <=> Replaying
<1>1. DOMAIN stack = 1 .. Len(stack) /\ Len(stack) \in Nat
  BY LenProperties DEF TypeOK, SocketTypeOK
<1> QED BY <1>1 DEF InReplay, Replaying, StackFits

LEMMA EmptyLen ==
  ASSUME NEW S, NEW s \in Seq(S)
  PROVE  Len(s) \in Nat /\ (s = <<>> <=> Len(s) = 0)
BY EmptySeq, LenProperties

(* A step that leaves the handlers and the connection alone adds nothing to *)
(* the buffers of a socket that is connected and not replaying.             *)
LEMMA BuffersStay ==
  ASSUME TypeOK, [Next]_vars, UNCHANGED <<connected, stack>>, connected,
         Len(sendBuffer) = 0, Len(receiveBuffer) = 0
  PROVE  Len(sendBuffer') = 0 /\ Len(receiveBuffer') = 0
<1> USE DEF socketVars
<1>0. sendBuffer \in Seq(Packet) /\ sendBuffer = <<>> /\ receiveBuffer \in Seq(Packet)
      /\ receiveBuffer = <<>> /\ stack \in Seq(Frames)
  BY EmptyLen DEF TypeOK, SocketTypeOK
<1>1. CASE UNCHANGED vars BY <1>1 DEF vars
<1>2. CASE User
  BY <1>2 DEF User, Emit, EmitDirect, EmitQueued, Route, Connect, Disconnect, UserAcks
<1>3. CASE Returns
  <2>1. CASE ReplayReturns
    BY <1>0, <2>1 DEF ReplayReturns, FlushSendBuffer, EmptyReceiveBuffer
  <2>2. CASE ConnectReturns \/ DisconnectReturns
    BY <2>2 DEF ConnectReturns, DisconnectReturns
  <2> QED BY <1>3, <2>1, <2>2 DEF Returns
<1>4. ASSUME NEW h \in timers, TimerFires(h) PROVE Len(sendBuffer') = 0 /\ Len(receiveBuffer') = 0
  <2>1. DOMAIN sendBuffer = {} BY <1>0, LenProperties
  <2>2. Unbuffer(h.id) = sendBuffer BY <2>1 DEF Unbuffer
  <2> QED BY <1>4, <2>2 DEF TimerFires
<1>5. CASE Io
  BY <1>5 DEF Io, EngineOpens, EngineFails, EngineStalls, EngineLost, ManagerReconnects,
              CloseReturns
<1>6. CASE OnPacket
  <2>1. ~OnConnect
    <3>1. OnConnect => stack = <<>> /\ stack' \in {<<"connect">>, <<"replay">>}
      BY DEF OnConnect, Arrives
    <3> QED BY <3>1
  <2> QED BY <1>6, <2>1
          DEF OnPacket, OnEvent, OnAck, OnDisconnect, OnConnectError, OnRefused, Unheard
<1>7. CASE Server BY <1>7 DEF Server, ServerTakes, ServerEmits, ServerDisconnects
<1> QED BY <1>1, <1>2, <1>3, <1>4, <1>5, <1>6, <1>7 DEF Next, Timers

(* The steps that call onclose leave the buffers alone.                     *)
LEMMA OnCloseMoves ==
  ASSUME TypeOK, [Next]_vars
  PROVE  \/ UNCHANGED <<connected, stack>>
         \/ (\E n \in Nat : OnClose(n)) /\ UNCHANGED <<sendBuffer, receiveBuffer>>
         \/ OnConnect /\ Joined
         \/ (ConnectReturns \/ DisconnectReturns) /\ Returned
         \/ ReplayReturns /\ Replayed
<1>1. CASE OnConnect /\ Joined BY <1>1
<1>2. CASE (ConnectReturns \/ DisconnectReturns) /\ Returned BY <1>2
<1>3. CASE ReplayReturns /\ Replayed BY <1>3
<1>4. CASE (\E n \in Nat : OnClose(n)) /\ ~(OnConnect /\ Joined)
           /\ ~((ConnectReturns \/ DisconnectReturns) /\ Returned)
           /\ ~(ReplayReturns /\ Replayed)
  <2>1. CASE UNCHANGED vars BY <2>1 DEF vars, socketVars
  <2>2. CASE Emit BY <2>2 DEF Emit, EmitDirect, EmitQueued, NextMessage
  <2>3. CASE User /\ ~Emit
    BY <1>4, <2>3 DEF User, Connect, Disconnect, UserAcks, socketVars
  <2>4. CASE Returns
    <3>1. CASE ReplayReturns BY <1>4, <3>1 DEF ReplayReturns, Replayed
    <3>2. CASE ConnectReturns BY <1>4, <3>2 DEF ConnectReturns, Returned
    <3>3. CASE DisconnectReturns BY <1>4, <3>3 DEF DisconnectReturns, Returned
    <3> QED BY <2>4, <3>1, <3>2, <3>3 DEF Returns
  <2>5. CASE Timers BY <2>5 DEF Timers, TimerFires
  <2>6. CASE Io
    BY <1>4, <2>6 DEF Io, EngineOpens, EngineFails, EngineStalls, EngineLost, ManagerReconnects,
                      CloseReturns, socketVars
  <2>7. CASE OnPacket
    <3>1. CASE OnConnect BY <1>4, <3>1 DEF OnConnect, Arrives, Joined
    <3>2. CASE OnEvent \/ OnAck \/ Unheard BY <3>2 DEF OnEvent, OnAck, Unheard, socketVars
    <3>3. CASE OnDisconnect \/ OnConnectError
      BY <1>4, <3>3 DEF OnDisconnect, OnConnectError, OnRefused
    <3> QED BY <2>7, <3>1, <3>2, <3>3 DEF OnPacket
  <2>8. CASE Server
    BY <2>8 DEF Server, ServerTakes, ServerEmits, ServerDisconnects, socketVars
  <2> QED BY <2>1, <2>2, <2>3, <2>4, <2>5, <2>6, <2>7, <2>8 DEF Next
<1> QED BY <1>1, <1>2, <1>3, <1>4, StackMoves

LEMMA StrandedKept ==
  ASSUME TypeOK, StackFits, Stranded, [Next]_vars
  PROVE  Stranded'
<1>0. Len(stack) \in Nat BY LenProperties DEF TypeOK, SocketTypeOK
<1>1. CASE UNCHANGED <<connected, stack>>
  BY <1>1, BuffersStay DEF Stranded, Replaying
<1>2. ASSUME NEW n \in Nat, OnClose(n), UNCHANGED <<sendBuffer, receiveBuffer>>
      PROVE  Stranded'
  <2>1. /\ Len(stack') = Len(stack) + n
        /\ \A i \in 1 .. Len(stack) : stack'[i] = stack[i]
        /\ connected' = (connected /\ n = 0)
    BY <1>2, OnCloseFacts
  <2>2. connected' => connected /\ n = 0 BY <2>1, Zenon
  <2>3. ASSUME connected' PROVE connected /\ (Replaying => Replaying')
    <3>1. connected /\ Len(stack') = Len(stack) BY <1>0, <2>1, <2>2, <2>3
    <3>2. Len(stack) > 0 => 1 \in 1 .. Len(stack) BY <1>0
    <3> QED BY <2>1, <3>1, <3>2 DEF Replaying
  <2> QED BY <1>2, <2>3 DEF Stranded
<1>3. CASE OnConnect /\ Joined
  <2>1. CASE receiveBuffer = <<>>
    <3>1. sendBuffer' = <<>> /\ receiveBuffer' = <<>>
      BY <1>3, <2>1 DEF OnConnect, FlushSendBuffer
    <3> QED BY <3>1 DEF Stranded
  <2>2. CASE receiveBuffer # <<>>
    <3>1. stack' = <<"replay">> BY <1>3, <2>2 DEF OnConnect
    <3> QED BY <3>1 DEF Stranded, Replaying
  <2> QED BY <2>1, <2>2
<1>4. CASE (ConnectReturns \/ DisconnectReturns) /\ Returned
  <2>1. UNCHANGED <<connected, sendBuffer, receiveBuffer>>
    BY <1>4 DEF ConnectReturns, DisconnectReturns
  <2>2. connected => ~Replaying
    <3>1. Len(stack) > 0 /\ stack[Len(stack)] # "replay"
      BY <1>0, <1>4, BelowFacts DEF Returned
    <3> QED BY <3>1 DEF StackFits, Replaying
  <2> QED BY <2>1, <2>2 DEF Stranded
<1>5. CASE ReplayReturns
  <2>1. sendBuffer' = <<>> /\ receiveBuffer' = <<>>
    BY <1>5 DEF ReplayReturns, FlushSendBuffer, EmptyReceiveBuffer
  <2> QED BY <2>1 DEF Stranded
<1> QED BY <1>1, <1>2, <1>3, <1>4, <1>5, OnCloseMoves

LEMMA OpenKept ==
  ASSUME TypeOK, OpenFits, [Next]_vars
  PROVE  OpenFits'
<1>0. Len(stack) \in Nat /\ (stack = <<>> <=> Len(stack) = 0)
  BY EmptyLen DEF TypeOK, SocketTypeOK
<1>1. ASSUME UNCHANGED eng, connected' /\ subs' /\ Len(stack') > 0
                            => connected /\ subs /\ Len(stack) > 0
      PROVE  OpenFits'
  BY <1>1 DEF OpenFits
<1>2. ASSUME UNCHANGED <<connected, subs, stack, eng>> PROVE OpenFits'
  BY <1>2 DEF OpenFits
<1>3. ASSUME NEW n \in Nat, OnClose(n), Len(stack) = 0 PROVE ~(connected' /\ Len(stack') > 0)
  <2>1. Len(stack') = Len(stack) + n /\ connected' = (connected /\ n = 0)
    BY <1>3, OnCloseFacts
  <2>2. connected' => n = 0 BY <2>1, Zenon
  <2> QED BY <1>3, <2>1, <2>2
<1>4. CASE UNCHANGED vars BY <1>2, <1>4 DEF vars, socketVars, ioVars
<1>5. CASE Emit
  BY <1>2, <1>5 DEF Emit, EmitDirect, EmitQueued, NextMessage, ioVars
<1>6. CASE Connect
  <2>1. ~connected' BY <1>6 DEF Connect
  <2> QED BY <2>1 DEF OpenFits
<1>7. CASE Disconnect \/ OnDisconnect \/ OnConnectError
  <2>1. ~subs' BY <1>7 DEF Disconnect, OnDisconnect, OnConnectError, OnRefused, Destroy
  <2> QED BY <2>1 DEF OpenFits
<1>8. CASE \E n \in toAck : UserAcks(n) BY <1>2, <1>8 DEF UserAcks, socketVars, ioVars
<1>9. CASE Timers BY <1>2, <1>9 DEF Timers, TimerFires, ioVars
<1>10. CASE Returns
  <2>1. stack # <<>> /\ UNCHANGED <<connected, subs, eng>>
    BY <1>10 DEF Returns, ReplayReturns, ConnectReturns, DisconnectReturns, ioVars
  <2> QED BY <1>0, <1>1, <2>1
<1>11. CASE Io
  <2>1. CASE EngineLost
    <3>1. OnClose(IF subs THEN 1 ELSE 0) /\ Len(stack) = 0 BY <1>0, <2>1 DEF EngineLost
    <3>2. ~(connected' /\ Len(stack') > 0) BY <1>3, <3>1
    <3> QED BY <3>2 DEF OpenFits
  <2>2. ASSUME NEW i \in DOMAIN suspended, CloseReturns(i) PROVE OpenFits'
    <3>1. CloseFires(suspended[i]) \in Nat BY DEF CloseFires
    <3>2. OnClose(CloseFires(suspended[i])) /\ Len(stack) = 0 BY <1>0, <2>2 DEF CloseReturns
    <3>3. ~(connected' /\ Len(stack') > 0) BY <1>3, <3>1, <3>2
    <3> QED BY <3>3 DEF OpenFits
  <2>3. CASE EngineOpens \/ EngineFails \/ EngineStalls \/ ManagerReconnects
    <3>1. stack = <<>> /\ stack' = stack
      BY <2>3 DEF EngineOpens, EngineFails, EngineStalls, ManagerReconnects
    <3>2. ~(Len(stack') > 0) BY <1>0, <3>1
    <3> QED BY <3>2 DEF OpenFits
  <2> QED BY <1>11, <2>1, <2>2, <2>3 DEF Io
<1>12. CASE OnConnect
  <2>1. eng' = "open" BY <1>12 DEF OnConnect, Arrives, ioVars
  <2> QED BY <2>1 DEF OpenFits
<1>13. CASE OnEvent \/ OnAck \/ Unheard
  BY <1>2, <1>13 DEF OnEvent, OnAck, Unheard, socketVars, ioVars
<1>14. CASE Server
  BY <1>2, <1>14 DEF Server, ServerTakes, ServerEmits, ServerDisconnects, socketVars, ioVars
<1> QED BY <1>4, <1>5, <1>6, <1>7, <1>8, <1>9, <1>10, <1>11, <1>12, <1>13, <1>14
        DEF Next, User, OnPacket

LEMMA BufferKept == ASSUME BufferInv, [Next]_vars PROVE BufferInv'
<1>1. TypeOK /\ StackFits BY DEF BufferInv, WireInv, QueueInv, CallbackInv
<1> QED BY <1>1, WireKept, StrandedKept, OpenKept DEF BufferInv

LEMMA InitBuffer == Init => BufferInv
<1> SUFFICES ASSUME Init PROVE BufferInv OBVIOUS
<1>1. WireInv BY InitWire
<1>2. ~connected BY DEF Init
<1> QED BY <1>1, <1>2 DEF BufferInv, Stranded, OpenFits

LEMMA BufferInvariant == Spec => []BufferInv
BY InitBuffer, BufferKept, PTL DEF Spec

(* A connected socket strands nothing in its buffers (onconnect,            *)
(* emitBuffered, onevent): both are empty, unless the listeners of the      *)
(* buffered events are still running.                                       *)
THEOREM NothingStrandedCorrect == Spec => []NothingStranded
<1>1. ASSUME BufferInv PROVE NothingStranded
  <2>1. TypeOK /\ StackFits /\ Stranded
    BY <1>1 DEF BufferInv, WireInv, QueueInv, CallbackInv
  <2>2. sendBuffer \in Seq(Packet) /\ receiveBuffer \in Seq(Packet)
    BY <2>1 DEF TypeOK, SocketTypeOK
  <2> QED BY <2>1, <2>2, ReplayFacts, EmptyLen DEF Stranded, NothingStranded
<1> QED BY <1>1, BufferInvariant, PTL

(***************************************************************************)
(* Sequences of numbers in a relation                                       *)
(*                                                                          *)
(* A message is on its way in three sequences: what the receiver has, what  *)
(* is on the wire, what still waits.  All order properties say that earlier *)
(* numbers are related to later ones, in one sequence or in two.            *)
(***************************************************************************)
Sorted(R, s)    == \A i, j \in 1 .. Len(s) : i < j => <<s[i], s[j]>> \in R
Before(R, s, t) == \A i \in 1 .. Len(s) : \A j \in 1 .. Len(t) : <<s[i], t[j]>> \in R
Chain(R, r, o, b) ==
  /\ Sorted(R, r) /\ Sorted(R, o) /\ Sorted(R, b)
  /\ Before(R, r, o) /\ Before(R, r, b) /\ Before(R, o, b)

(* A number that may stand anywhere, as the 0 of control packets does.      *)
Free(R, x) == \A a \in Nat : <<a, x>> \in R /\ <<x, a>> \in R

(* A sequence of some elements of s, in their order.                        *)
Thin(r, s) ==
  /\ Part(r, s)
  /\ \A i, j \in 1 .. Len(r) : i < j =>
        \E k, l \in 1 .. Len(s) : k < l /\ r[i] = s[k] /\ r[j] = s[l]

LEMMA ThinKeeps ==
  ASSUME NEW R, NEW r, NEW s, NEW t, Thin(r, s)
  PROVE  /\ Sorted(R, s) => Sorted(R, r)
         /\ Before(R, s, t) => Before(R, r, t)
         /\ Before(R, t, s) => Before(R, t, r)
<1>1. ASSUME Sorted(R, s), NEW i \in 1 .. Len(r), NEW j \in 1 .. Len(r), i < j
      PROVE  <<r[i], r[j]>> \in R
  <2>1. PICK k \in 1 .. Len(s), l \in 1 .. Len(s) : k < l /\ r[i] = s[k] /\ r[j] = s[l]
    BY <1>1 DEF Thin
  <2> QED BY <1>1, <2>1 DEF Sorted
<1>2. ASSUME Before(R, s, t), NEW i \in 1 .. Len(r), NEW j \in 1 .. Len(t)
      PROVE  <<r[i], t[j]>> \in R
  <2>1. PICK k \in 1 .. Len(s) : r[i] = s[k] BY DEF Thin, Part
  <2> QED BY <1>2, <2>1 DEF Before
<1>3. ASSUME Before(R, t, s), NEW i \in 1 .. Len(t), NEW j \in 1 .. Len(r)
      PROVE  <<t[i], r[j]>> \in R
  <2>1. PICK k \in 1 .. Len(s) : r[j] = s[k] BY DEF Thin, Part
  <2> QED BY <1>3, <2>1 DEF Before
<1> QED BY <1>1, <1>2, <1>3 DEF Sorted, Before

LEMMA ThinEmpty ==
  ASSUME NEW s
  PROVE  Thin(<<>>, s) /\ Thin(s, s)
<1>1. Len(<<>>) = 0 BY EmptySeq
<1> QED BY <1>1 DEF Thin, Part

LEMMA ThinTail ==
  ASSUME NEW S, NEW s \in Seq(S), s # <<>>
  PROVE  Thin(Tail(s), s)
<1>1. Len(s) \in Nat /\ Len(Tail(s)) = Len(s) - 1
      /\ \A i \in 1 .. Len(Tail(s)) : Tail(s)[i] = s[i + 1]
  BY HeadTailProperties, LenProperties
<1>2. \A i, j \in 1 .. Len(Tail(s)) : i < j =>
        i + 1 \in 1 .. Len(s) /\ j + 1 \in 1 .. Len(s) /\ i + 1 < j + 1
  BY <1>1
<1> QED BY <1>1, <1>2, TailPart DEF Thin

LEMMA ThinRemove ==
  ASSUME NEW S, NEW s \in Seq(S), NEW k \in DOMAIN s
  PROVE  Thin(RemoveAt(s, k), s)
<1> DEFINE r == RemoveAt(s, k)
           f(i) == IF i < k THEN i ELSE i + 1
<1>1. /\ Len(r) = Len(s) - 1 /\ Len(s) \in Nat /\ k \in 1 .. Len(s)
      /\ \A i \in 1 .. Len(s) - 1 : r[i] = IF i < k THEN s[i] ELSE s[i + 1]
      /\ Part(r, s)
  BY RemovePart
<1> HIDE DEF r
<1>2. \A i \in 1 .. Len(r) : f(i) \in 1 .. Len(s) /\ r[i] = s[f(i)] BY <1>1
<1>3. \A i, j \in 1 .. Len(r) : i < j => f(i) < f(j) BY <1>1
<1> HIDE DEF f
<1>4. \A i, j \in 1 .. Len(r) : i < j =>
        \E p, q \in 1 .. Len(s) : p < q /\ r[i] = s[p] /\ r[j] = s[q]
  BY <1>2, <1>3
<1>5. Thin(r, s) BY <1>1, <1>4 DEF Thin
<1> QED BY <1>5 DEF r

LEMMA ThinChain ==
  ASSUME NEW R, NEW r, NEW o, NEW b, Chain(R, r, o, b),
         NEW u, NEW v, NEW w, Thin(u, r), Thin(v, o), Thin(w, b)
  PROVE  Chain(R, u, v, w)
<1>1. Sorted(R, u) /\ Before(R, u, o) /\ Before(R, u, b) BY ThinKeeps DEF Chain
<1>2. Sorted(R, v) /\ Before(R, u, v) /\ Before(R, v, b) BY <1>1, ThinKeeps DEF Chain
<1>3. Sorted(R, w) /\ Before(R, u, w) /\ Before(R, v, w) BY <1>1, <1>2, ThinKeeps DEF Chain
<1> QED BY <1>1, <1>2, <1>3 DEF Chain

LEMMA ConcatElements ==
  ASSUME NEW S, NEW s \in Seq(S), NEW t \in Seq(S)
  PROVE  /\ Len(s) \in Nat /\ Len(t) \in Nat /\ s \o t \in Seq(S)
         /\ Len(s \o t) = Len(s) + Len(t)
         /\ \A i \in 1 .. Len(s) + Len(t) :
               \/ i \in 1 .. Len(s) /\ (s \o t)[i] = s[i]
               \/ i - Len(s) \in 1 .. Len(t) /\ (s \o t)[i] = t[i - Len(s)]
<1>1. Len(s) \in Nat /\ Len(t) \in Nat BY LenProperties
<1>2. /\ s \o t \in Seq(S) /\ Len(s \o t) = Len(s) + Len(t)
      /\ \A i \in 1 .. Len(s) + Len(t) :
           (s \o t)[i] = IF i <= Len(s) THEN s[i] ELSE t[i - Len(s)]
  BY ConcatProperties
<1> QED BY <1>1, <1>2

LEMMA BeforeConcat ==
  ASSUME NEW R, NEW S, NEW s \in Seq(S), NEW t \in Seq(S), NEW u
  PROVE  /\ Before(R, s, u) /\ Before(R, t, u) => Before(R, s \o t, u)
         /\ Before(R, u, s) /\ Before(R, u, t) => Before(R, u, s \o t)
<1> DEFINE c == s \o t
<1>1. /\ Len(c) = Len(s) + Len(t)
      /\ \A i \in 1 .. Len(s) + Len(t) :
            \/ i \in 1 .. Len(s) /\ c[i] = s[i]
            \/ i - Len(s) \in 1 .. Len(t) /\ c[i] = t[i - Len(s)]
  BY ConcatElements
<1> HIDE DEF c
<1>2. Before(R, s, u) /\ Before(R, t, u) => Before(R, c, u) BY <1>1 DEF Before
<1>3. Before(R, u, s) /\ Before(R, u, t) => Before(R, u, c) BY <1>1 DEF Before
<1> QED BY <1>2, <1>3 DEF c

LEMMA SortedConcat ==
  ASSUME NEW R, NEW S, NEW s \in Seq(S), NEW t \in Seq(S),
         Sorted(R, s), Sorted(R, t), Before(R, s, t)
  PROVE  Sorted(R, s \o t)
<1> DEFINE c == s \o t
<1>1. /\ Len(c) = Len(s) + Len(t) /\ Len(s) \in Nat /\ Len(t) \in Nat
      /\ \A i \in 1 .. Len(s) + Len(t) :
            c[i] = IF i <= Len(s) THEN s[i] ELSE t[i - Len(s)]
  BY ConcatProperties, LenProperties
<1> HIDE DEF c
<1>2. ASSUME NEW i \in 1 .. Len(c), NEW j \in 1 .. Len(c), i < j
      PROVE  <<c[i], c[j]>> \in R
  <2>1. CASE j <= Len(s)
    <3>1. i \in 1 .. Len(s) /\ j \in 1 .. Len(s) /\ c[i] = s[i] /\ c[j] = s[j]
      BY <1>1, <1>2, <2>1
    <3> QED BY <1>2, <3>1 DEF Sorted
  <2>2. CASE i <= Len(s) /\ j > Len(s)
    <3>1. i \in 1 .. Len(s) /\ j - Len(s) \in 1 .. Len(t) /\ c[i] = s[i] /\ c[j] = t[j - Len(s)]
      BY <1>1, <1>2, <2>2
    <3> QED BY <3>1 DEF Before
  <2>3. CASE i > Len(s)
    <3>1. /\ i - Len(s) \in 1 .. Len(t) /\ j - Len(s) \in 1 .. Len(t)
          /\ i - Len(s) < j - Len(s) /\ c[i] = t[i - Len(s)] /\ c[j] = t[j - Len(s)]
      BY <1>1, <1>2, <2>3
    <3> QED BY <3>1 DEF Sorted
  <2> QED BY <1>1, <1>2, <2>1, <2>2, <2>3
<1>3. Sorted(R, c) BY <1>2 DEF Sorted
<1> QED BY <1>3 DEF c

LEMMA EmptyBefore ==
  ASSUME NEW R, NEW s
  PROVE  Sorted(R, <<>>) /\ Before(R, <<>>, s) /\ Before(R, s, <<>>)
<1>1. Len(<<>>) = 0 BY EmptySeq
<1> QED BY <1>1 DEF Sorted, Before

LEMMA SingleBefore ==
  ASSUME NEW R, NEW s, NEW x
  PROVE  /\ Sorted(R, <<x>>)
         /\ (\A i \in 1 .. Len(s) : <<s[i], x>> \in R) => Before(R, s, <<x>>)
         /\ (\A i \in 1 .. Len(s) : <<x, s[i]>> \in R) => Before(R, <<x>>, s)
<1> DEFINE t == <<x>>
<1>1. Len(t) = 1 /\ t[1] = x OBVIOUS
<1> HIDE DEF t
<1>2. Sorted(R, t) BY <1>1 DEF Sorted
<1>3. (\A i \in 1 .. Len(s) : <<s[i], x>> \in R) => Before(R, s, t) BY <1>1 DEF Before
<1>4. (\A i \in 1 .. Len(s) : <<x, s[i]>> \in R) => Before(R, t, s) BY <1>1 DEF Before
<1> QED BY <1>2, <1>3, <1>4 DEF t

(* What waits last, or in the middle, moves on as a whole.                  *)
LEMMA ChainFlush ==
  ASSUME NEW R, NEW r \in Seq(Nat), NEW o \in Seq(Nat), NEW b \in Seq(Nat), Chain(R, r, o, b)
  PROVE  Chain(R, r, o \o b, <<>>) /\ Chain(R, r \o o, <<>>, b)
<1>1. Sorted(R, o \o b) /\ Before(R, r, o \o b) BY SortedConcat, BeforeConcat DEF Chain
<1>2. Sorted(R, r \o o) /\ Before(R, r \o o, b) BY SortedConcat, BeforeConcat DEF Chain
<1> QED BY <1>1, <1>2, EmptyBefore DEF Chain

(* Two sequences are a chain whichever place is empty.                      *)
LEMMA ChainPlace ==
  ASSUME NEW R, NEW r, NEW s
  PROVE  Chain(R, r, s, <<>>) <=> Chain(R, r, <<>>, s)
BY EmptyBefore DEF Chain

(* The head of a sequence comes before its tail.                            *)
LEMMA HeadBefore ==
  ASSUME NEW R, NEW s \in Seq(Nat), s # <<>>, Sorted(R, s)
  PROVE  /\ Head(s) \in Nat /\ Tail(s) \in Seq(Nat) /\ <<Head(s)>> \in Seq(Nat)
         /\ Before(R, <<Head(s)>>, Tail(s))
         /\ \A t : Before(R, t, s) => Before(R, t, <<Head(s)>>)
         /\ \A t : Before(R, s, t) => Before(R, <<Head(s)>>, t)
<1>1. Head(s) \in Nat /\ Tail(s) \in Seq(Nat) BY HeadTailProperties
<1> DEFINE x == Head(s)
<1>2. /\ x = s[1] /\ 1 \in 1 .. Len(s) /\ Len(Tail(s)) = Len(s) - 1 /\ Len(s) \in Nat
      /\ \A i \in 1 .. Len(s) - 1 : Tail(s)[i] = s[i + 1]
  BY <1>1, HeadTailFacts, LenProperties
<1>3. x \in Nat BY <1>1
<1> HIDE DEF x
<1>4. \A i \in 1 .. Len(Tail(s)) : <<x, Tail(s)[i]>> \in R
  <2>1. \A i \in 1 .. Len(Tail(s)) : i + 1 \in 1 .. Len(s) /\ 1 < i + 1 BY <1>2
  <2> QED BY <1>2, <2>1 DEF Sorted
<1>5. Before(R, <<x>>, Tail(s)) BY <1>4, SingleBefore
<1>6. \A t : Before(R, t, s) => Before(R, t, <<x>>)
  <2>1. \A t : Before(R, t, s) => \A i \in 1 .. Len(t) : <<t[i], x>> \in R
    BY <1>2 DEF Before
  <2> QED BY <2>1, SingleBefore
<1>7. \A t : Before(R, s, t) => Before(R, <<x>>, t)
  <2>1. \A t : Before(R, s, t) => \A i \in 1 .. Len(t) : <<x, t[i]>> \in R
    BY <1>2 DEF Before
  <2> QED BY <2>1, SingleBefore
<1>8. <<x>> \in Seq(Nat) BY <1>3
<1> QED BY <1>1, <1>5, <1>6, <1>7, <1>8 DEF x

(* One by one, the head of a sequence goes to the end of the one before.    *)
LEMMA ChainTake ==
  ASSUME NEW R, NEW r \in Seq(Nat), NEW o \in Seq(Nat), NEW b \in Seq(Nat), Chain(R, r, o, b)
  PROVE  /\ o # <<>> => Chain(R, r \o <<Head(o)>>, Tail(o), b)
         /\ b # <<>> => Chain(R, r, o \o <<Head(b)>>, Tail(b))
<1>1. ASSUME o # <<>> PROVE Chain(R, r \o <<Head(o)>>, Tail(o), b)
  <2> DEFINE x == <<Head(o)>>
  <2>1. x \in Seq(Nat) /\ Sorted(R, x) /\ Before(R, x, Tail(o)) /\ Before(R, r, x) /\ Before(R, x, b)
    BY <1>1, HeadBefore, SingleBefore DEF Chain
  <2>2. Thin(Tail(o), o) /\ Thin(r, r) /\ Thin(b, b) BY <1>1, ThinTail, ThinEmpty
  <2>3. Chain(R, r, Tail(o), b) BY <2>2, ThinChain
  <2> HIDE DEF x
  <2>4. Sorted(R, r \o x) /\ Before(R, r \o x, Tail(o)) /\ Before(R, r \o x, b)
    BY <2>1, <2>3, SortedConcat, BeforeConcat DEF Chain
  <2>5. Chain(R, r \o x, Tail(o), b) BY <2>3, <2>4 DEF Chain
  <2> QED BY <2>5 DEF x
<1>2. ASSUME b # <<>> PROVE Chain(R, r, o \o <<Head(b)>>, Tail(b))
  <2> DEFINE x == <<Head(b)>>
  <2>1. x \in Seq(Nat) /\ Sorted(R, x) /\ Before(R, x, Tail(b)) /\ Before(R, r, x) /\ Before(R, o, x)
    BY <1>2, HeadBefore, SingleBefore DEF Chain
  <2>2. Thin(Tail(b), b) /\ Thin(r, r) /\ Thin(o, o) BY <1>2, ThinTail, ThinEmpty
  <2>3. Chain(R, r, o, Tail(b)) BY <2>2, ThinChain
  <2> HIDE DEF x
  <2>4. Sorted(R, o \o x) /\ Before(R, r, o \o x) /\ Before(R, o \o x, Tail(b))
    BY <2>1, <2>3, SortedConcat, BeforeConcat DEF Chain
  <2>5. Chain(R, r, o \o x, Tail(b)) BY <2>3, <2>4 DEF Chain
  <2> QED BY <2>5 DEF x
<1> QED BY <1>1, <1>2

(* A copy of the head may be sent ahead, when equal numbers are related.    *)
LEMMA ChainSend ==
  ASSUME NEW R, NEW r \in Seq(Nat), NEW o \in Seq(Nat), NEW b \in Seq(Nat), Chain(R, r, o, b),
         b # <<>>, \A a \in Nat : <<a, a>> \in R
  PROVE  Chain(R, r, o \o <<Head(b)>>, b)
<1> DEFINE x == Head(b)
<1>1. /\ x \in Nat /\ Tail(b) \in Seq(Nat)
      /\ Before(R, <<x>>, Tail(b)) /\ Before(R, r, <<x>>) /\ Before(R, o, <<x>>)
      /\ <<x>> \in Seq(Nat)
  BY HeadBefore DEF Chain
<1>2. /\ x = b[1] /\ Len(b) \in Nat /\ Len(Tail(b)) = Len(b) - 1
      /\ \A i \in 1 .. Len(b) - 1 : Tail(b)[i] = b[i + 1]
  BY <1>1, HeadTailFacts, LenProperties
<1> HIDE DEF x
<1>3. ASSUME NEW i \in 1 .. Len(b) PROVE <<x, b[i]>> \in R
  <2>1. CASE i = 1 BY <1>1, <1>2, <2>1
  <2>2. CASE i # 1
    <3>1. /\ i - 1 \in 1 .. Len(Tail(b)) /\ Tail(b)[i - 1] = b[i]
          /\ 1 \in 1 .. Len(<<x>>) /\ <<x>>[1] = x
      BY <1>2, <2>2
    <3> QED BY <1>1, <3>1 DEF Before
  <2> QED BY <2>1, <2>2
<1>4. Before(R, <<x>>, b) /\ Sorted(R, <<x>>) BY <1>3, SingleBefore
<1>5. Sorted(R, o \o <<x>>) /\ Before(R, r, o \o <<x>>) /\ Before(R, o \o <<x>>, b)
  BY <1>1, <1>4, SortedConcat, BeforeConcat DEF Chain
<1>6. Chain(R, r, o \o <<x>>, b) BY <1>5 DEF Chain
<1> QED BY <1>6 DEF x

(* A new number at the end, or in the middle.                               *)
LEMMA ChainEnd ==
  ASSUME NEW R, NEW r \in Seq(Nat), NEW o \in Seq(Nat), NEW b \in Seq(Nat), Chain(R, r, o, b),
         NEW x \in Nat, Before(R, r, <<x>>), Before(R, o, <<x>>)
  PROVE  /\ Before(R, b, <<x>>) => Chain(R, r, o, b \o <<x>>)
         /\ Before(R, <<x>>, b) => Chain(R, r, o \o <<x>>, b)
<1>1. <<x>> \in Seq(Nat) /\ Sorted(R, <<x>>) BY SingleBefore
<1>2. ASSUME Before(R, b, <<x>>) PROVE Chain(R, r, o, b \o <<x>>)
  BY <1>1, <1>2, SortedConcat, BeforeConcat DEF Chain
<1>3. ASSUME Before(R, <<x>>, b) PROVE Chain(R, r, o \o <<x>>, b)
  BY <1>1, <1>3, SortedConcat, BeforeConcat DEF Chain
<1> QED BY <1>2, <1>3

(* Free numbers may be put on the wire.                                     *)
LEMMA ChainFree ==
  ASSUME NEW R, NEW r \in Seq(Nat), NEW o \in Seq(Nat), NEW b \in Seq(Nat), Chain(R, r, o, b),
         NEW t \in Seq(Nat), \A i \in 1 .. Len(t) : Free(R, t[i])
  PROVE  Chain(R, r, o \o t, b)
<1>1. \A s \in Seq(Nat) : \A i \in 1 .. Len(s) : s[i] \in Nat BY ElementOfSeq
<1>2. \A s \in Seq(Nat) : Before(R, s, t) /\ Before(R, t, s) BY <1>1 DEF Before, Free
<1>3. Sorted(R, t) BY <1>1 DEF Sorted, Free
<1> QED BY <1>2, <1>3, SortedConcat, BeforeConcat DEF Chain

(* The numbers of packets, and of entries of the queue.                     *)
LEMMA NumbersFacts ==
  ASSUME NEW S, NEW s \in Seq(S), \A x \in S : x.m \in Nat
  PROVE  /\ EventNumbers(s) \in Seq(Nat) /\ Len(EventNumbers(s)) = Len(s)
         /\ \A i \in 1 .. Len(s) : EventNumbers(s)[i] = s[i].m
<1>1. Len(s) \in Nat /\ \A i \in 1 .. Len(s) : s[i].m \in Nat
  <2>1. \A i \in 1 .. Len(s) : s[i] \in S BY ElementOfSeq
  <2> QED BY <2>1, LenProperties
<1> QED BY <1>1 DEF EventNumbers

LEMMA NumbersConcat ==
  ASSUME NEW S, NEW s \in Seq(S), NEW t \in Seq(S), \A x \in S : x.m \in Nat
  PROVE  EventNumbers(s \o t) = EventNumbers(s) \o EventNumbers(t)
<1> DEFINE c == s \o t
           g == EventNumbers(c)
           e == EventNumbers(s)
           f == EventNumbers(t)
<1>1. /\ Len(s) \in Nat /\ Len(t) \in Nat /\ c \in Seq(S) /\ Len(c) = Len(s) + Len(t)
      /\ \A i \in 1 .. Len(s) + Len(t) : c[i] = IF i <= Len(s) THEN s[i] ELSE t[i - Len(s)]
  BY ConcatProperties, LenProperties
<1> HIDE DEF c
<1>2. /\ e \in Seq(Nat) /\ Len(e) = Len(s) /\ \A i \in 1 .. Len(s) : e[i] = s[i].m
      /\ f \in Seq(Nat) /\ Len(f) = Len(t) /\ \A i \in 1 .. Len(t) : f[i] = t[i].m
      /\ g \in Seq(Nat) /\ Len(g) = Len(c) /\ \A i \in 1 .. Len(c) : g[i] = c[i].m
  BY <1>1, NumbersFacts
<1> HIDE DEF e, f, g
<1> DEFINE d == e \o f
<1>3. /\ d \in Seq(Nat) /\ Len(d) = Len(e) + Len(f)
      /\ \A i \in 1 .. Len(e) + Len(f) : d[i] = IF i <= Len(e) THEN e[i] ELSE f[i - Len(e)]
  <2>1. e \in Seq(Nat) /\ f \in Seq(Nat) BY <1>2
  <2> QED BY <2>1, ConcatProperties
<1> HIDE DEF d
<1>4. ASSUME NEW i \in 1 .. Len(s) + Len(t) PROVE g[i] = d[i]
  <2>1. CASE i <= Len(s)
    <3>1. i \in 1 .. Len(s) /\ c[i] = s[i] /\ d[i] = e[i] BY <1>1, <1>2, <1>3, <2>1
    <3> QED BY <1>1, <1>2, <3>1
  <2>2. CASE i > Len(s)
    <3>1. i - Len(s) \in 1 .. Len(t) /\ c[i] = t[i - Len(s)] /\ d[i] = f[i - Len(s)]
      BY SMTT(40), <1>1, <1>2, <1>3, <2>2
    <3> QED BY <1>1, <1>2, <3>1
  <2> QED BY <1>1, <2>1, <2>2
<1>5. Len(g) = Len(s) + Len(t) /\ Len(d) = Len(g) BY <1>1, <1>2, <1>3
<1>6. g = d BY <1>2, <1>3, <1>4, <1>5, SeqEqual
<1> QED BY <1>6 DEF c, d, e, f, g

LEMMA NumbersThin ==
  ASSUME NEW S, NEW s \in Seq(S), NEW r \in Seq(S), \A x \in S : x.m \in Nat, Thin(r, s)
  PROVE  Thin(EventNumbers(r), EventNumbers(s))
<1>1. /\ Len(EventNumbers(s)) = Len(s) /\ \A i \in 1 .. Len(s) : EventNumbers(s)[i] = s[i].m
      /\ Len(EventNumbers(r)) = Len(r) /\ \A i \in 1 .. Len(r) : EventNumbers(r)[i] = r[i].m
  BY NumbersFacts
<1>2. Part(EventNumbers(r), EventNumbers(s))
  <2>1. ASSUME NEW i \in 1 .. Len(r) PROVE \E j \in 1 .. Len(s) : r[i].m = s[j].m
    <3>1. PICK j \in 1 .. Len(s) : r[i] = s[j] BY DEF Thin, Part
    <3> QED BY <3>1
  <2> QED BY <1>1, <2>1 DEF Part
<1>3. ASSUME NEW i \in 1 .. Len(r), NEW j \in 1 .. Len(r), i < j
      PROVE  \E k, l \in 1 .. Len(s) : k < l /\ r[i].m = s[k].m /\ r[j].m = s[l].m
  <2>1. PICK k \in 1 .. Len(s), l \in 1 .. Len(s) : k < l /\ r[i] = s[k] /\ r[j] = s[l]
    BY <1>3 DEF Thin
  <2> QED BY <2>1
<1> QED BY <1>1, <1>2, <1>3 DEF Thin

LEMMA NumbersSingle ==
  ASSUME NEW x, x.m \in Nat
  PROVE  EventNumbers(<<x>>) = <<x.m>>
<1> DEFINE s == <<x>>
<1>1. Len(s) = 1 /\ s[1] = x OBVIOUS
<1> HIDE DEF s
<1>2. EventNumbers(s) = [i \in 1 .. 1 |-> s[i].m] BY <1>1 DEF EventNumbers
<1>3. EventNumbers(s) \in Seq(Nat) /\ Len(EventNumbers(s)) = 1 /\ EventNumbers(s)[1] = x.m
  BY <1>1, <1>2
<1>4. <<x.m>> \in Seq(Nat) /\ Len(<<x.m>>) = 1 /\ <<x.m>>[1] = x.m OBVIOUS
<1>5. \A i \in 1 .. Len(EventNumbers(s)) : EventNumbers(s)[i] = <<x.m>>[i] BY <1>3, <1>4
<1>6. EventNumbers(s) = <<x.m>> BY <1>3, <1>4, <1>5, SeqEqual
<1> QED BY <1>6 DEF s

LEMMA NumbersEmpty == EventNumbers(<<>>) = <<>>
BY DEF EventNumbers

(***************************************************************************)
(* How a step moves the messages                                            *)
(***************************************************************************)
LEMMA NumberedTypes ==
  /\ \A p \in Packet : p.m \in Nat
  /\ \A e \in QueueEntry : e.m \in Nat /\ e.m \in Messages
BY BoundsAssumption DEF Packet, QueueEntry, Messages

(* What may be put on the wire besides: the number b has at its head.       *)
Sends(b) ==
  \/ out' = out
  \/ b # <<>> /\ \E p \in Packet : p.type = "EVENT" /\ p.m = Head(b) /\ out' = out \o <<p>>

(* The queue becomes one of the messages b, of which the first may be sent. *)
QueueBecomes(b) == b \in Seq(Nat) /\ EventNumbers(queue') = b /\ Sends(b)

LEMMA NumbersHead ==
  ASSUME NEW q \in Seq(QueueEntry), q # <<>>, NEW x \in QueueEntry, x.m = Head(q).m
  PROVE  /\ EventNumbers(q) # <<>> /\ Head(EventNumbers(q)) = Head(q).m
         /\ EventNumbers(<<x>> \o Tail(q)) = EventNumbers(q)
         /\ Thin(EventNumbers(Tail(q)), EventNumbers(q))
<1>0. \A e \in QueueEntry : e.m \in Nat BY NumberedTypes
<1> DEFINE r == <<x>> \o Tail(q)
           b == EventNumbers(q)
           c == EventNumbers(r)
<1>1. /\ Len(q) \in Nat \ {0} /\ 1 \in 1 .. Len(q) /\ Head(q) = q[1] /\ Tail(q) \in Seq(QueueEntry)
  BY QueueFacts
<1>2. /\ Len(r) = Len(q) /\ r[1] = x /\ \A i \in 2 .. Len(q) : r[i] = q[i]
  BY HeadTailFacts
<1>3. r \in Seq(QueueEntry)
  <2>1. <<x>> \in Seq(QueueEntry) OBVIOUS
  <2> QED BY <1>1, <2>1, ConcatProperties
<1> HIDE DEF r
<1>4. b \in Seq(Nat) /\ Len(b) = Len(q) /\ \A i \in 1 .. Len(q) : b[i] = q[i].m
  BY <1>0, NumbersFacts
<1>5. c \in Seq(Nat) /\ Len(c) = Len(r) /\ \A i \in 1 .. Len(r) : c[i] = r[i].m
  BY <1>0, <1>3, NumbersFacts
<1>6. Thin(EventNumbers(Tail(q)), b)
  <2>1. Thin(Tail(q), q) BY ThinTail
  <2> QED BY <1>0, <1>1, <2>1, NumbersThin
<1> HIDE DEF b, c
<1>7. b # <<>> /\ Head(b) = Head(q).m
  <2>1. b # <<>> BY <1>1, <1>4, EmptyLen
  <2>2. PICK y \in Nat : y = Head(b) BY <1>4, <2>1, HeadTailProperties
  <2>3. Head(b) = b[1] BY <1>4, <2>1, <2>2, HeadTailFacts
  <2> QED BY <1>1, <1>4, <2>1, <2>3
<1>8. c = b
  <2>1. ASSUME NEW i \in 1 .. Len(c) PROVE c[i] = b[i]
    <3>1. CASE i = 1 BY <1>1, <1>2, <1>4, <1>5, <3>1
    <3>2. CASE i \in 2 .. Len(q) BY <1>1, <1>2, <1>4, <1>5, <3>2
    <3> QED BY <1>1, <1>2, <1>5, <3>1, <3>2
  <2>2. Len(c) = Len(b) BY <1>2, <1>4, <1>5
  <2> QED BY <1>4, <1>5, <2>1, <2>2, SeqEqual
<1> QED BY <1>6, <1>7, <1>8 DEF b, c, r

LEMMA DrainMoves ==
  ASSUME TypeOK, NEW q \in Seq(QueueEntry), NEW a, NEW t, NEW force, DrainQueue(q, a, t, force)
  PROVE  QueueBecomes(EventNumbers(q))
<1>1. EventNumbers(q) \in Seq(Nat) BY NumberedTypes, NumbersFacts
<1>2. CASE SendsHead(q, force)
  <2> DEFINE x == Tried(Head(q))
             p == EventPacket(ids, Head(q).m)
  <2>1. q # <<>> /\ queue' = <<x>> \o Tail(q) /\ Write(<<p>>)
    BY <1>2 DEF SendsHead, DrainQueue
  <2>2. Head(q) \in QueueEntry BY <2>1, QueueFacts
  <2>3. x \in QueueEntry /\ x.m = Head(q).m BY <2>2, TriedType
  <2>4. ids \in Nat /\ Head(q).m \in Nat
    BY <2>2, NumberedTypes DEF TypeOK, QueueTypeOK
  <2>5. p \in Packet /\ p.type = "EVENT" /\ p.m = Head(q).m
    BY <2>4, EventPacketType DEF EventPacket, PacketOf
  <2> HIDE DEF x, p
  <2>6. /\ EventNumbers(q) # <<>> /\ Head(EventNumbers(q)) = Head(q).m
        /\ EventNumbers(<<x>> \o Tail(q)) = EventNumbers(q)
    BY <2>1, <2>3, NumbersHead
  <2>7. EventNumbers(queue') = EventNumbers(q) BY <2>1, <2>6
  <2>8. Sends(EventNumbers(q)) BY <2>1, <2>5, <2>6 DEF Sends, Write
  <2> QED BY <1>1, <2>7, <2>8 DEF QueueBecomes
<1>3. CASE ~SendsHead(q, force)
  <2>1. queue' = q /\ out' = out BY <1>3 DEF DrainQueue
  <2> QED BY <1>1, <2>1 DEF QueueBecomes, Sends
<1> QED BY <1>2, <1>3

LEMMA AfterNumbers ==
  ASSUME TypeOK, NEW m, NEW err \in BOOLEAN, IsHead(m)
  PROVE  Thin(EventNumbers(AfterCallback(m, err)), EventNumbers(queue))
<1> DEFINE x == [Head(queue) EXCEPT !.pending = FALSE]
<1>1. queue \in Seq(QueueEntry) /\ queue # <<>> BY DEF IsHead, TypeOK, QueueTypeOK
<1>2. Head(queue) \in QueueEntry BY <1>1, QueueFacts
<1>3. x \in QueueEntry /\ x.m = Head(queue).m BY <1>2 DEF QueueEntry
<1>4. AfterCallback(m, err) \in {Tail(queue), <<x>> \o Tail(queue)} BY DEF AfterCallback
<1> HIDE DEF x
<1>5. /\ EventNumbers(<<x>> \o Tail(queue)) = EventNumbers(queue)
      /\ Thin(EventNumbers(Tail(queue)), EventNumbers(queue))
  BY <1>1, <1>3, NumbersHead
<1>6. Thin(EventNumbers(queue), EventNumbers(queue)) BY ThinEmpty
<1> QED BY <1>4, <1>5, <1>6

(* The steps of the queue: messages leave it, the first may be sent again,  *)
(* and a timer may remove a message from the buffer.                        *)
QueueMove ==
  /\ UNCHANGED <<received, emitted, mode>>
  /\ Part(sendBuffer', sendBuffer) /\ Thin(sendBuffer', sendBuffer)
  /\ \E b : Thin(b, EventNumbers(queue)) /\ QueueBecomes(b)

LEMMA CallbackMoves ==
  ASSUME TypeOK, NEW m, NEW err \in BOOLEAN, NEW a, NEW t, QueueCallback(m, err, a, t)
  PROVE  \E b : Thin(b, EventNumbers(queue)) /\ QueueBecomes(b)
<1>1. CASE IsHead(m)
  <2> DEFINE r == AfterCallback(m, err)
  <2>1. r \in Seq(QueueEntry) /\ Thin(EventNumbers(r), EventNumbers(queue))
    BY <1>1, AfterCallbackType, AfterNumbers
  <2>2. DrainQueue(r, a, t, FALSE) BY <1>1 DEF QueueCallback
  <2> HIDE DEF r
  <2> QED BY <2>1, <2>2, DrainMoves
<1>2. CASE ~IsHead(m)
  <2>1. queue' = queue /\ out' = out BY <1>2 DEF QueueCallback
  <2>2. queue \in Seq(QueueEntry) BY DEF TypeOK, QueueTypeOK
  <2>3. EventNumbers(queue) \in Seq(Nat) BY <2>2, NumberedTypes, NumbersFacts
  <2> QED BY <2>1, <2>3, ThinEmpty DEF QueueBecomes, Sends
<1> QED BY <1>1, <1>2

LEMMA QueueSteps ==
  ASSUME TypeOK,
         \/ \E h \in timers : TimerFires(h)
         \/ OnAck \/ ConnectReturns \/ DisconnectReturns
  PROVE  QueueMove
<1>0. queue \in Seq(QueueEntry) /\ sendBuffer \in Seq(Packet)
  BY DEF TypeOK, QueueTypeOK, SocketTypeOK
<1>1. EventNumbers(queue) \in Seq(Nat) BY <1>0, NumberedTypes, NumbersFacts
<1>2. Thin(EventNumbers(queue), EventNumbers(queue)) /\ Thin(sendBuffer, sendBuffer)
  BY ThinEmpty
<1>3. ASSUME UNCHANGED <<queue, out>>
      PROVE  \E b : Thin(b, EventNumbers(queue)) /\ QueueBecomes(b)
  BY <1>1, <1>2, <1>3 DEF QueueBecomes, Sends
<1>4. ASSUME NEW h \in timers, TimerFires(h) PROVE QueueMove
  <2>1. UNCHANGED <<received, emitted, mode>> BY <1>4 DEF TimerFires, serverVars
  <2>2. Thin(sendBuffer', sendBuffer)
    <3>1. sendBuffer' = Unbuffer(h.id) BY <1>4 DEF TimerFires
    <3> QED BY <1>0, <1>2, <3>1, ThinRemove DEF Unbuffer
  <2>3. \E b : Thin(b, EventNumbers(queue)) /\ QueueBecomes(b)
    <3>1. CASE h.queued
      <4>1. QueueCallback(h.m, TRUE, Without(h), timers \ {h}) BY <1>4, <3>1 DEF TimerFires
      <4> QED BY <4>1, CallbackMoves
    <3>2. CASE ~h.queued
      <4>1. UNCHANGED <<queue, out>> BY <1>4, <3>2 DEF TimerFires
      <4> QED BY <1>3, <4>1
    <3> QED BY <3>1, <3>2
  <2> QED BY <2>1, <2>2, <2>3 DEF QueueMove, Thin
<1>5. CASE OnAck
  <2>1. UNCHANGED <<received, emitted, mode, sendBuffer>> BY <1>5 DEF OnAck
  <2>2. \E b : Thin(b, EventNumbers(queue)) /\ QueueBecomes(b)
    <3>1. CASE UNCHANGED <<queue, out>> BY <1>3, <3>1
    <3>2. ASSUME NEW h \in acks, NEW err \in BOOLEAN,
                 QueueCallback(h.m, err, acks \ {h}, timers)
          PROVE  \E b : Thin(b, EventNumbers(queue)) /\ QueueBecomes(b)
      BY <3>2, CallbackMoves
    <3>3. TakenForError(Head(inb)) \in BOOLEAN BY DEF TakenForError
    <3> QED BY <1>5, <3>1, <3>2, <3>3 DEF OnAck
  <2> QED BY <1>2, <2>1, <2>2 DEF QueueMove, Thin
<1>6. CASE ConnectReturns
  <2>1. UNCHANGED <<received, emitted, mode, sendBuffer>>
    BY <1>6 DEF ConnectReturns, serverVars, userVars
  <2>2. DrainQueue(queue, acks, timers, TRUE) BY <1>6 DEF ConnectReturns
  <2>3. QueueBecomes(EventNumbers(queue)) BY <1>0, <2>2, DrainMoves
  <2> QED BY <1>2, <2>1, <2>3 DEF QueueMove, Thin
<1>7. CASE DisconnectReturns
  <2>1. UNCHANGED <<received, emitted, mode, sendBuffer, out>>
    BY <1>7 DEF DisconnectReturns, serverVars
  <2>2. \E b : Thin(b, EventNumbers(queue)) /\ QueueBecomes(b)
    <3>1. CASE HeadFails
      <4> DEFINE r == AfterCallback(Head(queue).m, TRUE)
      <4>1. IsHead(Head(queue).m) BY <3>1 DEF HeadFails, IsHead
      <4>2. queue' = r BY <1>7, <3>1 DEF DisconnectReturns
      <4>3. r \in Seq(QueueEntry) /\ Thin(EventNumbers(r), EventNumbers(queue))
        BY <4>1, AfterCallbackType, AfterNumbers
      <4> HIDE DEF r
      <4>4. EventNumbers(r) \in Seq(Nat) BY <4>3, NumberedTypes, NumbersFacts
      <4> QED BY <2>1, <4>2, <4>3, <4>4 DEF QueueBecomes, Sends
    <3>2. CASE ~HeadFails
      <4>1. UNCHANGED <<queue, out>> BY <1>7, <2>1, <3>2 DEF DisconnectReturns
      <4> QED BY <1>3, <4>1
    <3> QED BY <3>1, <3>2
  <2> QED BY <1>2, <2>1, <2>2 DEF QueueMove, Thin
<1> QED BY <1>4, <1>5, <1>6, <1>7

(* The buffer goes to the wire, or nowhere when the engine is closing.      *)
FlushMove ==
  /\ UNCHANGED <<received, emitted, mode, queue>>
  /\ FlushSendBuffer

(* The steps that move no message: they may write a control packet or an    *)
(* answer, or lose the wire.                                                *)
Silent(p) == p \in Packet /\ p.type # "EVENT" /\ p.m = 0
HushedMove ==
  /\ UNCHANGED <<received, emitted, mode, queue, sendBuffer>>
  /\ Thin(out', out) \/ \E p : Silent(p) /\ Write(<<p>>)

LEMMA SilentPackets ==
  /\ \A type \in {"CONNECT", "DISCONNECT", "CONNECT_ERROR"} : Silent(Control(type))
  /\ \A id \in Int, n \in Nat : Silent(AckPacket(id, n))
<1>1. ASSUME NEW type \in {"CONNECT", "DISCONNECT", "CONNECT_ERROR"} PROVE Silent(Control(type))
  BY ControlType DEF Silent, Control, PacketOf
<1>2. ASSUME NEW id \in Int, NEW n \in Nat PROVE Silent(AckPacket(id, n))
  BY AckPacketType DEF Silent, AckPacket, PacketOf
<1> QED BY <1>1, <1>2

LEMMA OtherSteps ==
  ASSUME TypeOK, [Next]_vars
  PROVE  \/ Emit \/ QueueMove \/ FlushMove \/ ServerTakes \/ HushedMove
<1>0. Thin(out, out) /\ Thin(<<>>, out) BY ThinEmpty
<1> USE DEF HushedMove, serverVars, userVars, socketVars
<1>1. CASE UNCHANGED vars BY <1>0, <1>1 DEF vars
<1>2. CASE Connect
  <2>1. UNCHANGED <<received, emitted, mode, queue, sendBuffer>> BY <1>2 DEF Connect
  <2>2. out' \in {out, <<>>} \/ Write(<<Control("CONNECT")>>) BY <1>2 DEF Connect, NewEngine
  <2> QED BY <1>0, <2>1, <2>2, SilentPackets
<1>3. CASE Disconnect
  <2>1. UNCHANGED <<received, emitted, mode, queue, sendBuffer>> BY <1>3 DEF Disconnect
  <2>2. out' = out \/ Write(<<Control("DISCONNECT")>>) BY <1>3 DEF Disconnect
  <2> QED BY <1>0, <2>1, <2>2, SilentPackets
<1>4. ASSUME NEW n \in toAck, UserAcks(n) PROVE HushedMove
  <2>1. UNCHANGED <<received, emitted, mode, queue, sendBuffer>> BY <1>4 DEF UserAcks
  <2>2. n \in Int BY DEF TypeOK, HistoryTypeOK
  <2>3. Write(<<AckPacket(n, 0)>>) BY <1>4 DEF UserAcks
  <2> QED BY <2>1, <2>2, <2>3, SilentPackets
<1>5. CASE ReplayReturns BY <1>5 DEF ReplayReturns, FlushMove
<1>6. CASE Io
  <2>1. UNCHANGED <<received, emitted, mode, queue, sendBuffer>>
    BY <1>6 DEF Io, EngineOpens, EngineFails, EngineStalls, EngineLost, ManagerReconnects,
                CloseReturns
  <2>2. out' \in {out, <<>>} \/ Write(<<Control("CONNECT")>>)
    BY <1>6 DEF Io, EngineOpens, EngineFails, EngineStalls, EngineLost, ManagerReconnects,
                CloseReturns, NewEngine
  <2> QED BY <1>0, <2>1, <2>2, SilentPackets
<1>7. CASE OnConnect
  BY <1>0, <1>7 DEF OnConnect, FlushMove
<1>8. CASE OnEvent \/ OnDisconnect \/ OnConnectError \/ Unheard
  BY <1>0, <1>8 DEF OnEvent, OnDisconnect, OnConnectError, OnRefused, Unheard
<1>9. CASE ServerEmits \/ ServerDisconnects
  BY <1>0, <1>9 DEF ServerEmits, ServerDisconnects
<1>10. CASE Timers \/ OnAck \/ ConnectReturns \/ DisconnectReturns
  BY <1>10, QueueSteps DEF Timers
<1> QED BY <1>1, <1>2, <1>3, <1>4, <1>5, <1>6, <1>7, <1>8, <1>9, <1>10
        DEF Next, User, Returns, OnPacket, Server

(* emit adds message x: to the buffer, to the wire or to the queue.         *)
MessageOf(p, x) == p \in Packet /\ p.type = "EVENT" /\ p.m = x

BufferMove(x) ==
  /\ \E p : MessageOf(p, x) /\ sendBuffer' = Append(sendBuffer, p)
  /\ UNCHANGED <<out, queue>>
  /\ Retries = 0 \/ mode'[x] # "plain"
  /\ ~connected

WriteMove(x) ==
  /\ out' = out \/ \E p : MessageOf(p, x) /\ out' = out \o <<p>>
  /\ UNCHANGED <<sendBuffer, queue>>
  /\ Retries = 0 \/ mode'[x] # "plain"
  /\ mode'[x] = "plain" => Len(sendBuffer) = 0

AddMove(x) ==
  /\ QueueBecomes(EventNumbers(queue) \o <<x>>)
  /\ UNCHANGED sendBuffer
  /\ Retries > 0

EmitMove(x) ==
  /\ x = emitted + 1 /\ x \in Messages /\ emitted' = x /\ received' = received
  /\ \A n \in Messages : n # x => mode'[n] = mode[n]
  /\ BufferMove(x) \/ WriteMove(x) \/ AddMove(x)

LEMMA EmitMoves ==
  ASSUME BufferInv, Emit
  PROVE  EmitMove(emitted + 1)
<1>1. PICK mods \in SUBSET Modifiers, kind \in AckKinds :
         EmitDirect(mods, kind) \/ EmitQueued(mods, kind)
  BY DEF Emit
<1> DEFINE fl == flags \cup mods
           x  == emitted + 1
<1>2. TypeOK /\ StackFits /\ Stranded /\ queue \in Seq(QueueEntry)
  BY DEF BufferInv, WireInv, QueueInv, CallbackInv, TypeOK, QueueTypeOK
<1>3. NextMessage(fl) BY <1>1 DEF EmitDirect, EmitQueued
<1>4. x \in Messages /\ x \in Nat /\ ids \in Nat
  BY <1>2, <1>3, BoundsAssumption DEF NextMessage, Messages, TypeOK, HistoryTypeOK, QueueTypeOK
<1>5. /\ emitted' = x /\ received' = received /\ mode'[x] = ModeOf(fl)
      /\ \A n \in Messages : n # x => mode'[n] = mode[n]
  BY <1>2, <1>3, <1>4 DEF NextMessage, serverVars, TypeOK, HistoryTypeOK
<1>6. ModeOf(fl) = "plain" <=> "volatile" \notin fl /\ ~InReplay BY DEF ModeOf
<1> HIDE DEF x
<1>7. CASE EmitQueued(mods, kind)
  <2> DEFINE e == NewEntry(fl, kind)
             q == Append(queue, e)
  <2>1. e \in QueueEntry /\ e.m = x BY <1>4 DEF NewEntry, QueueEntry, x
  <2>2. DrainQueue(q, acks, timers, FALSE) \/ (queue' = q /\ out' = out)
    BY <1>7 DEF EmitQueued
  <2>3. Retries > 0 /\ UNCHANGED sendBuffer BY <1>7 DEF EmitQueued, UsesQueue
  <2> HIDE DEF e
  <2>4. q \in Seq(QueueEntry) /\ q = queue \o <<e>> /\ <<e>> \in Seq(QueueEntry)
    BY <1>2, <2>1, AppendProperties, AppendIsConcat
  <2>5. EventNumbers(q) = EventNumbers(queue) \o <<x>>
    <3>1. EventNumbers(q) = EventNumbers(queue) \o EventNumbers(<<e>>)
      BY <1>2, <2>4, NumberedTypes, NumbersConcat
    <3>2. EventNumbers(<<e>>) = <<x>> BY <1>4, <2>1, NumbersSingle
    <3> QED BY <3>1, <3>2
  <2> HIDE DEF q
  <2>6. EventNumbers(q) \in Seq(Nat) BY <2>4, NumberedTypes, NumbersFacts
  <2>7. QueueBecomes(EventNumbers(q))
    <3>1. CASE DrainQueue(q, acks, timers, FALSE) BY <1>2, <2>4, <3>1, DrainMoves
    <3>2. CASE queue' = q /\ out' = out BY <2>6, <3>2 DEF QueueBecomes, Sends
    <3> QED BY <2>2, <3>1, <3>2
  <2>8. AddMove(x) BY <2>3, <2>5, <2>7 DEF AddMove
  <2> QED BY <1>4, <1>5, <2>8 DEF EmitMove, x
<1>8. CASE EmitDirect(mods, kind)
  <2> DEFINE id == IF kind = "none" THEN NoId ELSE ids
             p  == EventPacket(id, x)
  <2>1. id \in Int BY <1>4 DEF NoId
  <2>2. MessageOf(p, x) BY <1>4, <2>1, EventPacketType DEF EventPacket, PacketOf, MessageOf
  <2>3. Route(fl, p) /\ UNCHANGED queue BY <1>8 DEF EmitDirect, x
  <2> HIDE DEF p, id
  <2>4. Retries = 0 \/ mode'[x] # "plain"
    <3>1. ~(Retries > 0 /\ "volatile" \notin fl) BY <1>8 DEF EmitDirect, UsesQueue
    <3>2. Retries \in Nat BY RetriesAssumption
    <3> QED BY <1>5, <1>6, <3>1, <3>2
  <2>5. CASE UNCHANGED <<out, sendBuffer>> /\ "volatile" \in fl
    <3>1. mode'[x] # "plain" BY <1>5, <1>6, <2>5
    <3>2. WriteMove(x) BY <2>3, <2>4, <2>5, <3>1 DEF WriteMove
    <3> QED BY <1>4, <1>5, <3>2 DEF EmitMove, x
  <2>6. CASE connected /\ Write(<<p>>) /\ UNCHANGED sendBuffer
    <3>1. mode'[x] = "plain" => Len(sendBuffer) = 0
      BY <1>2, <1>5, <1>6, <2>6, ReplayFacts DEF Stranded
    <3>2. out' = out \/ out' = out \o <<p>> BY <2>6 DEF Write
    <3>3. WriteMove(x) BY <2>2, <2>3, <2>4, <2>6, <3>1, <3>2 DEF WriteMove
    <3> QED BY <1>4, <1>5, <3>3 DEF EmitMove, x
  <2>7. CASE ~connected /\ sendBuffer' = Append(sendBuffer, p) /\ UNCHANGED out
    <3>1. BufferMove(x) BY <2>2, <2>3, <2>4, <2>7 DEF BufferMove
    <3> QED BY <1>4, <1>5, <3>1 DEF EmitMove, x
  <2> QED BY <2>3, <2>5, <2>6, <2>7 DEF Route
<1> QED BY <1>1, <1>7, <1>8

(***************************************************************************)
(* The line of messages                                                     *)
(***************************************************************************)
(* Only events carry a message, one of 1 .. n.                              *)
Fits(s, n) == \A i \in 1 .. Len(s) : IF s[i].type = "EVENT" THEN s[i].m \in 1 .. n ELSE s[i].m = 0

(* What is still to be sent: the buffer, or the queue with retries.         *)
Rest == IF Retries = 0 THEN EventNumbers(sendBuffer) ELSE EventNumbers(queue)

(* What R must allow: control packets anywhere and, with retries, a second  *)
(* transmission and whatever is buffered beside the queue.                  *)
Allows(R) ==
  /\ Free(R, 0)
  /\ Retries > 0 => /\ \A a \in Nat : <<a, a>> \in R
                    /\ \A i \in 1 .. Len(sendBuffer) : Free(R, sendBuffer[i].m)

LEMMA LineTypes ==
  ASSUME TypeOK
  PROVE  /\ received \in Seq(Nat) /\ EventNumbers(out) \in Seq(Nat)
         /\ EventNumbers(sendBuffer) \in Seq(Nat) /\ EventNumbers(queue) \in Seq(Nat)
         /\ Rest \in Seq(Nat)
         /\ out \in Seq(Packet) /\ sendBuffer \in Seq(Packet) /\ queue \in Seq(QueueEntry)
         /\ Retries \in Nat
<1>1. /\ received \in Seq(Nat) /\ out \in Seq(Packet) /\ sendBuffer \in Seq(Packet)
      /\ queue \in Seq(QueueEntry)
  BY DEF TypeOK, SocketTypeOK, QueueTypeOK, WireTypeOK
<1>2. /\ EventNumbers(out) \in Seq(Nat) /\ EventNumbers(sendBuffer) \in Seq(Nat)
      /\ EventNumbers(queue) \in Seq(Nat)
  BY <1>1, NumberedTypes, NumbersFacts
<1> QED BY <1>1, <1>2, RetriesAssumption DEF Rest

LEMMA WriteNumbers ==
  ASSUME TypeOK, NEW pkts \in Seq(Packet), Write(pkts)
  PROVE  EventNumbers(out') \in {EventNumbers(out), EventNumbers(out) \o EventNumbers(pkts)}
<1>1. out' \in {out, out \o pkts} BY DEF Write
<1>2. EventNumbers(out \o pkts) = EventNumbers(out) \o EventNumbers(pkts)
  BY LineTypes, NumberedTypes, NumbersConcat
<1> QED BY <1>1, <1>2

LEMMA NumbersTail ==
  ASSUME NEW s \in Seq(Packet), s # <<>>
  PROVE  /\ EventNumbers(s) # <<>> /\ EventNumbers(Tail(s)) = Tail(EventNumbers(s))
         /\ Head(EventNumbers(s)) = Head(s).m /\ Head(s).m \in Nat
<1>1. PICK p \in Packet : p = Head(s) BY HeadTailProperties
<1>2. p.m \in Nat BY NumberedTypes
<1> DEFINE b == EventNumbers(s)
           t == Tail(s)
           c == EventNumbers(t)
<1>3. /\ Head(s) = s[1] /\ t \in Seq(Packet) /\ Len(t) = Len(s) - 1 /\ Len(s) \in Nat \ {0}
      /\ \A i \in 1 .. Len(s) - 1 : t[i] = s[i + 1]
  BY <1>1, HeadTailFacts, EmptyLen
<1>4. b \in Seq(Nat) /\ Len(b) = Len(s) /\ \A i \in 1 .. Len(s) : b[i] = s[i].m
  BY NumberedTypes, NumbersFacts
<1> HIDE DEF t
<1>5. c \in Seq(Nat) /\ Len(c) = Len(t) /\ \A i \in 1 .. Len(t) : c[i] = t[i].m
  BY <1>3, NumberedTypes, NumbersFacts
<1> HIDE DEF b, c
<1>6. b # <<>> BY <1>3, <1>4, EmptyLen
<1>7. PICK y \in Nat : y = Head(b) BY <1>4, <1>6, HeadTailProperties
<1>8. /\ Head(b) = b[1] /\ Tail(b) \in Seq(Nat) /\ Len(Tail(b)) = Len(b) - 1
      /\ \A i \in 1 .. Len(b) - 1 : Tail(b)[i] = b[i + 1]
  BY <1>4, <1>6, <1>7, HeadTailFacts
<1>9. Head(b) = p.m BY <1>1, <1>3, <1>4, <1>8
<1>10. c = Tail(b)
  <2>1. Len(c) = Len(s) - 1 /\ Len(c) = Len(b) - 1 /\ Len(s) \in Nat BY <1>3, <1>4, <1>5
  <2>2. ASSUME NEW i \in 1 .. Len(c) PROVE c[i] = Tail(b)[i]
    <3>1. i \in 1 .. Len(s) - 1 /\ i + 1 \in 1 .. Len(s) BY <2>1
    <3>2. c[i] = s[i + 1].m BY <1>3, <1>5, <3>1
    <3>3. Tail(b)[i] = b[i + 1] BY <1>8, <2>1
    <3>4. b[i + 1] = s[i + 1].m BY <1>4, <3>1
    <3> QED BY <3>2, <3>3, <3>4
  <2>3. Len(c) = Len(Tail(b)) BY <1>3, <1>4, <1>5, <1>8
  <2> QED BY <1>5, <1>8, <2>2, <2>3, SeqEqual
<1> QED BY <1>1, <1>2, <1>6, <1>9, <1>10 DEF b, c, t

LEMMA ServerTakesMoves ==
  ASSUME TypeOK, ServerTakes
  PROVE  /\ out # <<>> /\ out' = Tail(out) /\ UNCHANGED <<emitted, mode, sendBuffer, queue>>
         /\ \/ received' = received
            \/ Head(out).type = "EVENT" /\ received' = received \o <<Head(out).m>>
         /\ EventNumbers(out) # <<>> /\ EventNumbers(Tail(out)) = Tail(EventNumbers(out))
         /\ Head(EventNumbers(out)) = Head(out).m /\ Head(out).m \in Nat
<1>1. /\ out # <<>> /\ out' = Tail(out) /\ UNCHANGED <<emitted, mode, sendBuffer, queue>>
      /\ \/ received' = received
         \/ Head(out).type = "EVENT" /\ received' = Append(received, Head(out).m)
  BY DEF ServerTakes, socketVars, userVars
<1>2. out \in Seq(Packet) /\ received \in Seq(Nat) BY LineTypes
<1>3. /\ EventNumbers(out) # <<>> /\ EventNumbers(Tail(out)) = Tail(EventNumbers(out))
      /\ Head(EventNumbers(out)) = Head(out).m /\ Head(out).m \in Nat
  BY <1>1, <1>2, NumbersTail
<1>4. Append(received, Head(out).m) = received \o <<Head(out).m>> BY <1>2, <1>3, AppendIsConcat
<1> QED BY <1>1, <1>3, <1>4

(* Whatever R relates earlier to later messages, no step but an emission    *)
(* puts them out of it.                                                     *)
LEMMA QueueLine ==
  ASSUME TypeOK, NEW R, Allows(R), Chain(R, received, EventNumbers(out), Rest),
         Retries = 0 => Len(queue) = 0, QueueMove, sendBuffer' \in Seq(Packet)
  PROVE  Chain(R, received', EventNumbers(out'), Rest')
<1>1. PICK b : Thin(b, EventNumbers(queue)) /\ QueueBecomes(b) BY DEF QueueMove
<1>2. Thin(sendBuffer', sendBuffer) /\ received' = received BY DEF QueueMove
<1>3. /\ received \in Seq(Nat) /\ EventNumbers(out) \in Seq(Nat) /\ Rest \in Seq(Nat)
      /\ out \in Seq(Packet) /\ sendBuffer \in Seq(Packet) /\ queue \in Seq(QueueEntry)
  BY LineTypes
<1>4. b \in Seq(Nat) /\ EventNumbers(queue') = b /\ Sends(b) BY <1>1 DEF QueueBecomes
<1>5. Thin(received, received) /\ Thin(EventNumbers(out), EventNumbers(out)) BY ThinEmpty
<1>6. ASSUME NEW p \in Packet, out' = out \o <<p>>
      PROVE  EventNumbers(out') = EventNumbers(out) \o <<p.m>>
  <2>1. p.m \in Nat /\ <<p>> \in Seq(Packet) BY NumberedTypes
  <2>2. EventNumbers(<<p>>) = <<p.m>> BY <2>1, NumbersSingle
  <2> QED BY <1>3, <1>6, <2>1, <2>2, NumberedTypes, NumbersConcat
<1>7. CASE Retries = 0
  <2>1. Len(EventNumbers(queue)) = 0 BY <1>3, <1>7, NumberedTypes, NumbersFacts
  <2>2. b = <<>>
    <3>1. ~(1 \in 1 .. Len(b)) BY <1>1, <2>1 DEF Thin, Part
    <3> QED BY <1>4, <3>1, EmptyLen
  <2>3. out' = out BY <1>4, <2>2 DEF Sends
  <2>4. Thin(EventNumbers(sendBuffer'), EventNumbers(sendBuffer))
    BY <1>2, <1>3, NumberedTypes, NumbersThin
  <2> QED BY <1>2, <1>5, <1>7, <2>3, <2>4, ThinChain DEF Rest
<1>8. CASE Retries # 0
  <2>1. Rest = EventNumbers(queue) /\ Rest' = b BY <1>4, <1>8 DEF Rest
  <2>2. Chain(R, received, EventNumbers(out), b) BY <1>1, <1>5, <2>1, ThinChain
  <2>0. Retries > 0 BY <1>8, RetriesAssumption
  <2>3. \A a \in Nat : <<a, a>> \in R BY <2>0, Zenon DEF Allows
  <2>4. CASE out' = out BY <1>2, <2>1, <2>2, <2>4
  <2>5. ASSUME b # <<>>, NEW p \in Packet, p.m = Head(b), out' = out \o <<p>>
        PROVE  Chain(R, received', EventNumbers(out'), Rest')
    <3>1. EventNumbers(out') = EventNumbers(out) \o <<Head(b)>> BY <1>6, <2>5
    <3>2. Chain(R, received, EventNumbers(out) \o <<Head(b)>>, b)
      BY <1>3, <1>4, <2>2, <2>3, <2>5, ChainSend
    <3> QED BY <1>2, <2>1, <3>1, <3>2
  <2> QED BY <1>4, <2>4, <2>5 DEF Sends
<1> QED BY <1>7, <1>8

LEMMA OtherLine ==
  ASSUME TypeOK, NEW R, Allows(R), Chain(R, received, EventNumbers(out), Rest),
         out' \in Seq(Packet), FlushMove \/ ServerTakes \/ HushedMove
  PROVE  Chain(R, received', EventNumbers(out'), Rest')
<1>1. /\ received \in Seq(Nat) /\ EventNumbers(out) \in Seq(Nat) /\ Rest \in Seq(Nat)
      /\ out \in Seq(Packet) /\ sendBuffer \in Seq(Packet)
      /\ EventNumbers(sendBuffer) \in Seq(Nat)
  BY LineTypes
<1>2. Thin(received, received) /\ Thin(EventNumbers(out), EventNumbers(out)) /\ Thin(Rest, Rest)
      /\ Thin(<<>>, Rest)
  BY ThinEmpty
<1>3. CASE HushedMove
  <2>1. UNCHANGED <<received, Rest>> BY <1>3 DEF HushedMove, Rest
  <2>2. ASSUME Thin(out', out), out' \in Seq(Packet)
        PROVE  Chain(R, received, EventNumbers(out'), Rest)
    <3>1. Thin(EventNumbers(out'), EventNumbers(out)) BY <1>1, <2>2, NumberedTypes, NumbersThin
    <3> QED BY <1>2, <3>1, ThinChain
  <2>3. ASSUME NEW p \in Packet, p.m = 0, Write(<<p>>)
        PROVE  Chain(R, received, EventNumbers(out'), Rest)
    <3>1. <<p>> \in Seq(Packet) /\ EventNumbers(<<p>>) = <<0>> BY <2>3, NumbersSingle
    <3>2. EventNumbers(out') \in {EventNumbers(out), EventNumbers(out) \o <<0>>}
      BY <2>3, <3>1, WriteNumbers
    <3> DEFINE z == <<0>>
    <3>3. z \in Seq(Nat) /\ Len(z) = 1 /\ z[1] = 0 OBVIOUS
    <3> HIDE DEF z
    <3>4. \A i \in 1 .. Len(z) : Free(R, z[i]) BY <3>3 DEF Allows
    <3>5. Chain(R, received, EventNumbers(out) \o z, Rest) BY <1>1, <3>3, <3>4, ChainFree
    <3> QED BY <3>2, <3>5 DEF z
  <2> QED BY <1>3, <2>1, <2>2, <2>3 DEF HushedMove, Silent
<1>4. CASE FlushMove
  <2>1. received' = received /\ Write(sendBuffer) /\ sendBuffer' = <<>> /\ queue' = queue
    BY <1>4 DEF FlushMove, FlushSendBuffer
  <2>2. EventNumbers(out') \in
          {EventNumbers(out), EventNumbers(out) \o EventNumbers(sendBuffer)}
    BY <1>1, <2>1, WriteNumbers
  <2>3. CASE Retries = 0
    <3>1. Rest = EventNumbers(sendBuffer) /\ Rest' = <<>>
      BY <2>1, <2>3, NumbersEmpty DEF Rest
    <3>2. Chain(R, received, EventNumbers(out), <<>>) BY <1>2, ThinChain
    <3>3. Chain(R, received, EventNumbers(out) \o EventNumbers(sendBuffer), <<>>)
      BY <1>1, <3>1, ChainFlush
    <3> QED BY <2>1, <2>2, <3>1, <3>2, <3>3
  <2>4. CASE Retries # 0
    <3>1. Rest' = Rest BY <2>1, <2>4 DEF Rest
    <3>2. Retries > 0 BY <2>4, RetriesAssumption
    <3>3. \A i \in 1 .. Len(sendBuffer) : Free(R, sendBuffer[i].m) BY <3>2, Zenon DEF Allows
    <3>4. \A i \in 1 .. Len(EventNumbers(sendBuffer)) : Free(R, EventNumbers(sendBuffer)[i])
      <4>1. /\ Len(EventNumbers(sendBuffer)) = Len(sendBuffer)
            /\ \A i \in 1 .. Len(sendBuffer) : EventNumbers(sendBuffer)[i] = sendBuffer[i].m
        BY <1>1, NumberedTypes, NumbersFacts
      <4> QED BY <3>3, <4>1
    <3>5. Chain(R, received, EventNumbers(out) \o EventNumbers(sendBuffer), Rest)
      BY <1>1, <3>4, ChainFree
    <3> QED BY <2>1, <2>2, <3>1, <3>5
  <2> QED BY <2>3, <2>4
<1>5. CASE ServerTakes
  <2> DEFINE o == EventNumbers(out)
  <2>1. /\ UNCHANGED Rest /\ EventNumbers(out') = Tail(o) /\ o # <<>>
        /\ received' = received \/ received' = received \o <<Head(o)>>
    BY <1>5, ServerTakesMoves DEF Rest
  <2> HIDE DEF o
  <2>2. Thin(Tail(o), o) BY <1>1, <2>1, ThinTail DEF o
  <2>3. Chain(R, received, Tail(o), Rest) BY <1>2, <2>2, ThinChain DEF o
  <2>4. Chain(R, received \o <<Head(o)>>, Tail(o), Rest) BY <1>1, <2>1, ChainTake DEF o
  <2> QED BY <2>1, <2>3, <2>4
<1> QED BY <1>3, <1>4, <1>5

(* A new message goes to its place, if R admits it after all the others and *)
(* one that is not plain before those that still wait.                      *)
LEMMA EmitLine ==
  ASSUME TypeOK, sendBuffer' \in Seq(Packet), NEW R, NEW x, EmitMove(x),
         Chain(R, received, EventNumbers(out), Rest),
         Retries = 0 => Len(queue) = 0,
         Retries > 0 => \A a \in Nat : <<a, a>> \in R,
         Before(R, received, <<x>>), Before(R, EventNumbers(out), <<x>>), Before(R, Rest, <<x>>),
         mode'[x] # "plain" => Before(R, <<x>>, Rest)
  PROVE  Chain(R, received', EventNumbers(out'), Rest')
<1>1. /\ received \in Seq(Nat) /\ EventNumbers(out) \in Seq(Nat) /\ Rest \in Seq(Nat)
      /\ out \in Seq(Packet) /\ sendBuffer \in Seq(Packet)
  BY LineTypes
<1>2. x \in Nat /\ received' = received BY DEF EmitMove, Messages
<1>3. ASSUME NEW p \in Packet, NEW s \in Seq(Packet)
      PROVE  EventNumbers(s \o <<p>>) = EventNumbers(s) \o <<p.m>>
  <2>1. p.m \in Nat /\ <<p>> \in Seq(Packet) BY NumberedTypes
  <2>2. EventNumbers(<<p>>) = <<p.m>> BY <2>1, NumbersSingle
  <2> QED BY <2>1, <2>2, NumberedTypes, NumbersConcat
<1>4. CASE BufferMove(x)
  <2>1. PICK p \in Packet : p.m = x /\ sendBuffer' = Append(sendBuffer, p)
    BY <1>4 DEF BufferMove, MessageOf
  <2>2. sendBuffer' = sendBuffer \o <<p>> BY <1>1, <2>1, AppendIsConcat
  <2>3. EventNumbers(sendBuffer') = EventNumbers(sendBuffer) \o <<x>> BY <1>1, <1>3, <2>1, <2>2
  <2>4. UNCHANGED <<out, queue>> BY <1>4 DEF BufferMove
  <2>5. Chain(R, received, EventNumbers(out), Rest \o <<x>>) BY <1>1, <1>2, ChainEnd
  <2>6. Rest' \in {Rest, Rest \o <<x>>} BY <2>3, <2>4 DEF Rest
  <2> QED BY <1>2, <2>4, <2>5, <2>6
<1>5. CASE WriteMove(x)
  <2>1. Rest' = Rest BY <1>5 DEF WriteMove, Rest
  <2>2. Before(R, <<x>>, Rest)
    <3>1. CASE mode'[x] # "plain" BY <3>1
    <3>2. CASE mode'[x] = "plain"
      <4>1. Retries = 0 /\ Len(sendBuffer) = 0 BY <1>5, <3>2 DEF WriteMove
      <4>2. Len(Rest) = 0 BY <1>1, <4>1, NumberedTypes, NumbersFacts DEF Rest
      <4> QED BY <4>2 DEF Before
    <3> QED BY <3>1, <3>2
  <2>3. Chain(R, received, EventNumbers(out) \o <<x>>, Rest) BY <1>1, <1>2, <2>2, ChainEnd
  <2>4. CASE out' = out BY <1>2, <2>1, <2>4
  <2>5. ASSUME NEW p \in Packet, p.m = x, out' = out \o <<p>>
        PROVE  Chain(R, received', EventNumbers(out'), Rest')
    <3>1. EventNumbers(out') = EventNumbers(out) \o <<x>> BY <1>1, <1>3, <2>5
    <3> QED BY <1>2, <2>1, <2>3, <3>1
  <2> QED BY <1>5, <2>4, <2>5 DEF WriteMove, MessageOf
<1>6. CASE AddMove(x)
  <2> DEFINE b == EventNumbers(queue) \o <<x>>
  <2>1. b \in Seq(Nat) /\ EventNumbers(queue') = b /\ Sends(b) /\ Retries > 0
    BY <1>6 DEF AddMove, QueueBecomes
  <2>2. Rest = EventNumbers(queue) /\ Rest' = b /\ \A a \in Nat : <<a, a>> \in R
    BY <2>1 DEF Rest
  <2>3. Chain(R, received, EventNumbers(out), Rest \o <<x>>) BY <1>1, <1>2, ChainEnd
  <2>4. Chain(R, received, EventNumbers(out), b) BY <2>2, <2>3
  <2> HIDE DEF b
  <2>5. CASE out' = out BY <1>2, <2>2, <2>4, <2>5
  <2>6. ASSUME b # <<>>, NEW p \in Packet, p.m = Head(b), out' = out \o <<p>>
        PROVE  Chain(R, received', EventNumbers(out'), Rest')
    <3>1. EventNumbers(out') = EventNumbers(out) \o <<Head(b)>> BY <1>1, <1>3, <2>6
    <3>2. Chain(R, received, EventNumbers(out) \o <<Head(b)>>, b)
      BY <1>1, <2>1, <2>2, <2>4, <2>6, ChainSend
    <3> QED BY <1>2, <2>2, <3>1, <3>2
  <2> QED BY <2>1, <2>5, <2>6 DEF Sends
<1> QED BY <1>4, <1>5, <1>6 DEF EmitMove

(* Numbers of messages, of packets and of what has been received.           *)
Known(s, n) == \A i \in 1 .. Len(s) : s[i] \in 0 .. n

LEMMA FitsConcat ==
  ASSUME NEW s \in Seq(Packet), NEW t \in Seq(Packet), NEW n, Fits(s, n), Fits(t, n)
  PROVE  Fits(s \o t, n)
<1> DEFINE c == s \o t
<1>1. /\ Len(c) = Len(s) + Len(t)
      /\ \A i \in 1 .. Len(s) + Len(t) :
            \/ i \in 1 .. Len(s) /\ c[i] = s[i]
            \/ i - Len(s) \in 1 .. Len(t) /\ c[i] = t[i - Len(s)]
  BY ConcatElements
<1> HIDE DEF c
<1>2. ASSUME NEW i \in 1 .. Len(c)
      PROVE  IF c[i].type = "EVENT" THEN c[i].m \in 1 .. n ELSE c[i].m = 0
  <2>1. CASE i \in 1 .. Len(s) /\ c[i] = s[i] BY <2>1 DEF Fits
  <2>2. CASE i - Len(s) \in 1 .. Len(t) /\ c[i] = t[i - Len(s)] BY <2>2 DEF Fits
  <2> QED BY <1>1, <2>1, <2>2
<1>3. Fits(c, n) BY <1>2 DEF Fits
<1> QED BY <1>3 DEF c

LEMMA FitsOne ==
  ASSUME NEW p \in Packet, NEW n, IF p.type = "EVENT" THEN p.m \in 1 .. n ELSE p.m = 0
  PROVE  <<p>> \in Seq(Packet) /\ Fits(<<p>>, n)
<1> DEFINE s == <<p>>
<1>1. Len(s) = 1 /\ s[1] = p /\ s \in Seq(Packet) OBVIOUS
<1> HIDE DEF s
<1>2. Fits(s, n) BY <1>1 DEF Fits
<1> QED BY <1>1, <1>2 DEF s

LEMMA FitsPart ==
  ASSUME NEW r, NEW s, NEW n, Part(r, s), Fits(s, n)
  PROVE  Fits(r, n)
<1>1. ASSUME NEW i \in 1 .. Len(r)
      PROVE  IF r[i].type = "EVENT" THEN r[i].m \in 1 .. n ELSE r[i].m = 0
  <2>1. PICK j \in 1 .. Len(s) : r[i] = s[j] BY DEF Part
  <2> QED BY <2>1 DEF Fits
<1> QED BY <1>1 DEF Fits

LEMMA FitsMore ==
  ASSUME NEW s, NEW n \in Nat, NEW k \in Nat, n <= k, Fits(s, n)
  PROVE  Fits(s, k)
<1>1. \A a \in 1 .. n : a \in 1 .. k OBVIOUS
<1> QED BY <1>1 DEF Fits

NumbersInv ==
  /\ Fits(out, emitted) /\ Fits(sendBuffer, emitted)
  /\ \A i \in 1 .. Len(received) : received[i] \in 1 .. emitted

LEMMA QueueKnown ==
  ASSUME CallbackInv
  PROVE  \A i \in 1 .. Len(EventNumbers(queue)) : EventNumbers(queue)[i] \in 1 .. emitted
<1>1. queue \in Seq(QueueEntry) /\ emitted \in Nat
  BY BoundsAssumption DEF CallbackInv, TypeOK, QueueTypeOK, HistoryTypeOK
<1>2. /\ Len(EventNumbers(queue)) = Len(queue)
      /\ \A i \in 1 .. Len(queue) : EventNumbers(queue)[i] = queue[i].m
  BY <1>1, NumberedTypes, NumbersFacts
<1>3. \A i \in 1 .. Len(queue) : queue[i].m <= emitted /\ queue[i].m \in Messages
  <2>1. \A i \in 1 .. Len(queue) : queue[i] \in QueueEntry BY <1>1, ElementOfSeq
  <2> QED BY <2>1, NumberedTypes DEF CallbackInv, QueueOK
<1> QED BY <1>1, <1>2, <1>3 DEF Messages

LEMMA SendsFits ==
  ASSUME TypeOK, NEW n, Fits(out, n), NEW b \in Seq(Nat), Sends(b),
         \A i \in 1 .. Len(b) : b[i] \in 1 .. n
  PROVE  Fits(out', n)
<1>1. out \in Seq(Packet) BY LineTypes
<1>2. ASSUME b # <<>>, NEW p \in Packet, p.type = "EVENT", p.m = Head(b), out' = out \o <<p>>
      PROVE  Fits(out', n)
  <2>1. PICK y \in Nat : y = Head(b) BY <1>2, HeadTailProperties
  <2>2. Head(b) = b[1] /\ 1 \in 1 .. Len(b) BY <1>2, <2>1, HeadTailFacts
  <2>3. p.m \in 1 .. n BY <1>2, <2>2
  <2> QED BY <1>1, <1>2, <2>3, FitsOne, FitsConcat
<1> QED BY <1>2 DEF Sends

LEMMA AppendKnown ==
  ASSUME NEW s \in Seq(Nat), NEW x \in Nat, NEW T, x \in T, \A i \in 1 .. Len(s) : s[i] \in T
  PROVE  \A i \in 1 .. Len(s \o <<x>>) : (s \o <<x>>)[i] \in T
<1> DEFINE t == <<x>>
           c == s \o t
<1>1. t \in Seq(Nat) /\ Len(t) = 1 /\ t[1] = x OBVIOUS
<1> HIDE DEF t
<1>2. /\ Len(s) \in Nat /\ Len(c) = Len(s) + Len(t)
      /\ \A i \in 1 .. Len(s) + Len(t) :
            \/ i \in 1 .. Len(s) /\ c[i] = s[i]
            \/ i - Len(s) \in 1 .. Len(t) /\ c[i] = t[i - Len(s)]
  BY <1>1, ConcatElements
<1> HIDE DEF c
<1>3. \A i \in 1 .. Len(c) : c[i] \in T BY SMTT(40), <1>1, <1>2
<1> QED BY <1>3 DEF c, t

LEMMA NumbersKept ==
  ASSUME CallbackInv, TypeOK', NumbersInv,
         EmitMove(emitted + 1) \/ QueueMove \/ FlushMove \/ ServerTakes \/ HushedMove
  PROVE  NumbersInv'
<1>0. /\ TypeOK /\ out \in Seq(Packet) /\ sendBuffer \in Seq(Packet) /\ received \in Seq(Nat)
      /\ emitted \in Nat /\ emitted + 1 \in Nat
      /\ EventNumbers(queue) \in Seq(Nat)
      /\ \A i \in 1 .. Len(EventNumbers(queue)) : EventNumbers(queue)[i] \in 1 .. emitted
  BY SMTT(40), LineTypes, QueueKnown, BoundsAssumption DEF CallbackInv, TypeOK, HistoryTypeOK
<1>1. CASE EmitMove(emitted + 1)
  <2> DEFINE x == emitted + 1
  <2>1. /\ emitted' = x /\ received' = received
        /\ BufferMove(x) \/ WriteMove(x) \/ AddMove(x)
    BY <1>1 DEF EmitMove
  <2>2. x \in Nat /\ x \in 1 .. x /\ \A i \in 1 .. emitted : i \in 1 .. x BY <1>0
  <2>3. Fits(out, x) /\ Fits(sendBuffer, x) BY <1>0, FitsMore DEF NumbersInv
  <2> HIDE DEF x
  <2>4. ASSUME NEW p, MessageOf(p, x) PROVE <<p>> \in Seq(Packet) /\ Fits(<<p>>, x)
    BY <2>2, <2>4, FitsOne DEF MessageOf
  <2>5. CASE BufferMove(x)
    <3>1. PICK p : MessageOf(p, x) /\ sendBuffer' = Append(sendBuffer, p)
      BY <2>5 DEF BufferMove
    <3>2. sendBuffer' = sendBuffer \o <<p>> BY <1>0, <3>1, AppendIsConcat DEF MessageOf
    <3>3. Fits(sendBuffer', x) BY <1>0, <2>3, <2>4, <3>1, <3>2, FitsConcat
    <3>4. out' = out BY <2>5 DEF BufferMove
    <3> QED BY <2>1, <2>2, <2>3, <3>3, <3>4 DEF NumbersInv
  <2>6. CASE WriteMove(x)
    <3>1. ASSUME NEW p, MessageOf(p, x), out' = out \o <<p>> PROVE Fits(out', x)
      BY <1>0, <2>3, <2>4, <3>1, FitsConcat
    <3>2. Fits(out', x) /\ sendBuffer' = sendBuffer BY <2>3, <2>6, <3>1 DEF WriteMove
    <3> QED BY <2>1, <2>2, <2>3, <3>2 DEF NumbersInv
  <2>7. CASE AddMove(x)
    <3> DEFINE b == EventNumbers(queue) \o <<x>>
    <3>1. b \in Seq(Nat) /\ Sends(b) /\ sendBuffer' = sendBuffer
      BY <2>7 DEF AddMove, QueueBecomes
    <3>2. \A i \in 1 .. Len(b) : b[i] \in 1 .. x BY <1>0, <2>2, AppendKnown
    <3> HIDE DEF b
    <3>3. Fits(out', x) BY <1>0, <2>3, <3>1, <3>2, SendsFits
    <3> QED BY <2>1, <2>2, <2>3, <3>1, <3>3 DEF NumbersInv
  <2> QED BY <2>1, <2>5, <2>6, <2>7
<1>2. CASE QueueMove
  <2>1. UNCHANGED <<received, emitted>> /\ Fits(sendBuffer', emitted)
    BY <1>2, FitsPart DEF QueueMove, NumbersInv
  <2>2. PICK b \in Seq(Nat) : Thin(b, EventNumbers(queue)) /\ Sends(b)
    BY <1>2 DEF QueueMove, QueueBecomes
  <2>3. \A i \in 1 .. Len(b) : b[i] \in 1 .. emitted
    <3>1. \A i \in 1 .. Len(b) : \E j \in 1 .. Len(EventNumbers(queue)) : b[i] = EventNumbers(queue)[j]
      BY <2>2 DEF Thin, Part
    <3> QED BY <1>0, <3>1
  <2>4. Fits(out', emitted) BY <1>0, <2>2, <2>3, SendsFits DEF NumbersInv
  <2> QED BY <2>1, <2>4 DEF NumbersInv
<1>3. CASE FlushMove
  <2>1. /\ UNCHANGED <<received, emitted>> /\ out' \in {out, out \o sendBuffer}
        /\ sendBuffer' = <<>>
    BY <1>3 DEF FlushMove, FlushSendBuffer, Write
  <2>2. Fits(out', emitted) BY <1>0, <2>1, FitsConcat DEF NumbersInv
  <2>3. Fits(sendBuffer', emitted) BY <2>1, PartFacts, FitsPart DEF NumbersInv
  <2> QED BY <2>1, <2>2, <2>3 DEF NumbersInv
<1>4. CASE ServerTakes
  <2>1. /\ out # <<>> /\ out' = Tail(out) /\ UNCHANGED <<emitted, sendBuffer>>
        /\ \/ received' = received
           \/ Head(out).type = "EVENT" /\ received' = received \o <<Head(out).m>>
        /\ Head(out).m \in Nat
    BY <1>0, <1>4, ServerTakesMoves
  <2>2. Part(Tail(out), out) /\ \E j \in 1 .. Len(out) : Head(out) = out[j]
    BY <1>0, <2>1, TailPart
  <2>3. Fits(out', emitted) BY <2>1, <2>2, FitsPart DEF NumbersInv
  <2>4. Head(out).type = "EVENT" => Head(out).m \in 1 .. emitted BY <2>2 DEF NumbersInv, Fits
  <2>5. \A i \in 1 .. Len(received') : received'[i] \in 1 .. emitted
    <3>1. CASE received' = received BY <3>1 DEF NumbersInv
    <3>2. CASE Head(out).type = "EVENT" /\ received' = received \o <<Head(out).m>>
      BY <1>0, <2>1, <2>4, <3>2, AppendKnown DEF NumbersInv
    <3> QED BY <2>1, <3>1, <3>2
  <2> QED BY <2>1, <2>3, <2>5 DEF NumbersInv
<1>5. CASE HushedMove
  <2>1. UNCHANGED <<received, emitted, sendBuffer>> BY <1>5 DEF HushedMove
  <2>2. CASE Thin(out', out)
    <3>1. Fits(out', emitted) BY <2>2, FitsPart DEF Thin, NumbersInv
    <3> QED BY <2>1, <3>1 DEF NumbersInv
  <2>3. ASSUME NEW p, Silent(p), Write(<<p>>) PROVE NumbersInv'
    <3>1. <<p>> \in Seq(Packet) /\ Fits(<<p>>, emitted) BY <2>3, FitsOne DEF Silent
    <3>2. Fits(out', emitted) BY <1>0, <2>3, <3>1, FitsConcat DEF Write, NumbersInv
    <3> QED BY <2>1, <3>2 DEF NumbersInv
  <2> QED BY <1>5, <2>2, <2>3 DEF HushedMove
<1> QED BY <1>1, <1>2, <1>3, <1>4, <1>5

(* The two relations.  Plain messages are in the order of emission, again   *)
(* and again the same when they are retried; without retries the messages   *)
(* are apart from each other.                                               *)
Plain(f, n) == n \in Messages /\ f[n] = "plain"
Ordered(f)  == {p \in Nat \X Nat : Plain(f, p[1]) /\ Plain(f, p[2]) => p[1] <= p[2]}
Apart       == {p \in Nat \X Nat : p[1] = p[2] => p[1] = 0}

LEMMA RelationFacts ==
  /\ \A f : \A a, b \in Nat : <<a, b>> \in Ordered(f) <=> (Plain(f, a) /\ Plain(f, b) => a <= b)
  /\ \A a, b \in Nat : <<a, b>> \in Apart <=> (a = b => a = 0)
BY DEF Ordered, Apart

LEMMA FreeFacts ==
  /\ \A f : \A n \in Nat : ~Plain(f, n) => Free(Ordered(f), n)
  /\ \A f : \A n \in Nat : <<n, n>> \in Ordered(f)
  /\ \A f : Free(Ordered(f), 0)
  /\ Free(Apart, 0)
<1>1. \A f : ~Plain(f, 0) BY DEF Plain, Messages
<1>2. \A f : \A n \in Nat : ~Plain(f, n) => Free(Ordered(f), n)
  BY RelationFacts DEF Free
<1>3. \A f : \A n \in Nat : <<n, n>> \in Ordered(f) BY RelationFacts
<1>4. Free(Apart, 0) BY RelationFacts DEF Free
<1> QED BY <1>1, <1>2, <1>3, <1>4

LEMMA ChainRelation ==
  ASSUME NEW R, NEW Q, NEW r, NEW o, NEW b, NEW n, Chain(R, r, o, b),
         Known(r, n), Known(o, n), Known(b, n),
         \A x, y \in 0 .. n : <<x, y>> \in R => <<x, y>> \in Q
  PROVE  Chain(Q, r, o, b)
<1>1. ASSUME NEW s, Known(s, n), Sorted(R, s) PROVE Sorted(Q, s)
  BY <1>1 DEF Known, Sorted
<1>2. ASSUME NEW s, NEW t, Known(s, n), Known(t, n), Before(R, s, t) PROVE Before(Q, s, t)
  BY <1>2 DEF Known, Before
<1> QED BY <1>1, <1>2 DEF Chain

LineInv ==
  /\ BufferInv /\ NumbersInv
  /\ Retries = 0 => Len(queue) = 0
  /\ Retries > 0 => \A i \in 1 .. Len(sendBuffer) : ~Plain(mode, sendBuffer[i].m)
  /\ Chain(Ordered(mode), received, EventNumbers(out), Rest)
  /\ Retries = 0 => Chain(Apart, received, EventNumbers(out), Rest)
  /\ Sorted(Apart, EventNumbers(sendBuffer))

LEMMA LineKnown ==
  ASSUME CallbackInv, NumbersInv
  PROVE  /\ emitted \in Nat
         /\ Known(received, emitted) /\ Known(EventNumbers(out), emitted)
         /\ Known(EventNumbers(sendBuffer), emitted) /\ Known(Rest, emitted)
<1>1. emitted \in Nat /\ out \in Seq(Packet) /\ sendBuffer \in Seq(Packet)
  BY LineTypes, BoundsAssumption DEF CallbackInv, TypeOK, HistoryTypeOK
<1>2. ASSUME NEW s \in Seq(Packet), Fits(s, emitted) PROVE Known(EventNumbers(s), emitted)
  <2>1. /\ Len(EventNumbers(s)) = Len(s)
        /\ \A i \in 1 .. Len(s) : EventNumbers(s)[i] = s[i].m
    BY NumberedTypes, NumbersFacts
  <2>2. \A i \in 1 .. Len(s) : s[i].m \in 0 .. emitted BY <1>1, <1>2 DEF Fits
  <2> QED BY <2>1, <2>2 DEF Known
<1>3. Known(received, emitted) BY <1>1 DEF Known, NumbersInv
<1>4. Known(EventNumbers(queue), emitted) BY <1>1, QueueKnown DEF Known
<1> QED BY <1>1, <1>2, <1>3, <1>4 DEF NumbersInv, Rest

LEMMA KnownBefore ==
  ASSUME NEW R, NEW s, NEW n, NEW x, Known(s, n)
  PROVE  /\ (\A a \in 0 .. n : <<a, x>> \in R) => Before(R, s, <<x>>)
         /\ (\A a \in 0 .. n : <<x, a>> \in R) => Before(R, <<x>>, s)
<1>1. \A i \in 1 .. Len(s) : s[i] \in 0 .. n BY DEF Known
<1> QED BY <1>1, SingleBefore

(* The queue stays empty without retries, and plain messages out of the     *)
(* buffer with them.                                                        *)
LEMMA PlacesKept ==
  ASSUME LineInv, TypeOK',
         EmitMove(emitted + 1) \/ QueueMove \/ FlushMove \/ ServerTakes \/ HushedMove
  PROVE  /\ Retries = 0 => Len(queue') = 0
         /\ Retries > 0 => \A i \in 1 .. Len(sendBuffer') : ~Plain(mode', sendBuffer'[i].m)
<1>0. /\ CallbackInv /\ TypeOK /\ queue \in Seq(QueueEntry) /\ sendBuffer \in Seq(Packet)
      /\ emitted \in Nat /\ NumbersInv
  BY LineTypes, LineKnown DEF LineInv, BufferInv, WireInv, QueueInv, CallbackInv
<1>1. queue' \in Seq(QueueEntry) BY DEF TypeOK, QueueTypeOK
<1>2. /\ Len(EventNumbers(queue)) = Len(queue) /\ Len(EventNumbers(queue')) = Len(queue')
      /\ Len(queue') \in Nat
  BY <1>0, <1>1, NumberedTypes, NumbersFacts, LenProperties
<1>3. ASSUME UNCHANGED queue PROVE Retries = 0 => Len(queue') = 0 BY <1>3 DEF LineInv
<1>4. ASSUME UNCHANGED mode, Part(sendBuffer', sendBuffer)
      PROVE  Retries > 0 => \A i \in 1 .. Len(sendBuffer') : ~Plain(mode', sendBuffer'[i].m)
  <2>1. \A i \in 1 .. Len(sendBuffer') : \E j \in 1 .. Len(sendBuffer) : sendBuffer'[i] = sendBuffer[j]
    BY <1>4 DEF Part
  <2> QED BY <1>4, <2>1 DEF LineInv
<1>5. CASE EmitMove(emitted + 1)
  <2> DEFINE x == emitted + 1
  <2>1. /\ x \in Messages /\ x \in Nat /\ \A n \in Messages : n # x => mode'[n] = mode[n]
        /\ BufferMove(x) \/ WriteMove(x) \/ AddMove(x)
    BY <1>0, <1>5 DEF EmitMove
  <2>2. \A i \in 1 .. Len(sendBuffer) : sendBuffer[i].m # x
    <3>1. \A i \in 1 .. Len(sendBuffer) : sendBuffer[i].m \in 0 .. emitted
      BY <1>0 DEF NumbersInv, Fits
    <3> QED BY <1>0, <3>1
  <2> HIDE DEF x
  <2>3. ASSUME Retries > 0, NEW i \in 1 .. Len(sendBuffer) PROVE ~Plain(mode', sendBuffer[i].m)
    <3>1. ~Plain(mode, sendBuffer[i].m) BY <2>3 DEF LineInv
    <3> QED BY <2>1, <2>2, <3>1 DEF Plain
  <2>4. CASE BufferMove(x)
    <3>1. PICK p \in Packet : p.m = x /\ sendBuffer' = Append(sendBuffer, p)
      BY <2>4 DEF BufferMove, MessageOf
    <3>2. /\ Len(sendBuffer') = Len(sendBuffer) + 1 /\ Len(sendBuffer) \in Nat
          /\ sendBuffer'[Len(sendBuffer) + 1] = p
          /\ \A i \in 1 .. Len(sendBuffer) : sendBuffer'[i] = sendBuffer[i]
      BY <1>0, <3>1, AppendProperties, LenProperties
    <3>3. Retries > 0 => ~Plain(mode', x) BY <2>4 DEF BufferMove, Plain
    <3>4. ASSUME Retries > 0, NEW i \in 1 .. Len(sendBuffer')
          PROVE  ~Plain(mode', sendBuffer'[i].m)
      <4>1. CASE i \in 1 .. Len(sendBuffer) BY <2>3, <3>2, <3>4, <4>1
      <4>2. CASE i = Len(sendBuffer) + 1 BY <3>1, <3>2, <3>3, <3>4, <4>2
      <4> QED BY <3>2, <4>1, <4>2
    <3> QED BY <1>3, <2>4, <3>4 DEF BufferMove
  <2>5. CASE WriteMove(x) BY <1>3, <2>3, <2>5 DEF WriteMove
  <2>6. CASE AddMove(x) BY <2>3, <2>6 DEF AddMove
  <2> QED BY <2>1, <2>4, <2>5, <2>6
<1>6. CASE QueueMove
  <2>1. \E b : Thin(b, EventNumbers(queue)) /\ b \in Seq(Nat) /\ EventNumbers(queue') = b
    BY <1>6 DEF QueueMove, QueueBecomes
  <2>2. Part(EventNumbers(queue'), EventNumbers(queue)) BY <2>1 DEF Thin
  <2>3. Len(queue) = 0 => Len(queue') = 0
    <3>1. Len(queue) = 0 => ~(1 \in 1 .. Len(queue')) BY <1>2, <2>2 DEF Part
    <3> QED BY <1>2, <3>1
  <2> QED BY <1>4, <1>6, <2>3 DEF QueueMove, LineInv
<1>7. CASE FlushMove \/ HushedMove \/ ServerTakes
  <2>1. UNCHANGED <<queue, mode>> /\ sendBuffer' \in {sendBuffer, <<>>}
    BY <1>0, <1>7, ServerTakesMoves DEF FlushMove, FlushSendBuffer, HushedMove
  <2> QED BY <1>3, <1>4, <2>1, PartFacts
<1> QED BY <1>5, <1>6, <1>7

LEMMA ApartKept ==
  ASSUME LineInv, TypeOK',
         EmitMove(emitted + 1) \/ QueueMove \/ FlushMove \/ ServerTakes \/ HushedMove
  PROVE  Sorted(Apart, EventNumbers(sendBuffer'))
<1>0. /\ TypeOK /\ sendBuffer \in Seq(Packet) /\ sendBuffer' \in Seq(Packet)
      /\ Sorted(Apart, EventNumbers(sendBuffer)) /\ EventNumbers(sendBuffer) \in Seq(Nat)
      /\ emitted \in Nat /\ Known(EventNumbers(sendBuffer), emitted)
  BY LineTypes, LineKnown
     DEF LineInv, BufferInv, WireInv, QueueInv, CallbackInv, TypeOK, SocketTypeOK
<1>1. ASSUME Thin(sendBuffer', sendBuffer) PROVE Sorted(Apart, EventNumbers(sendBuffer'))
  <2>1. Thin(EventNumbers(sendBuffer'), EventNumbers(sendBuffer))
    BY <1>0, <1>1, NumberedTypes, NumbersThin
  <2> QED BY <1>0, <2>1, ThinKeeps
<1>2. Thin(sendBuffer, sendBuffer) /\ Thin(<<>>, sendBuffer) BY ThinEmpty
<1>3. CASE EmitMove(emitted + 1)
  <2> DEFINE x == emitted + 1
  <2>1. x \in Nat /\ \A a \in 0 .. emitted : a # x BY <1>0
  <2>2. \A a \in 0 .. emitted : <<a, x>> \in Apart
    <3>1. \A a \in 0 .. emitted : a \in Nat BY <1>0
    <3> QED BY <2>1, <3>1, RelationFacts
  <2>3. BufferMove(x) \/ sendBuffer' = sendBuffer
    BY <1>3 DEF EmitMove, WriteMove, AddMove
  <2> HIDE DEF x
  <2>4. CASE BufferMove(x)
    <3>1. PICK p \in Packet : p.m = x /\ sendBuffer' = Append(sendBuffer, p)
      BY <2>4 DEF BufferMove, MessageOf
    <3>2. sendBuffer' = sendBuffer \o <<p>> /\ <<p>> \in Seq(Packet)
      BY <1>0, <3>1, AppendIsConcat
    <3>3. EventNumbers(sendBuffer \o <<p>>) = EventNumbers(sendBuffer) \o EventNumbers(<<p>>)
      BY <1>0, <3>2, NumberedTypes, NumbersConcat
    <3>4. EventNumbers(<<p>>) = <<x>> BY <2>1, <3>1, NumbersSingle
    <3>5. Before(Apart, EventNumbers(sendBuffer), <<x>>) /\ Sorted(Apart, <<x>>)
      BY <1>0, <2>2, KnownBefore, SingleBefore
    <3>6. <<x>> \in Seq(Nat) BY <2>1
    <3>7. Sorted(Apart, EventNumbers(sendBuffer) \o <<x>>) BY <1>0, <3>5, <3>6, SortedConcat
    <3> QED BY <3>2, <3>3, <3>4, <3>7
  <2> QED BY <1>1, <1>2, <2>3, <2>4
<1>4. CASE QueueMove BY <1>1, <1>4 DEF QueueMove
<1>5. CASE FlushMove BY <1>1, <1>2, <1>5 DEF FlushMove, FlushSendBuffer
<1>6. CASE ServerTakes BY <1>0, <1>1, <1>2, <1>6, ServerTakesMoves
<1>7. CASE HushedMove BY <1>1, <1>2, <1>7 DEF HushedMove
<1> QED BY <1>3, <1>4, <1>5, <1>6, <1>7

(* An emission keeps the line in both relations.                            *)
LEMMA EmitLines ==
  ASSUME LineInv, TypeOK', EmitMove(emitted + 1)
  PROVE  /\ Chain(Ordered(mode'), received', EventNumbers(out'), Rest')
         /\ Retries = 0 => Chain(Apart, received', EventNumbers(out'), Rest')
<1> DEFINE x == emitted + 1
<1>1. /\ TypeOK /\ emitted \in Nat /\ sendBuffer' \in Seq(Packet) /\ Retries \in Nat
      /\ Known(received, emitted) /\ Known(EventNumbers(out), emitted) /\ Known(Rest, emitted)
  BY LineTypes, LineKnown
     DEF LineInv, BufferInv, WireInv, QueueInv, CallbackInv, TypeOK, SocketTypeOK
<1>2. /\ EmitMove(x) /\ x \in Nat
      /\ Retries = 0 => Len(queue) = 0
      /\ \A n \in Messages : n # x => mode'[n] = mode[n]
  BY <1>1 DEF EmitMove, LineInv
<1>3. \A a \in 0 .. emitted : a \in Nat /\ a < x BY <1>1
<1> HIDE DEF x
<1>4. Chain(Ordered(mode'), received', EventNumbers(out'), Rest')
  <2> DEFINE R == Ordered(mode')
  <2>1. \A a, b \in 0 .. emitted : <<a, b>> \in Ordered(mode) => <<a, b>> \in R
    <3>1. \A a \in 0 .. emitted : Plain(mode', a) => Plain(mode, a)
      BY <1>2, <1>3 DEF Plain
    <3> QED BY <1>3, <3>1, RelationFacts
  <2>2. Chain(Ordered(mode), received, EventNumbers(out), Rest) BY DEF LineInv
  <2>3. ASSUME NEW a \in 0 .. emitted PROVE <<a, x>> \in R
    <3>1. a \in Nat /\ x \in Nat /\ a <= x BY <1>2, <1>3
    <3> QED BY <3>1, RelationFacts
  <2>4. mode'[x] # "plain" => \A a \in 0 .. emitted : <<x, a>> \in R
    <3>1. mode'[x] # "plain" => ~Plain(mode', x) BY DEF Plain
    <3>2. ASSUME ~Plain(mode', x), NEW a \in 0 .. emitted PROVE <<x, a>> \in R
      <4>1. a \in Nat /\ x \in Nat BY <1>2, <1>3
      <4> QED BY <3>2, <4>1, RelationFacts
    <3> QED BY <3>1, <3>2
  <2>5. \A a \in Nat : <<a, a>> \in R BY FreeFacts
  <2> HIDE DEF R
  <2>6. Chain(R, received, EventNumbers(out), Rest) BY <1>1, <2>1, <2>2, ChainRelation
  <2>7. /\ Before(R, received, <<x>>) /\ Before(R, EventNumbers(out), <<x>>)
        /\ Before(R, Rest, <<x>>)
    BY <1>1, <2>3, KnownBefore
  <2>8. mode'[x] # "plain" => Before(R, <<x>>, Rest) BY <1>1, <2>4, KnownBefore
  <2>9. Chain(R, received', EventNumbers(out'), Rest')
    BY <1>1, <1>2, <2>5, <2>6, <2>7, <2>8, EmitLine
  <2> QED BY <2>9 DEF R
<1>5. ASSUME Retries = 0 PROVE Chain(Apart, received', EventNumbers(out'), Rest')
  <2>1. Chain(Apart, received, EventNumbers(out), Rest) BY <1>5 DEF LineInv
  <2>2. \A a \in 0 .. emitted : <<a, x>> \in Apart /\ <<x, a>> \in Apart
    BY <1>2, <1>3, RelationFacts
  <2>3. /\ Before(Apart, received, <<x>>) /\ Before(Apart, EventNumbers(out), <<x>>)
        /\ Before(Apart, Rest, <<x>>) /\ Before(Apart, <<x>>, Rest)
    BY <1>1, <2>2, KnownBefore
  <2>4. ~(Retries > 0) BY <1>5
  <2> QED BY <1>1, <1>2, <2>1, <2>3, <2>4, EmitLine
<1> QED BY <1>4, <1>5

LEMMA LineKept == ASSUME LineInv, [Next]_vars PROVE LineInv'
<1>1. BufferInv' /\ TypeOK'
  <2>1. BufferInv' BY BufferKept DEF LineInv
  <2> QED BY <2>1 DEF BufferInv, WireInv, QueueInv, CallbackInv
<1>2. CallbackInv /\ TypeOK /\ NumbersInv /\ BufferInv
  BY DEF LineInv, BufferInv, WireInv, QueueInv, CallbackInv
<1>3. EmitMove(emitted + 1) \/ QueueMove \/ FlushMove \/ ServerTakes \/ HushedMove
  BY <1>2, EmitMoves, OtherSteps
<1>4. NumbersInv' BY <1>1, <1>2, <1>3, NumbersKept
<1>5. /\ Retries = 0 => Len(queue') = 0
      /\ Retries > 0 => \A i \in 1 .. Len(sendBuffer') : ~Plain(mode', sendBuffer'[i].m)
  BY <1>1, <1>3, PlacesKept
<1>6. Sorted(Apart, EventNumbers(sendBuffer')) BY <1>1, <1>3, ApartKept
<1>7. /\ Chain(Ordered(mode'), received', EventNumbers(out'), Rest')
      /\ Retries = 0 => Chain(Apart, received', EventNumbers(out'), Rest')
  <2>1. CASE EmitMove(emitted + 1) BY <1>1, <2>1, EmitLines
  <2>2. CASE QueueMove \/ FlushMove \/ ServerTakes \/ HushedMove
    <3>1. out' \in Seq(Packet) /\ sendBuffer' \in Seq(Packet) /\ sendBuffer \in Seq(Packet)
      BY <1>1, <1>2 DEF TypeOK, SocketTypeOK, WireTypeOK
    <3>2. ASSUME NEW R, Allows(R), Chain(R, received, EventNumbers(out), Rest)
          PROVE  Chain(R, received', EventNumbers(out'), Rest')
      <4>1. Retries = 0 => Len(queue) = 0 BY DEF LineInv
      <4> QED BY <1>2, <2>2, <3>1, <3>2, <4>1, QueueLine, OtherLine
    <3>3. Allows(Ordered(mode))
      <4>1. \A i \in 1 .. Len(sendBuffer) : sendBuffer[i].m \in Nat
        <5>1. \A i \in 1 .. Len(sendBuffer) : sendBuffer[i] \in Packet BY <3>1, ElementOfSeq
        <5> QED BY <5>1, NumberedTypes
      <4>2. Retries > 0 => \A i \in 1 .. Len(sendBuffer) : Free(Ordered(mode), sendBuffer[i].m)
        BY <4>1, FreeFacts DEF LineInv
      <4> QED BY <4>2, FreeFacts DEF Allows
    <3>4. mode' = mode
      BY <1>2, <2>2, ServerTakesMoves DEF QueueMove, FlushMove, HushedMove
    <3>5. Chain(Ordered(mode'), received', EventNumbers(out'), Rest')
      BY <3>2, <3>3, <3>4 DEF LineInv
    <3>6. ASSUME Retries = 0 PROVE Chain(Apart, received', EventNumbers(out'), Rest')
      <4>1. Allows(Apart) BY <3>6, FreeFacts DEF Allows
      <4> QED BY <3>2, <3>6, <4>1 DEF LineInv
    <3> QED BY <3>5, <3>6
  <2> QED BY <1>3, <2>1, <2>2
<1> QED BY <1>1, <1>4, <1>5, <1>6, <1>7 DEF LineInv

LEMMA InitLine == Init => LineInv
<1> SUFFICES ASSUME Init PROVE LineInv OBVIOUS
<1>1. BufferInv BY InitBuffer
<1>2. /\ out = <<>> /\ sendBuffer = <<>> /\ queue = <<>> /\ received = <<>>
      /\ Len(out) = 0 /\ Len(sendBuffer) = 0 /\ Len(queue) = 0 /\ Len(received) = 0
  BY DEF Init
<1>3. NumbersInv BY <1>2 DEF NumbersInv, Fits
<1>4. EventNumbers(out) = <<>> /\ EventNumbers(sendBuffer) = <<>> /\ Rest = <<>>
  BY <1>2, NumbersEmpty DEF Rest
<1>5. \A R : Chain(R, <<>>, <<>>, <<>>) BY EmptyBefore DEF Chain
<1>6. \A R : Chain(R, received, EventNumbers(out), Rest) BY <1>2, <1>4, <1>5
<1>7. Sorted(Apart, EventNumbers(sendBuffer)) BY <1>4, EmptyBefore
<1>8. \A i \in 1 .. Len(sendBuffer) : ~Plain(mode, sendBuffer[i].m) BY <1>2
<1> QED BY <1>1, <1>2, <1>3, <1>6, <1>7, <1>8 DEF LineInv

LEMMA LineInvariant == Spec => []LineInv
BY InitLine, LineKept, PTL DEF Spec

(* Messages reach the server in the order in which they were emitted, for   *)
(* any number of retries, emissions and engines (emit, emitBuffered,        *)
(* _drainQueue): the line of received, wire and buffer or queue is ordered. *)
THEOREM InOrderCorrect == Spec => []InOrder
<1>1. ASSUME LineInv PROVE InOrder
  <2>1. Sorted(Ordered(mode), received) BY <1>1 DEF LineInv, Chain
  <2>2. /\ received \in Seq(Nat) /\ emitted \in 0 .. MaxEmits
        /\ \A i \in 1 .. Len(received) : received[i] \in 1 .. emitted
    BY <1>1 DEF LineInv, NumbersInv, BufferInv, WireInv, QueueInv, CallbackInv, TypeOK,
                WireTypeOK, HistoryTypeOK
  <2>3. DOMAIN received = 1 .. Len(received) /\ Len(received) \in Nat BY <2>2, LenProperties
  <2>4. \A i \in 1 .. Len(received) : received[i] \in Messages /\ received[i] \in Nat
    BY <2>2, BoundsAssumption DEF Messages
  <2>5. ASSUME NEW i \in 1 .. Len(received), NEW j \in 1 .. Len(received), i < j,
               FirstAt(received[j], j),
               mode[received[i]] = "plain", mode[received[j]] = "plain"
        PROVE  received[i] < received[j]
    <3>1. <<received[i], received[j]>> \in Ordered(mode) BY <2>1, <2>5 DEF Sorted
    <3>2. received[i] <= received[j] BY <2>4, <2>5, <3>1, RelationFacts DEF Plain
    <3>3. received[i] # received[j] BY <2>3, <2>5 DEF FirstAt
    <3> QED BY <2>4, <3>2, <3>3
  <2> QED BY <2>3, <2>5 DEF InOrder
<1> QED BY <1>1, LineInvariant, PTL

(* A set whose elements are all the same has at most one of them.           *)
LEMMA FewElements ==
  ASSUME NEW S, \A i, j \in S : i = j
  PROVE  Cardinality(S) \in {0, 1} /\ (Cardinality(S) = 1 => S # {})
<1>1. CASE S = {} BY <1>1, FS_EmptySet
<1>2. CASE S # {}
  <2>1. PICK x : x \in S BY <1>2
  <2>2. S = {x} BY <2>1
  <2> QED BY <1>2, <2>2, FS_Singleton
<1> QED BY <1>1, <1>2

LEMMA CopiesFew ==
  ASSUME NEW s \in Seq(Packet), NEW m \in Nat \ {0}, Sorted(Apart, EventNumbers(s))
  PROVE  /\ Copies(s, m) \in {0, 1}
         /\ Copies(s, m) = 1 => \E i \in 1 .. Len(EventNumbers(s)) : EventNumbers(s)[i] = m
<1> DEFINE S == {i \in EventsIn(s) : s[i].m = m}
           e == EventNumbers(s)
<1>1. /\ DOMAIN s = 1 .. Len(s) /\ Len(s) \in Nat /\ e \in Seq(Nat) /\ Len(e) = Len(s)
      /\ \A i \in 1 .. Len(s) : e[i] = s[i].m
  BY LenProperties, NumberedTypes, NumbersFacts
<1>2. Copies(s, m) = Cardinality(S) BY DEF Copies
<1>3. \A i \in S : i \in 1 .. Len(e) /\ e[i] = m /\ i \in Nat BY <1>1 DEF EventsIn
<1> HIDE DEF S, e
<1>4. \A i, j \in 1 .. Len(e) : i < j => <<e[i], e[j]>> \in Apart BY DEF Sorted, e
<1>5. ASSUME NEW i \in S, NEW j \in S, i < j PROVE FALSE
  <2>1. <<m, m>> \in Apart BY <1>3, <1>4, <1>5
  <2> QED BY <2>1, RelationFacts
<1>6. \A i, j \in S : i = j BY <1>3, <1>5
<1>7. Cardinality(S) \in {0, 1} /\ (Cardinality(S) = 1 => S # {}) BY <1>6, FewElements
<1> QED BY <1>2, <1>3, <1>7 DEF e

LEMMA CountFew ==
  ASSUME NEW s \in Seq(Nat), NEW m \in Nat \ {0}, Sorted(Apart, s)
  PROVE  /\ Count(s, m) \in {0, 1}
         /\ Count(s, m) = 1 => \E i \in 1 .. Len(s) : s[i] = m
<1> DEFINE S == {i \in DOMAIN s : s[i] = m}
<1>1. DOMAIN s = 1 .. Len(s) /\ Len(s) \in Nat BY LenProperties
<1>2. Count(s, m) = Cardinality(S) BY DEF Count
<1>3. \A i \in S : i \in 1 .. Len(s) /\ s[i] = m /\ i \in Nat BY <1>1
<1> HIDE DEF S
<1>4. \A i, j \in 1 .. Len(s) : i < j => <<s[i], s[j]>> \in Apart BY DEF Sorted
<1>5. ASSUME NEW i \in S, NEW j \in S, i < j PROVE FALSE
  <2>1. <<m, m>> \in Apart BY <1>3, <1>4, <1>5
  <2> QED BY <2>1, RelationFacts
<1>6. \A i, j \in S : i = j BY <1>3, <1>5
<1>7. Cardinality(S) \in {0, 1} /\ (Cardinality(S) = 1 => S # {}) BY <1>6, FewElements
<1> QED BY <1>2, <1>3, <1>7

(* Without retries a message is transmitted at most once (emit, onconnect,  *)
(* emitBuffered): received, wire and buffer form a line in which no number  *)
(* of a message stands twice, whatever disconnections come between.         *)
THEOREM AtMostOnceCorrect == Spec => []AtMostOnce
<1>1. ASSUME LineInv PROVE AtMostOnce
  <2> SUFFICES ASSUME Retries = 0, NEW m \in Messages
               PROVE  Copies(sendBuffer, m) + Copies(out, m) + Count(received, m) <= 1
    BY DEF AtMostOnce
  <2> DEFINE o == EventNumbers(out)
             b == EventNumbers(sendBuffer)
  <2>1. TypeOK BY <1>1 DEF LineInv, BufferInv, WireInv, QueueInv, CallbackInv
  <2>2. /\ received \in Seq(Nat) /\ out \in Seq(Packet) /\ sendBuffer \in Seq(Packet)
        /\ m \in Nat \ {0}
    BY <2>1, LineTypes, BoundsAssumption DEF Messages
  <2>3. Chain(Apart, received, o, b) BY <1>1 DEF LineInv, Rest
  <2>4. /\ Sorted(Apart, received) /\ Sorted(Apart, o) /\ Sorted(Apart, b)
        /\ Before(Apart, received, o) /\ Before(Apart, received, b) /\ Before(Apart, o, b)
    BY <2>3 DEF Chain
  <2>5. /\ Count(received, m) \in {0, 1}
        /\ Count(received, m) = 1 => \E i \in 1 .. Len(received) : received[i] = m
    BY <2>2, <2>4, CountFew
  <2>6. /\ Copies(out, m) \in {0, 1}
        /\ Copies(out, m) = 1 => \E i \in 1 .. Len(o) : o[i] = m
    BY <2>2, <2>4, CopiesFew
  <2>7. /\ Copies(sendBuffer, m) \in {0, 1}
        /\ Copies(sendBuffer, m) = 1 => \E i \in 1 .. Len(b) : b[i] = m
    BY <2>2, <2>4, CopiesFew
  <2> HIDE DEF o, b
  <2>8. <<m, m>> \notin Apart BY <2>2, RelationFacts
  <2>9. ASSUME NEW s, NEW t, Before(Apart, s, t), NEW i \in 1 .. Len(s), NEW j \in 1 .. Len(t),
               s[i] = m, t[j] = m
        PROVE  FALSE
    BY <2>8, <2>9 DEF Before
  <2>10. ~(Count(received, m) = 1 /\ Copies(out, m) = 1) BY <2>4, <2>5, <2>6, <2>9
  <2>11. ~(Count(received, m) = 1 /\ Copies(sendBuffer, m) = 1) BY <2>4, <2>5, <2>7, <2>9
  <2>12. ~(Copies(out, m) = 1 /\ Copies(sendBuffer, m) = 1) BY <2>4, <2>6, <2>7, <2>9
  <2> QED BY <2>5, <2>6, <2>7, <2>10, <2>11, <2>12
<1> QED BY <1>1, LineInvariant, PTL

(***************************************************************************)
(* From the server to the user                                              *)
(***************************************************************************)
(* What onconnect has still to deliver: the buffer, unless its events have  *)
(* been delivered and their listeners are running.                          *)
Waiting == IF Replaying THEN <<>> ELSE EventNumbers(receiveBuffer)

Strict == {p \in Nat \X Nat : p[1] > 0 /\ p[2] > 0 => p[1] < p[2]}

LEMMA StrictFacts ==
  /\ \A a, b \in Nat : <<a, b>> \in Strict <=> (a > 0 /\ b > 0 => a < b)
  /\ Free(Strict, 0)
BY DEF Strict, Free

(* Only onconnect starts to replay, and only ReplayReturns ends it.         *)
LEMMA ReplayingStays ==
  ASSUME TypeOK, StackFits, [Next]_vars, ~OnConnect, ~ReplayReturns
  PROVE  Replaying' <=> Replaying
<1>0. stack \in Seq(Frames) /\ Len(stack) \in Nat BY LenProperties DEF TypeOK, SocketTypeOK
<1>1. CASE UNCHANGED <<connected, stack>> BY <1>1 DEF Replaying
<1>2. ASSUME NEW n \in Nat, OnClose(n) PROVE Replaying' <=> Replaying
  <2>1. /\ Len(stack') = Len(stack) + n
        /\ \A i \in 1 .. Len(stack) : stack'[i] = stack[i]
        /\ \A i \in Len(stack) + 1 .. Len(stack') : stack'[i] = "disconnect"
    BY <1>2, OnCloseFacts
  <2>2. CASE Len(stack) > 0
    <3>1. stack'[1] = stack[1] /\ Len(stack') > 0 BY <1>0, <2>1, <2>2
    <3> QED BY <2>2, <3>1 DEF Replaying
  <2>3. CASE Len(stack) = 0
    <3>1. Len(stack') > 0 => stack'[1] = "disconnect" BY <2>1, <2>3
    <3> QED BY <2>3, <3>1 DEF Replaying
  <2> QED BY <1>0, <2>2, <2>3
<1>3. CASE Returned
  <2>1. /\ Len(stack) > 0 /\ Len(Below) = Len(stack) - 1
        /\ \A i \in 1 .. Len(stack) - 1 : Below[i] = stack[i]
    BY <1>3, BelowFacts DEF Returned
  <2>2. stack' = Below /\ stack[Len(stack)] # "replay" BY <1>3 DEF Returned, Top
  <2>3. CASE Len(stack) = 1
    <3>1. ~(Len(stack') > 0) /\ stack[1] # "replay" BY <2>1, <2>2, <2>3
    <3> QED BY <3>1 DEF Replaying
  <2>4. CASE Len(stack) > 1
    <3>1. Len(stack') > 0 /\ stack'[1] = stack[1] BY <1>0, <2>1, <2>2, <2>4
    <3> QED BY <2>1, <3>1 DEF Replaying
  <2> QED BY <1>0, <2>1, <2>3, <2>4
<1> QED BY <1>1, <1>2, <1>3, StackMoves

(* The answers of the server: a control packet, or its next event.          *)
ReplyMove ==
  /\ UNCHANGED <<delivered, receiveBuffer, stack>>
  /\ \/ serverEvents' = serverEvents /\ \E p : Silent(p) /\ Reply(<<p>>)
     \/ /\ serverEvents' = serverEvents + 1
        /\ \E p : MessageOf(p, serverEvents + 1) /\ Reply(<<p>>)

StillMove == UNCHANGED <<delivered, receiveBuffer, serverEvents>> /\ Thin(inb', inb)

LEMMA ServerSteps ==
  ASSUME TypeOK, NumbersInv, Server
  PROVE  ReplyMove \/ StillMove
<1>0. /\ Thin(inb, inb) /\ serverEvents \in Nat /\ out \in Seq(Packet)
  BY ThinEmpty DEF TypeOK, WireTypeOK
<1> USE DEF socketVars, userVars
<1>1. CASE ServerTakes
  <2>1. out # <<>> /\ UNCHANGED <<delivered, receiveBuffer, stack, serverEvents>>
    BY <1>1 DEF ServerTakes
  <2>2. PICK p \in Packet : p = Head(out) BY <1>0, <2>1, HeadTailProperties
  <2>3. p.type # "EVENT" => p.m = 0
    <3>1. \E j \in 1 .. Len(out) : p = out[j] BY <1>0, <2>1, <2>2, TailPart
    <3> QED BY <3>1 DEF NumbersInv, Fits
  <2>4. \/ inb' = inb
        \/ p.type = "CONNECT" /\ \E q \in ServerPids : Reply(<<[p EXCEPT !.pid = q]>>)
        \/ Reply(<<Control("CONNECT_ERROR")>>)
        \/ \E n \in AckSizes : Reply(<<AckPacket(p.id, n)>>)
    BY <1>1, <2>2 DEF ServerTakes
  <2>5. CASE inb' = inb BY <1>0, <2>1, <2>5 DEF StillMove
  <2>6. ASSUME p.type = "CONNECT", NEW q \in ServerPids, Reply(<<[p EXCEPT !.pid = q]>>)
        PROVE  ReplyMove
    <3>1. Silent([p EXCEPT !.pid = q]) BY <2>3, <2>6 DEF Silent, Packet, Pids
    <3> QED BY <2>1, <2>6, <3>1 DEF ReplyMove
  <2>7. CASE Reply(<<Control("CONNECT_ERROR")>>)
    <3>1. Silent(Control("CONNECT_ERROR")) BY SilentPackets
    <3> QED BY <2>1, <2>7, <3>1 DEF ReplyMove
  <2>8. ASSUME NEW n \in AckSizes, Reply(<<AckPacket(p.id, n)>>) PROVE ReplyMove
    <3>1. p.id \in Int /\ n \in Nat BY AckSizesAssumption DEF Packet
    <3>2. Silent(AckPacket(p.id, n)) BY <3>1, SilentPackets
    <3> QED BY <2>1, <2>8, <3>2 DEF ReplyMove
  <2> QED BY <2>4, <2>5, <2>6, <2>7, <2>8
<1>2. CASE ServerEmits
  <2> DEFINE n == serverEvents + 1
             id == IF n % 2 = 0 THEN n ELSE NoId
  <2>1. /\ UNCHANGED <<delivered, receiveBuffer, stack>> /\ serverEvents' = n
        /\ Reply(<<EventPacket(id, n)>>)
    BY <1>2 DEF ServerEmits
  <2>2. n \in Nat /\ id \in Int BY <1>0 DEF NoId
  <2> HIDE DEF n, id
  <2>3. MessageOf(EventPacket(id, n), n) BY <2>2, EventPacketType DEF MessageOf, EventPacket, PacketOf
  <2>4. \E p : MessageOf(p, n) /\ Reply(<<p>>) BY <2>1, <2>3
  <2> QED BY <2>1, <2>4 DEF ReplyMove, n
<1>3. CASE ServerDisconnects
  <2>1. Silent(Control("DISCONNECT")) BY SilentPackets
  <2> QED BY <1>3, <2>1 DEF ServerDisconnects, ReplyMove
<1> QED BY <1>1, <1>2, <1>3 DEF Server

LEMMA InboundSteps ==
  ASSUME TypeOK, NumbersInv, [Next]_vars
  PROVE  OnConnect \/ OnEvent \/ ReplayReturns \/ ReplyMove \/ StillMove
<1>0. Thin(inb, inb) /\ Thin(<<>>, inb) /\ inb \in Seq(Packet)
  BY ThinEmpty DEF TypeOK, WireTypeOK
<1> USE DEF StillMove, serverVars, userVars, socketVars
<1>1. CASE UNCHANGED vars BY <1>0, <1>1 DEF vars
<1>2. CASE Emit
  BY <1>0, <1>2 DEF Emit, EmitDirect, EmitQueued, NextMessage
<1>3. CASE Connect
  BY <1>0, <1>3 DEF Connect, NewEngine
<1>4. CASE Disconnect
  <2>1. UNCHANGED <<delivered, receiveBuffer, serverEvents>> BY <1>4 DEF Disconnect
  <2>2. inb' \in {inb, <<>>} BY <1>4 DEF Disconnect, Destroy
  <2> QED BY <1>0, <2>1, <2>2
<1>5. ASSUME NEW n \in toAck, UserAcks(n) PROVE StillMove BY <1>0, <1>5 DEF UserAcks
<1>6. CASE ConnectReturns \/ DisconnectReturns
  BY <1>0, <1>6 DEF ConnectReturns, DisconnectReturns
<1>7. CASE Timers BY <1>0, <1>7 DEF Timers, TimerFires
<1>8. CASE Io
  <2>1. UNCHANGED <<delivered, receiveBuffer, serverEvents>> /\ inb' \in {inb, <<>>}
    BY <1>8 DEF Io, EngineOpens, EngineFails, EngineStalls, EngineLost, ManagerReconnects,
                CloseReturns, NewEngine
  <2> QED BY <1>0, <2>1
<1>9. inb # <<>> => Thin(Tail(inb), inb) BY <1>0, ThinTail
<1>10. CASE OnAck \/ Unheard
  <2>1. UNCHANGED <<delivered, receiveBuffer, serverEvents>> BY <1>10 DEF OnAck, Unheard
  <2>2. inb # <<>> /\ inb' = Tail(inb) BY <1>10 DEF OnAck, Unheard, Arrives, Consume
  <2> QED BY <1>9, <2>1, <2>2
<1>11. CASE OnDisconnect \/ OnConnectError
  <2>1. UNCHANGED <<delivered, receiveBuffer, serverEvents>>
    BY <1>11 DEF OnDisconnect, OnConnectError, OnRefused
  <2>2. inb # <<>> /\ inb' \in {inb, <<>>, Tail(inb)}
    BY <1>11 DEF OnDisconnect, OnConnectError, OnRefused, Destroy, Arrives, Consume
  <2> QED BY <1>0, <1>9, <2>1, <2>2
<1>12. CASE Server BY <1>12, ServerSteps
<1> QED BY <1>1, <1>2, <1>3, <1>4, <1>5, <1>6, <1>7, <1>8, <1>10, <1>11, <1>12
        DEF Next, User, Returns, OnPacket

(* The number of an event the server answers with, at the end of the line.  *)
LEMMA ReplyNumbers ==
  ASSUME TypeOK, ReplyMove
  PROVE  \/ /\ inb' = inb
            /\ serverEvents' \in {serverEvents, serverEvents + 1}
         \/ \E p \in Packet :
               /\ inb' = inb \o <<p>> /\ EventNumbers(inb') = EventNumbers(inb) \o <<p.m>>
               /\ \/ p.type # "EVENT" /\ p.m = 0 /\ serverEvents' = serverEvents
                  \/ p.type = "EVENT" /\ p.m = serverEvents + 1 /\ serverEvents' = p.m
<1>1. inb \in Seq(Packet) BY DEF TypeOK, WireTypeOK
<1>2. ASSUME NEW p \in Packet, inb' = inb \o <<p>>
      PROVE  EventNumbers(inb') = EventNumbers(inb) \o <<p.m>>
  <2>1. p.m \in Nat /\ <<p>> \in Seq(Packet) BY NumberedTypes
  <2>2. EventNumbers(inb \o <<p>>) = EventNumbers(inb) \o EventNumbers(<<p>>)
    BY <1>1, <2>1, NumberedTypes, NumbersConcat
  <2>3. EventNumbers(<<p>>) = <<p.m>> BY <2>1, NumbersSingle
  <2> QED BY <1>2, <2>2, <2>3
<1>3. CASE serverEvents' = serverEvents /\ \E p : Silent(p) /\ Reply(<<p>>)
  <2>1. PICK p : Silent(p) /\ Reply(<<p>>) BY <1>3
  <2>2. inb' = inb \/ inb' = inb \o <<p>> BY <2>1 DEF Reply
  <2>3. p \in Packet /\ p.type # "EVENT" /\ p.m = 0 BY <2>1 DEF Silent
  <2> QED BY <1>2, <1>3, <2>2, <2>3
<1>4. CASE /\ serverEvents' = serverEvents + 1
           /\ \E p : MessageOf(p, serverEvents + 1) /\ Reply(<<p>>)
  <2>1. PICK p : MessageOf(p, serverEvents + 1) /\ Reply(<<p>>) BY <1>4
  <2>2. inb' = inb \/ inb' = inb \o <<p>> BY <2>1 DEF Reply
  <2>3. p \in Packet /\ p.type = "EVENT" /\ p.m = serverEvents + 1 BY <2>1 DEF MessageOf
  <2> QED BY <1>2, <1>4, <2>2, <2>3
<1> QED BY <1>3, <1>4 DEF ReplyMove

(* The types of the numbers in the line from the server to the user.        *)
LEMMA InboundTypes ==
  ASSUME TypeOK
  PROVE  /\ delivered \in Seq(Nat) /\ EventNumbers(inb) \in Seq(Nat)
         /\ EventNumbers(receiveBuffer) \in Seq(Nat) /\ Waiting \in Seq(Nat)
         /\ inb \in Seq(Packet) /\ receiveBuffer \in Seq(Packet) /\ serverEvents \in Nat
<1>1. /\ delivered \in Seq(Nat) /\ inb \in Seq(Packet) /\ receiveBuffer \in Seq(Packet)
      /\ serverEvents \in Nat
  BY DEF TypeOK, WireTypeOK, SocketTypeOK, HistoryTypeOK
<1>2. EventNumbers(inb) \in Seq(Nat) /\ EventNumbers(receiveBuffer) \in Seq(Nat)
  BY <1>1, NumberedTypes, NumbersFacts
<1> QED BY <1>1, <1>2 DEF Waiting

(* Every event still on its way or delivered has been sent.                 *)
InboundKnown ==
  /\ Fits(inb, serverEvents)
  /\ \A i \in 1 .. Len(receiveBuffer) : receiveBuffer[i].m \in 1 .. serverEvents
  /\ \A i \in 1 .. Len(delivered) : delivered[i] \in 1 .. serverEvents

LEMMA DeliverKnown ==
  ASSUME TypeOK, NEW s \in Seq(Packet), NEW n, Deliver(s),
         \A i \in 1 .. Len(s) : s[i].m \in 1 .. n,
         \A i \in 1 .. Len(delivered) : delivered[i] \in 1 .. n
  PROVE  \A i \in 1 .. Len(delivered') : delivered'[i] \in 1 .. n
<1> DEFINE e == EventNumbers(s)
           c == delivered \o e
<1>1. e \in Seq(Nat) /\ Len(e) = Len(s) /\ \A i \in 1 .. Len(s) : e[i] = s[i].m
  BY NumberedTypes, NumbersFacts
<1>2. delivered' = c BY DEF Deliver
<1> HIDE DEF e
<1>3. delivered \in Seq(Nat) BY InboundTypes
<1>4. /\ Len(c) = Len(delivered) + Len(e)
      /\ \A i \in 1 .. Len(delivered) + Len(e) :
            \/ i \in 1 .. Len(delivered) /\ c[i] = delivered[i]
            \/ i - Len(delivered) \in 1 .. Len(e) /\ c[i] = e[i - Len(delivered)]
  BY ZenonT(60), <1>1, <1>3, ConcatElements
<1> HIDE DEF c
<1>5. ASSUME NEW i \in 1 .. Len(c) PROVE c[i] \in 1 .. n
  <2>1. CASE i \in 1 .. Len(delivered) /\ c[i] = delivered[i] BY <2>1
  <2>2. CASE i - Len(delivered) \in 1 .. Len(e) /\ c[i] = e[i - Len(delivered)]
    <3>1. e[i - Len(delivered)] \in 1 .. n BY <1>1, <2>2
    <3> QED BY <2>2, <3>1
  <2> QED BY <1>4, <2>1, <2>2
<1> QED BY <1>2, <1>5

LEMMA KnownStays ==
  ASSUME TypeOK, InboundKnown,
         OnConnect \/ OnEvent \/ ReplayReturns \/ ReplyMove \/ StillMove
  PROVE  InboundKnown'
<1>0. /\ delivered \in Seq(Nat) /\ inb \in Seq(Packet) /\ receiveBuffer \in Seq(Packet)
      /\ serverEvents \in Nat
  BY InboundTypes
<1>1. ASSUME inb # <<>> PROVE Part(Tail(inb), inb) /\ \E j \in 1 .. Len(inb) : Head(inb) = inb[j]
  BY <1>0, <1>1, TailPart
<1>2. CASE OnConnect
  <2>1. /\ inb # <<>> /\ inb' = Tail(inb) /\ UNCHANGED <<receiveBuffer, serverEvents>>
        /\ Deliver(receiveBuffer)
    BY <1>2 DEF OnConnect, Arrives, Consume
  <2>2. Fits(inb', serverEvents) BY <1>1, <2>1, FitsPart DEF InboundKnown
  <2>3. \A i \in 1 .. Len(delivered') : delivered'[i] \in 1 .. serverEvents
    BY <1>0, <2>1, DeliverKnown DEF InboundKnown
  <2> QED BY <2>1, <2>2, <2>3 DEF InboundKnown
<1>3. CASE OnEvent
  <2>1. /\ inb # <<>> /\ inb' = Tail(inb) /\ UNCHANGED serverEvents /\ Head(inb).type = "EVENT"
        /\ \/ Deliver(<<Head(inb)>>) /\ UNCHANGED receiveBuffer
           \/ receiveBuffer' = Append(receiveBuffer, Head(inb)) /\ UNCHANGED delivered
    BY <1>3 DEF OnEvent, Arrives, Consume
  <2>2. Fits(inb', serverEvents) BY <1>1, <2>1, FitsPart DEF InboundKnown
  <2>3. PICK p \in Packet : p = Head(inb) BY <1>0, <2>1, HeadTailProperties
  <2>4. p.m \in 1 .. serverEvents
    <3>1. PICK j \in 1 .. Len(inb) : p = inb[j] BY <1>1, <2>1, <2>3
    <3> QED BY <2>1, <2>3, <3>1 DEF InboundKnown, Fits
  <2>5. CASE Deliver(<<p>>) /\ UNCHANGED receiveBuffer
    <3> DEFINE s == <<p>>
    <3>1. s \in Seq(Packet) /\ Len(s) = 1 /\ s[1] = p OBVIOUS
    <3>2. Deliver(s) BY <2>5
    <3> HIDE DEF s
    <3>3. \A i \in 1 .. Len(s) : s[i].m \in 1 .. serverEvents BY <2>4, <3>1
    <3>4. \A i \in 1 .. Len(delivered') : delivered'[i] \in 1 .. serverEvents
      BY <3>1, <3>2, <3>3, DeliverKnown DEF InboundKnown
    <3> QED BY <2>1, <2>2, <2>5, <3>4 DEF InboundKnown
  <2>6. CASE receiveBuffer' = Append(receiveBuffer, p) /\ UNCHANGED delivered
    <3>1. /\ Len(receiveBuffer') = Len(receiveBuffer) + 1 /\ Len(receiveBuffer) \in Nat
          /\ \A i \in 1 .. Len(receiveBuffer) : receiveBuffer'[i] = receiveBuffer[i]
          /\ receiveBuffer'[Len(receiveBuffer) + 1] = p
      BY <1>0, <2>6, AppendProperties
    <3>2. ASSUME NEW i \in 1 .. Len(receiveBuffer') PROVE receiveBuffer'[i].m \in 1 .. serverEvents
      <4>1. CASE i \in 1 .. Len(receiveBuffer) BY <3>1, <4>1 DEF InboundKnown
      <4>2. CASE i = Len(receiveBuffer) + 1 BY <2>4, <3>1, <4>2
      <4> QED BY <3>1, <4>1, <4>2
    <3> QED BY <2>1, <2>2, <2>6, <3>2 DEF InboundKnown
  <2> QED BY <2>1, <2>3, <2>5, <2>6
<1>4. CASE ReplayReturns
  <2>1. UNCHANGED <<inb, delivered, serverEvents>> /\ receiveBuffer' = <<>>
    BY <1>4 DEF ReplayReturns, EmptyReceiveBuffer, serverVars, userVars
  <2>2. Len(receiveBuffer') = 0 BY <2>1
  <2> QED BY <2>1, <2>2 DEF InboundKnown
<1>5. CASE ReplyMove
  <2>1. UNCHANGED <<delivered, receiveBuffer>> BY <1>5 DEF ReplyMove
  <2>2. serverEvents' \in {serverEvents, serverEvents + 1}
    <3>1. ASSUME NEW p, MessageOf(p, serverEvents + 1) PROVE p.m = serverEvents + 1
      BY <3>1 DEF MessageOf
    <3> QED BY <1>5 DEF ReplyMove
  <2>3. \A x \in 1 .. serverEvents : x \in 1 .. serverEvents' BY <1>0, <2>2
  <2>4. Fits(inb, serverEvents') BY <1>0, <2>2, FitsMore DEF InboundKnown
  <2>5. Fits(inb', serverEvents')
    <3>1. ASSUME NEW p \in Packet, inb' = inb \o <<p>>,
                 \/ p.type # "EVENT" /\ p.m = 0 /\ serverEvents' = serverEvents
                 \/ p.type = "EVENT" /\ p.m = serverEvents + 1 /\ serverEvents' = p.m
          PROVE  Fits(inb', serverEvents')
      <4>1. IF p.type = "EVENT" THEN p.m \in 1 .. serverEvents' ELSE p.m = 0 BY <1>0, <3>1
      <4>2. <<p>> \in Seq(Packet) /\ Fits(<<p>>, serverEvents') BY <4>1, FitsOne
      <4> QED BY <1>0, <2>4, <3>1, <4>2, FitsConcat
    <3> QED BY <1>5, <2>4, <3>1, ReplyNumbers
  <2> QED BY <2>1, <2>3, <2>5 DEF InboundKnown
<1>6. CASE StillMove
  <2>1. UNCHANGED <<delivered, receiveBuffer, serverEvents>> /\ Part(inb', inb)
    BY <1>6 DEF StillMove, Thin
  <2>2. Fits(inb', serverEvents) BY <2>1, FitsPart DEF InboundKnown
  <2> QED BY <2>1, <2>2 DEF InboundKnown
<1> QED BY <1>2, <1>3, <1>4, <1>5, <1>6

DeliveryInv ==
  /\ LineInv /\ InboundKnown
  /\ Chain(Strict, delivered, Waiting, EventNumbers(inb))

(* onconnect delivers what waits; onevent the event itself, which otherwise *)
(* joins what waits.                                                        *)
LEMMA ConnectDelivers ==
  ASSUME DeliveryInv, OnConnect
  PROVE  Chain(Strict, delivered', Waiting', EventNumbers(inb'))
<1>1. TypeOK BY DEF DeliveryInv, LineInv, BufferInv, WireInv, QueueInv, CallbackInv
<1>2. /\ delivered \in Seq(Nat) /\ EventNumbers(inb) \in Seq(Nat) /\ inb \in Seq(Packet)
      /\ EventNumbers(receiveBuffer) \in Seq(Nat) /\ receiveBuffer \in Seq(Packet)
  BY <1>1, InboundTypes
<1>3. /\ stack = <<>> /\ inb # <<>> /\ inb' = Tail(inb) /\ UNCHANGED receiveBuffer
      /\ delivered' = delivered \o EventNumbers(receiveBuffer)
      /\ receiveBuffer = <<>> \/ stack' = <<"replay">>
      /\ stack' \in {<<"connect">>, <<"replay">>}
  BY DEF OnConnect, Arrives, Consume, Deliver
<1>4. Waiting = EventNumbers(receiveBuffer)
  <2>1. Len(stack) = 0 BY <1>3
  <2> QED BY <2>1 DEF Waiting, Replaying
<1>5. Waiting' = <<>>
  <2>1. CASE stack' = <<"replay">>
    <3>1. Len(stack') = 1 /\ stack'[1] = "replay" BY <2>1
    <3> QED BY <3>1 DEF Waiting, Replaying
  <2>2. CASE receiveBuffer = <<>> BY <1>3, <2>2, NumbersEmpty DEF Waiting
  <2> QED BY <1>3, <2>1, <2>2
<1> DEFINE b == EventNumbers(inb)
           w == EventNumbers(receiveBuffer)
<1>6. Chain(Strict, delivered, w, b) BY <1>4 DEF DeliveryInv
<1>7. EventNumbers(Tail(inb)) = Tail(b) /\ b # <<>> BY <1>2, <1>3, NumbersTail
<1> HIDE DEF b, w
<1>8. b \in Seq(Nat) /\ w \in Seq(Nat) BY <1>2 DEF b, w
<1>9. Chain(Strict, delivered \o w, <<>>, b) BY <1>2, <1>6, <1>8, ChainFlush
<1>10. Thin(Tail(b), b) BY <1>7, <1>8, ThinTail
<1>11. Thin(delivered \o w, delivered \o w) /\ Thin(<<>>, <<>>) BY ThinEmpty
<1>12. Chain(Strict, delivered \o w, <<>>, Tail(b)) BY <1>9, <1>10, <1>11, ThinChain
<1> QED BY <1>3, <1>5, <1>7, <1>12 DEF b, w

LEMMA EventDelivers ==
  ASSUME DeliveryInv, OnEvent
  PROVE  Chain(Strict, delivered', Waiting', EventNumbers(inb'))
<1>1. TypeOK /\ Stranded
  BY DEF DeliveryInv, LineInv, BufferInv, WireInv, QueueInv, CallbackInv
<1>2. /\ delivered \in Seq(Nat) /\ EventNumbers(inb) \in Seq(Nat) /\ inb \in Seq(Packet)
      /\ EventNumbers(receiveBuffer) \in Seq(Nat) /\ receiveBuffer \in Seq(Packet)
  BY <1>1, InboundTypes
<1>3. /\ stack = <<>> /\ UNCHANGED stack /\ inb # <<>> /\ inb' = Tail(inb)
      /\ IF connected THEN Deliver(<<Head(inb)>>) /\ UNCHANGED receiveBuffer
         ELSE receiveBuffer' = Append(receiveBuffer, Head(inb)) /\ UNCHANGED delivered
  BY DEF OnEvent, Arrives, Consume
<1>4. Waiting = EventNumbers(receiveBuffer) /\ Waiting' = EventNumbers(receiveBuffer')
      /\ ~Replaying
  <2>1. Len(stack) = 0 /\ Len(stack') = 0 BY <1>3
  <2> QED BY <2>1 DEF Waiting, Replaying
<1> DEFINE b == EventNumbers(inb)
           w == EventNumbers(receiveBuffer)
           x == Head(inb).m
<1>5. Chain(Strict, delivered, w, b) BY <1>4 DEF DeliveryInv
<1>6. EventNumbers(Tail(inb)) = Tail(b) /\ b # <<>> /\ Head(b) = x /\ x \in Nat
  BY <1>2, <1>3, NumbersTail
<1>7. PICK p \in Packet : p = Head(inb) BY <1>2, <1>3, HeadTailProperties
<1>8. p.m = x /\ EventNumbers(<<p>>) = <<x>> /\ <<p>> \in Seq(Packet) BY <1>6, <1>7, NumbersSingle
<1> HIDE DEF b, w, x
<1>9. b \in Seq(Nat) /\ w \in Seq(Nat) /\ Tail(b) \in Seq(Nat) /\ <<x>> \in Seq(Nat)
  BY <1>2, <1>6, HeadTailProperties DEF b, w
<1>10. Chain(Strict, delivered, w \o <<x>>, Tail(b)) BY <1>2, <1>5, <1>6, <1>9, ChainTake
<1>11. CASE connected
  <2>1. delivered' = delivered \o <<x>> /\ receiveBuffer' = receiveBuffer
    BY <1>3, <1>7, <1>8, <1>11 DEF Deliver
  <2>2. receiveBuffer = <<>> BY <1>1, <1>2, <1>4, <1>11, EmptyLen DEF Stranded
  <2>3. w = <<>> BY <2>2, NumbersEmpty DEF w
  <2>4. w \o <<x>> = <<x>> BY <1>9, <2>3, ConcatEmptySeq
  <2>5. Chain(Strict, delivered \o <<x>>, <<>>, Tail(b)) BY <1>2, <1>9, <1>10, <2>4, ChainFlush
  <2> QED BY <1>3, <1>4, <1>6, <2>1, <2>3, <2>5 DEF b, w
<1>12. CASE ~connected
  <2>1. receiveBuffer' = receiveBuffer \o <<p>> /\ delivered' = delivered
    BY <1>2, <1>3, <1>7, <1>12, AppendIsConcat
  <2>2. EventNumbers(receiveBuffer \o <<p>>) = w \o <<x>>
    BY <1>2, <1>8, NumberedTypes, NumbersConcat DEF w
  <2> QED BY <1>3, <1>4, <1>6, <1>10, <2>1, <2>2 DEF b
<1> QED BY <1>11, <1>12

LEMMA StillDelivers ==
  ASSUME DeliveryInv, TypeOK', [Next]_vars, ReplayReturns \/ ReplyMove \/ StillMove,
         ~OnConnect, ~OnEvent
  PROVE  Chain(Strict, delivered', Waiting', EventNumbers(inb'))
<1>1. TypeOK /\ StackFits
  BY DEF DeliveryInv, LineInv, BufferInv, WireInv, QueueInv, CallbackInv
<1>2. /\ delivered \in Seq(Nat) /\ EventNumbers(inb) \in Seq(Nat) /\ inb \in Seq(Packet)
      /\ Waiting \in Seq(Nat) /\ serverEvents \in Nat /\ inb' \in Seq(Packet)
  BY <1>1, InboundTypes DEF TypeOK, WireTypeOK
<1>3. Chain(Strict, delivered, Waiting, EventNumbers(inb)) BY DEF DeliveryInv
<1>4. /\ Thin(delivered, delivered) /\ Thin(Waiting, Waiting) /\ Thin(<<>>, Waiting)
      /\ Thin(EventNumbers(inb), EventNumbers(inb))
  BY ThinEmpty
<1>5. CASE ReplayReturns
  <2>1. UNCHANGED <<delivered, inb>> /\ receiveBuffer' = <<>>
    BY <1>5 DEF ReplayReturns, EmptyReceiveBuffer, serverVars, userVars
  <2>2. Waiting' = <<>> BY <2>1, NumbersEmpty DEF Waiting
  <2> QED BY <1>3, <1>4, <2>1, <2>2, ThinChain
<1>6. ASSUME ~ReplayReturns, UNCHANGED receiveBuffer PROVE Waiting' = Waiting
  <2>1. Replaying' <=> Replaying BY <1>1, <1>6, ReplayingStays
  <2> QED BY <1>6, <2>1 DEF Waiting
<1>7. CASE StillMove /\ ~ReplayReturns
  <2>1. UNCHANGED <<delivered, receiveBuffer>> /\ Thin(inb', inb) BY <1>7 DEF StillMove
  <2>2. Waiting' = Waiting BY <1>6, <1>7, <2>1
  <2>3. Thin(EventNumbers(inb'), EventNumbers(inb)) BY <1>2, <2>1, NumberedTypes, NumbersThin
  <2> QED BY <1>3, <1>4, <2>1, <2>2, <2>3, ThinChain
<1>8. CASE ReplyMove /\ ~ReplayReturns
  <2>1. UNCHANGED <<delivered, receiveBuffer>> BY <1>8 DEF ReplyMove
  <2>2. Waiting' = Waiting BY <1>6, <1>8, <2>1
  <2>3. ASSUME NEW p \in Packet, EventNumbers(inb') = EventNumbers(inb) \o <<p.m>>,
               \/ p.type # "EVENT" /\ p.m = 0
               \/ p.m = serverEvents + 1
        PROVE  Chain(Strict, delivered, Waiting, EventNumbers(inb) \o <<p.m>>)
    <3> DEFINE x == p.m
               b == EventNumbers(inb)
    <3>1. x \in Nat BY NumberedTypes
    <3>2. ASSUME NEW s \in Seq(Nat), \A i \in 1 .. Len(s) : s[i] \in 0 .. serverEvents
          PROVE  Before(Strict, s, <<x>>)
      <4>1. ASSUME NEW i \in 1 .. Len(s) PROVE <<s[i], x>> \in Strict
        <5>1. s[i] \in Nat /\ s[i] <= serverEvents BY <1>2, <3>2
        <5>2. x = 0 \/ x > serverEvents BY <1>2, <2>3
        <5>3. s[i] > 0 /\ x > 0 => s[i] < x BY <1>2, <3>1, <5>1, <5>2
        <5> HIDE DEF x
        <5> QED BY <3>1, <5>1, <5>3, StrictFacts
      <4> HIDE DEF x
      <4> QED BY <4>1, SingleBefore
    <3>3. \A i \in 1 .. Len(delivered) : delivered[i] \in 0 .. serverEvents
      BY <1>2 DEF DeliveryInv, InboundKnown
    <3>4. \A i \in 1 .. Len(b) : b[i] \in 0 .. serverEvents
      <4>1. Len(b) = Len(inb) /\ \A i \in 1 .. Len(inb) : b[i] = inb[i].m
        BY <1>2, NumberedTypes, NumbersFacts
      <4>2. \A i \in 1 .. Len(inb) : inb[i].m \in 0 .. serverEvents
        BY <1>2 DEF DeliveryInv, InboundKnown, Fits
      <4> HIDE DEF b
      <4> QED BY <4>1, <4>2
    <3>5. \A i \in 1 .. Len(Waiting) : Waiting[i] \in 0 .. serverEvents
      <4>1. CASE Replaying
        <5>1. Waiting = <<>> /\ Len(Waiting) = 0 BY <4>1 DEF Waiting
        <5> QED BY <5>1
      <4>2. CASE ~Replaying
        <5>1. Waiting = EventNumbers(receiveBuffer) /\ receiveBuffer \in Seq(Packet)
          BY <1>1, <4>2, InboundTypes DEF Waiting
        <5>2. /\ Len(Waiting) = Len(receiveBuffer)
              /\ \A i \in 1 .. Len(receiveBuffer) : Waiting[i] = receiveBuffer[i].m
          BY <5>1, NumberedTypes, NumbersFacts
        <5>3. \A i \in 1 .. Len(receiveBuffer) : receiveBuffer[i].m \in 0 .. serverEvents
          BY <1>2 DEF DeliveryInv, InboundKnown
        <5> QED BY <5>2, <5>3
      <4> QED BY <4>1, <4>2
    <3> HIDE DEF x, b
    <3>6. b \in Seq(Nat) /\ Chain(Strict, delivered, Waiting, b) BY <1>2, <1>3 DEF b
    <3>7. Before(Strict, delivered, <<x>>) /\ Before(Strict, Waiting, <<x>>) /\ Before(Strict, b, <<x>>)
      BY <1>2, <3>2, <3>3, <3>4, <3>5, <3>6
    <3>8. Chain(Strict, delivered, Waiting, b \o <<x>>) BY <1>2, <3>1, <3>6, <3>7, ChainEnd
    <3> QED BY <3>8 DEF b, x
  <2>4. CASE inb' = inb BY <1>3, <2>1, <2>2, <2>4
  <2> QED BY <1>1, <1>8, <2>1, <2>2, <2>3, <2>4, ReplyNumbers
<1> QED BY <1>5, <1>7, <1>8

LEMMA DeliveryKept == ASSUME DeliveryInv, [Next]_vars PROVE DeliveryInv'
<1>1. LineInv' BY LineKept DEF DeliveryInv
<1>2. TypeOK /\ TypeOK' /\ NumbersInv
  <2>1. LineInv /\ LineInv' BY <1>1 DEF DeliveryInv
  <2> QED BY <2>1 DEF LineInv, BufferInv, WireInv, QueueInv, CallbackInv
<1>3. OnConnect \/ OnEvent \/ ReplayReturns \/ ReplyMove \/ StillMove BY <1>2, InboundSteps
<1>4. InboundKnown' BY <1>2, <1>3, KnownStays DEF DeliveryInv
<1>5. Chain(Strict, delivered', Waiting', EventNumbers(inb'))
  <2>1. CASE OnConnect BY <2>1, ConnectDelivers
  <2>2. CASE OnEvent BY <2>2, EventDelivers
  <2>3. CASE ~OnConnect /\ ~OnEvent BY <1>2, <1>3, <2>3, StillDelivers
  <2> QED BY <2>1, <2>2, <2>3
<1> QED BY <1>1, <1>4, <1>5 DEF DeliveryInv

LEMMA InitDelivery == Init => DeliveryInv
<1> SUFFICES ASSUME Init PROVE DeliveryInv OBVIOUS
<1>1. LineInv BY InitLine
<1>2. /\ inb = <<>> /\ receiveBuffer = <<>> /\ delivered = <<>>
      /\ Len(inb) = 0 /\ Len(receiveBuffer) = 0 /\ Len(delivered) = 0
  BY DEF Init
<1>3. InboundKnown BY <1>2 DEF InboundKnown, Fits
<1>4. EventNumbers(inb) = <<>> /\ Waiting = <<>> BY <1>2, NumbersEmpty DEF Waiting
<1>5. \A R : Chain(R, <<>>, <<>>, <<>>) BY EmptyBefore DEF Chain
<1> QED BY <1>1, <1>2, <1>3, <1>4, <1>5 DEF DeliveryInv

LEMMA DeliveryInvariant == Spec => []DeliveryInv
BY InitDelivery, DeliveryKept, PTL DEF Spec

(* The user gets the events of the server once and in order (onevent,       *)
(* emitBuffered), those that came before CONNECT included: what has been    *)
(* delivered, what waits and what is on the wire form one increasing line.  *)
THEOREM DeliveredInOrderCorrect == Spec => []DeliveredInOrder
<1>1. ASSUME DeliveryInv PROVE DeliveredInOrder
  <2>1. Sorted(Strict, delivered) BY <1>1 DEF DeliveryInv, Chain
  <2>2. delivered \in Seq(Nat) /\ serverEvents \in Nat
    BY <1>1, InboundTypes DEF DeliveryInv, LineInv, BufferInv, WireInv, QueueInv, CallbackInv
  <2>3. DOMAIN delivered = 1 .. Len(delivered) BY <2>2, LenProperties
  <2>4. \A i \in 1 .. Len(delivered) : delivered[i] \in Nat /\ delivered[i] > 0
    BY <1>1, <2>2 DEF DeliveryInv, InboundKnown
  <2>5. \A i, j \in 1 .. Len(delivered) : i < j => <<delivered[i], delivered[j]>> \in Strict
    BY <2>1 DEF Sorted
  <2>6. \A i, j \in 1 .. Len(delivered) : i < j => delivered[i] < delivered[j]
    BY <2>4, <2>5, StrictFacts
  <2> QED BY <2>3, <2>6 DEF DeliveredInOrder
<1> QED BY <1>1, DeliveryInvariant, PTL

(***************************************************************************)
(* What leaves the buffer                                                   *)
(***************************************************************************)
Carries(s, m) == \E i \in 1 .. Len(s) : s[i].type = "EVENT" /\ s[i].m = m

LEMMA CopiesFinite ==
  ASSUME NEW s \in Seq(Packet), NEW m
  PROVE  /\ IsFiniteSet({i \in EventsIn(s) : s[i].m = m})
         /\ \A i : i \in {j \in EventsIn(s) : s[j].m = m}
                     <=> i \in 1 .. Len(s) /\ s[i].type = "EVENT" /\ s[i].m = m
<1> DEFINE S == {i \in EventsIn(s) : s[i].m = m}
<1>1. Len(s) \in Nat /\ DOMAIN s = 1 .. Len(s) BY LenProperties
<1>2. IsFiniteSet(1 .. Len(s)) BY <1>1, FS_Interval
<1>3. S \in SUBSET (1 .. Len(s)) BY <1>1 DEF EventsIn
<1>4. IsFiniteSet(S) BY <1>2, <1>3, FS_Subset
<1> QED BY <1>1, <1>4 DEF EventsIn

LEMMA CopiesCarried ==
  ASSUME NEW s \in Seq(Packet), NEW m
  PROVE  Copies(s, m) \in Nat /\ (Copies(s, m) > 0 <=> Carries(s, m))
<1> DEFINE S == {i \in EventsIn(s) : s[i].m = m}
<1>1. IsFiniteSet(S) BY CopiesFinite
<1>2. Carries(s, m) <=> S # {} BY CopiesFinite DEF Carries
<1> HIDE DEF S
<1>3. Cardinality(S) \in Nat BY <1>1, FS_CardinalityType
<1>4. Cardinality(S) = 0 <=> S = {} BY <1>1, FS_EmptySet
<1>5. Copies(s, m) = Cardinality(S) BY DEF Copies, S
<1> QED BY <1>2, <1>3, <1>4, <1>5

(* What is written after s adds its copies to those of s.                   *)
LEMMA CopiesGrow ==
  ASSUME NEW s \in Seq(Packet), NEW t \in Seq(Packet), NEW m, Carries(t, m)
  PROVE  Copies(s \o t, m) > Copies(s, m)
<1> DEFINE r == s \o t
           S == {i \in EventsIn(s) : s[i].m = m}
           T == {i \in EventsIn(r) : r[i].m = m}
<1>1. /\ Len(s) \in Nat /\ Len(t) \in Nat /\ r \in Seq(Packet) /\ Len(r) = Len(s) + Len(t)
      /\ \A i \in 1 .. Len(s) + Len(t) : r[i] = IF i <= Len(s) THEN s[i] ELSE t[i - Len(s)]
  BY LenProperties, ConcatProperties
<1> HIDE DEF r
<1>2. /\ IsFiniteSet(S)
      /\ \A i : i \in S <=> i \in 1 .. Len(s) /\ s[i].type = "EVENT" /\ s[i].m = m
  BY CopiesFinite
<1>3. /\ IsFiniteSet(T)
      /\ \A i : i \in T <=> i \in 1 .. Len(r) /\ r[i].type = "EVENT" /\ r[i].m = m
  BY <1>1, CopiesFinite
<1>4. Copies(s, m) = Cardinality(S) /\ Copies(r, m) = Cardinality(T) BY DEF Copies
<1> HIDE DEF S, T
<1>5. \A i \in 1 .. Len(s) : i \in 1 .. Len(r) /\ r[i] = s[i] BY <1>1
<1>6. S \in SUBSET T BY <1>2, <1>3, <1>5
<1>7. PICK j \in 1 .. Len(t) : t[j].type = "EVENT" /\ t[j].m = m BY DEF Carries
<1>8. Len(s) + j \in 1 .. Len(r) /\ r[Len(s) + j] = t[j] /\ ~(Len(s) + j \in 1 .. Len(s))
  <2> DEFINE k == Len(s) + j
  <2>1. k \in 1 .. Len(s) + Len(t) /\ ~(k <= Len(s)) /\ k - Len(s) = j BY <1>1, <1>7
  <2> HIDE DEF k
  <2>2. r[k] = t[j] BY <1>1, <2>1
  <2>3. k \in 1 .. Len(r) /\ ~(k \in 1 .. Len(s)) BY <1>1, <2>1
  <2> QED BY <2>2, <2>3 DEF k
<1>9. S # T BY <1>2, <1>3, <1>7, <1>8
<1>10. Cardinality(S) \in Nat /\ Cardinality(T) \in Nat BY <1>2, <1>3, FS_CardinalityType
<1>11. Cardinality(S) <= Cardinality(T) /\ Cardinality(S) # Cardinality(T)
  BY <1>3, <1>6, <1>9, FS_Subset
<1> QED BY <1>4, <1>10, <1>11 DEF r

(* What a step does to the buffer.                                          *)
LEMMA BufferSteps ==
  ASSUME BufferInv, [Next]_vars
  PROVE  \/ sendBuffer' = sendBuffer
         \/ \E p \in Packet : sendBuffer' = Append(sendBuffer, p)
         \/ FlushSendBuffer /\ (connected' /\ subs => Accepts)
         \/ \E h \in timers : TimerFires(h)
<1>0. TypeOK /\ OpenFits BY DEF BufferInv, WireInv, QueueInv, CallbackInv
<1> USE DEF socketVars
<1>1. CASE UNCHANGED vars BY <1>1 DEF vars
<1>2. CASE Emit
  <2>1. EmitMove(emitted + 1) BY <1>2, EmitMoves
  <2> QED BY <2>1 DEF EmitMove, BufferMove, WriteMove, AddMove, MessageOf
<1>3. CASE Connect \/ Disconnect \/ \E n \in toAck : UserAcks(n)
  BY <1>3 DEF Connect, Disconnect, UserAcks
<1>4. CASE ReplayReturns
  <2>1. FlushSendBuffer /\ UNCHANGED connected /\ stack # <<>> BY <1>4 DEF ReplayReturns
  <2>2. stack \in Seq(Frames) BY <1>0 DEF TypeOK, SocketTypeOK
  <2>3. Len(stack) > 0 BY <2>1, <2>2, EmptyLen
  <2>4. connected /\ subs => eng = "open" BY <1>0, <2>3 DEF OpenFits
  <2> QED BY <2>1, <2>4 DEF Accepts
<1>5. CASE ConnectReturns \/ DisconnectReturns
  BY <1>5 DEF ConnectReturns, DisconnectReturns
<1>6. CASE Timers BY <1>6 DEF Timers
<1>7. CASE Io
  BY <1>7 DEF Io, EngineOpens, EngineFails, EngineStalls, EngineLost, ManagerReconnects,
              CloseReturns
<1>8. CASE OnConnect
  <2>1. eng = "open" BY <1>8 DEF OnConnect, Arrives
  <2>2. FlushSendBuffer \/ UNCHANGED sendBuffer BY <1>8 DEF OnConnect
  <2> QED BY <2>1, <2>2 DEF Accepts
<1>9. CASE OnEvent \/ OnAck \/ OnDisconnect \/ OnConnectError \/ Unheard
  BY <1>9 DEF OnEvent, OnAck, OnDisconnect, OnConnectError, OnRefused, Unheard
<1>10. CASE Server BY <1>10 DEF Server, ServerTakes, ServerEmits, ServerDisconnects
<1> QED BY <1>1, <1>2, <1>3, <1>4, <1>5, <1>6, <1>7, <1>8, <1>9, <1>10
        DEF Next, User, Returns, OnPacket

(* A timer takes no packet out of the buffer but the one of its message.    *)
LEMMA TimerUnbuffers ==
  ASSUME WireInv, NEW h \in timers, TimerFires(h), NEW m \in Messages,
         Carries(sendBuffer, m), ~Carries(sendBuffer', m)
  PROVE  Len(outcomes'[m]) > Len(outcomes[m])
<1>1. /\ sendBuffer \in Seq(Packet) /\ outcomes \in [Messages -> Seq({"ok", "err"})]
      /\ timers = {g \in acks : g.kind = "timed"} /\ acks \subseteq Handler
      /\ \A g \in acks : ~g.queued => outcomes[g.m] = <<>>
      /\ IdsFit(sendBuffer, acks, ids) /\ BufferFits(acks)
  BY DEF WireInv, QueueInv, CallbackInv, TypeOK, SocketTypeOK, QueueTypeOK, HistoryTypeOK,
         HandlersOK, WireFits
<1>2. DOMAIN sendBuffer = 1 .. Len(sendBuffer) BY <1>1, LenProperties
<1>3. sendBuffer' = Unbuffer(h.id) BY DEF TimerFires
<1>4. PICK k \in DOMAIN sendBuffer : sendBuffer[k].id = h.id /\ sendBuffer' = RemoveAt(sendBuffer, k)
  BY <1>3 DEF Unbuffer
<1>5. h \in acks /\ h.m \in Messages BY <1>1 DEF Handler
<1>6. ~h.queued /\ h.m = sendBuffer[k].m BY <1>1, <1>2, <1>4, <1>5 DEF BufferFits, IdsFit
<1>7. sendBuffer[k].m = m
  <2>1. PICK j \in 1 .. Len(sendBuffer) : sendBuffer[j].type = "EVENT" /\ sendBuffer[j].m = m
    BY DEF Carries
  <2>2. /\ Len(sendBuffer') = Len(sendBuffer) - 1 /\ Len(sendBuffer) \in Nat
        /\ k \in 1 .. Len(sendBuffer)
        /\ \A i \in 1 .. Len(sendBuffer) - 1 :
              sendBuffer'[i] = IF i < k THEN sendBuffer[i] ELSE sendBuffer[i + 1]
    BY <1>1, <1>4, RemovePart
  <2>3. ASSUME j < k PROVE FALSE
    <3>1. j \in 1 .. Len(sendBuffer') /\ sendBuffer'[j] = sendBuffer[j] BY <2>1, <2>2, <2>3
    <3> QED BY <2>1, <3>1 DEF Carries
  <2>4. ASSUME j > k PROVE FALSE
    <3> DEFINE i == j - 1
    <3>1. i \in 1 .. Len(sendBuffer) - 1 /\ ~(i < k) /\ i + 1 = j BY <2>1, <2>2, <2>4
    <3> HIDE DEF i
    <3>2. i \in 1 .. Len(sendBuffer') /\ sendBuffer'[i] = sendBuffer[j] BY <2>2, <3>1
    <3> QED BY <2>1, <3>2 DEF Carries
  <2>5. j = k BY <2>1, <2>2, <2>3, <2>4
  <2> QED BY <2>1, <2>5
<1>8. outcomes' = Told(outcomes, m, "err") BY <1>6, <1>7 DEF TimerFires
<1>9. outcomes[m] = <<>> BY <1>1, <1>5, <1>6, <1>7
<1>10. Len(outcomes'[m]) = 1 BY <1>1, <1>8, <1>9, ToldFacts
<1>11. Len(outcomes[m]) = 0 BY <1>9
<1> QED BY <1>10, <1>11

(* A packet leaves sendBuffer only for the wire, or when its timer runs out *)
(* (emitBuffered, _registerAckCallback), as long as the socket stays        *)
(* connected to a manager it has subscribed to.                             *)
THEOREM NoBufferLossCorrect == Spec => NoBufferLoss
<1> DEFINE Step == connected' /\ subs =>
                     \A m \in Messages : Copies(sendBuffer', m) < Copies(sendBuffer, m)
                       => \/ Copies(out', m) > Copies(out, m)
                          \/ Len(outcomes'[m]) > Len(outcomes[m])
<1>1. ASSUME LineInv, LineInv', [Next]_vars PROVE Step
  <2> SUFFICES ASSUME connected', subs, NEW m \in Messages,
                      Copies(sendBuffer', m) < Copies(sendBuffer, m)
               PROVE  \/ Copies(out', m) > Copies(out, m)
                      \/ Len(outcomes'[m]) > Len(outcomes[m])
    OBVIOUS
  <2>1. TypeOK /\ TypeOK' /\ BufferInv /\ WireInv
    BY <1>1 DEF LineInv, BufferInv, WireInv, QueueInv, CallbackInv
  <2>2. sendBuffer \in Seq(Packet) /\ sendBuffer' \in Seq(Packet) /\ out \in Seq(Packet)
        /\ m \in Nat \ {0}
    BY <2>1, BoundsAssumption DEF TypeOK, SocketTypeOK, WireTypeOK, Messages
  <2>3. Copies(sendBuffer, m) \in {0, 1} BY <1>1, <2>2, CopiesFew DEF LineInv
  <2>4. Copies(sendBuffer', m) \in Nat /\ (Copies(sendBuffer', m) > 0 <=> Carries(sendBuffer', m))
    BY <2>2, CopiesCarried
  <2>5. Copies(sendBuffer, m) > 0 <=> Carries(sendBuffer, m) BY <2>2, CopiesCarried
  <2>6. Carries(sendBuffer, m) /\ ~Carries(sendBuffer', m) BY <2>3, <2>4, <2>5
  <2>7. sendBuffer' # sendBuffer BY <2>6
  <2>8. ASSUME NEW p \in Packet, sendBuffer' = Append(sendBuffer, p) PROVE FALSE
    <3>1. /\ Len(sendBuffer') = Len(sendBuffer) + 1 /\ Len(sendBuffer) \in Nat
          /\ \A i \in 1 .. Len(sendBuffer) : sendBuffer'[i] = sendBuffer[i]
      BY <2>2, <2>8, AppendProperties
    <3>2. \A i \in 1 .. Len(sendBuffer) : i \in 1 .. Len(sendBuffer') /\ sendBuffer'[i] = sendBuffer[i]
      BY <3>1
    <3> QED BY <2>6, <3>2 DEF Carries
  <2>9. CASE FlushSendBuffer /\ Accepts
    <3>1. out' = out \o sendBuffer BY <2>9 DEF FlushSendBuffer, Write
    <3>2. Copies(out \o sendBuffer, m) > Copies(out, m) BY <2>2, <2>6, CopiesGrow
    <3> QED BY <3>1, <3>2
  <2>10. ASSUME NEW h \in timers, TimerFires(h) PROVE Len(outcomes'[m]) > Len(outcomes[m])
    BY <2>1, <2>6, <2>10, TimerUnbuffers
  <2> QED BY <1>1, <2>1, <2>7, <2>8, <2>9, <2>10, BufferSteps
<1>2. Spec => [][Step]_vars BY <1>1, LineInvariant, PTL DEF Spec
<1> QED BY <1>2 DEF NoBufferLoss
=============================================================================
