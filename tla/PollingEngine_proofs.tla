-------------------------- MODULE PollingEngine_proofs --------------------------
(***************************************************************************)
(* Proofs about PollingEngine, for any number of messages and pings in      *)
(* either direction, and whether or not a request may be answered before a  *)
(* task that is deferred: its types, that there is one poll, and that a     *)
(* close is final, told to the server and emitted once.                     *)
(***************************************************************************)
EXTENDS PollingEngine, SequenceTheorems, TLAPS

Packets ==
  [type : {"open", "close", "ping", "pong", "message", "noop", "error"}, data : Nat]
Posts == [owner : Owners, packets : Seq(Packets), sid : BOOLEAN]

Client ==
  [readyState : {"opening", "open", "closing", "closed"}, writeBuffer : Seq(Packets),
   sid : BOOLEAN, ping : BOOLEAN, drainClose : BOOLEAN,
   listeners : {"none", "open", "ping"},
   transport : {"opening", "open", "closed"}, boot : {"new", "opening", "polling"},
   writable : BOOLEAN, attached : BOOLEAN, closeListener : BOOLEAN,
   sendQueue : Seq(Packets), running : BOOLEAN, posts : Seq(Posts), polls : Nat,
   reading : BOOLEAN, payload : Seq(Packets),
   written : Nat, got : Seq(Nat), closes : Nat]

TypeInv ==
  /\ c \in Client /\ c.written <= MaxWrites
  /\ session \in {"none", "open", "closed"}
  /\ outbox \in Seq(Packets) /\ served \in [messages : Nat, pings : Nat]
  /\ faulted \in BOOLEAN /\ expired \in BOOLEAN

(***************************************************************************)
(* What the operators do to a client                                        *)
(***************************************************************************)
(* The fields that sending and closing leave alone. *)
Aside(e, f) ==
  /\ f.sid = e.sid /\ f.drainClose = e.drainClose /\ f.listeners = e.listeners
  /\ f.boot = e.boot /\ f.polls = e.polls /\ f.reading = e.reading
  /\ f.payload = e.payload /\ f.written = e.written /\ f.got = e.got
  /\ f.writable = e.writable

(* What the closing of the engine is about, untouched.                      *)
Unclosed(e, f) ==
  /\ f.readyState = e.readyState /\ f.transport = e.transport
  /\ f.attached = e.attached /\ f.closeListener = e.closeListener
  /\ f.ping = e.ping /\ f.closes = e.closes

LEMMA EngineFlushEffect ==
  ASSUME NEW e \in Client
  PROVE  LET f == EngineFlush(e)
         IN /\ f \in Client /\ Aside(e, f) /\ Unclosed(e, f)
            /\ f.posts = e.posts /\ f.running = e.running
            /\ f.sendQueue # e.sendQueue => e.transport = "open" /\ e.writable
<1>1. CASE e.readyState = "closed" \/ ~e.writable
  BY <1>1 DEF EngineFlush, Aside, Unclosed
<1>2. CASE ~(e.readyState = "closed" \/ ~e.writable) /\ e.transport = "open"
  <2>1. EngineFlush(e) = [e EXCEPT !.sendQueue = @ \o e.writeBuffer, !.writeBuffer = <<>>]
    BY <1>2 DEF EngineFlush, Moved
  <2>2. e.sendQueue \o e.writeBuffer \in Seq(Packets) /\ <<>> \in Seq(Packets)
    BY ConcatProperties, EmptySeq DEF Client
  <2> QED BY ZenonT(60), <1>2, <2>1, <2>2 DEF Client, Aside, Unclosed
<1>3. CASE ~(e.readyState = "closed" \/ ~e.writable) /\ e.transport # "open"
  <2>1. EngineFlush(e) = [e EXCEPT !.writeBuffer = <<>>] BY <1>3 DEF EngineFlush
  <2>2. <<>> \in Seq(Packets) BY EmptySeq
  <2> QED BY <2>1, <2>2 DEF Client, Aside, Unclosed
<1> QED BY <1>1, <1>2, <1>3

LEMMA SendPacketEffect ==
  ASSUME NEW e \in Client, NEW p \in Packets
  PROVE  LET f == SendPacket(e, p)
         IN /\ f \in Client /\ Aside(e, f) /\ Unclosed(e, f)
            /\ f.posts = e.posts /\ f.running = e.running
            /\ f.sendQueue # e.sendQueue =>
                 e.transport = "open" /\ e.writable /\ e.readyState # "closed"
<1>1. CASE e.readyState \in {"closing", "closed"}
  BY <1>1 DEF SendPacket, Aside, Unclosed
<1>2. CASE e.readyState \notin {"closing", "closed"}
  <2> DEFINE d == [e EXCEPT !.writeBuffer = Append(@, p)]
  <2>1. Append(e.writeBuffer, p) \in Seq(Packets) BY AppendProperties DEF Client
  <2>2. /\ d \in Client /\ Aside(e, d) /\ Unclosed(e, d)
        /\ d.posts = e.posts /\ d.running = e.running /\ d.sendQueue = e.sendQueue
    BY <2>1 DEF Client, Aside, Unclosed
  <2>3. SendPacket(e, p) = EngineFlush(d) BY <1>2 DEF SendPacket
  <2> HIDE DEF d
  <2> QED BY <1>2, <2>2, <2>3, EngineFlushEffect DEF Aside, Unclosed
<1> QED BY <1>1, <1>2

(* A thread of the ping timer that waits is cancelled, any other stays.     *)
Cancelled(p) == IF p.owner = "timer" THEN [p EXCEPT !.owner = "cancelled"] ELSE p
AllCancelled(e, f) ==
  /\ Len(f.posts) = Len(e.posts)
  /\ \A i \in 1 .. Len(e.posts) : f.posts[i] = Cancelled(e.posts[i])

LEMMA ClearPingEffect ==
  ASSUME NEW e \in Client
  PROVE  LET f == ClearPing(e)
         IN /\ f \in Client /\ Aside(e, f) /\ AllCancelled(e, f)
            /\ f.ping = FALSE /\ f.closes = e.closes
            /\ f.readyState = e.readyState /\ f.transport = e.transport
            /\ f.attached = e.attached /\ f.closeListener = e.closeListener
            /\ f.sendQueue = e.sendQueue /\ f.running = e.running
            /\ f.writeBuffer = e.writeBuffer
<1> DEFINE s == e.posts
           P == [i \in DOMAIN s |->
                   IF s[i].owner = "timer" THEN [s[i] EXCEPT !.owner = "cancelled"] ELSE s[i]]
<1>1. s \in Seq(Posts) BY DEF Client
<1>2. /\ Len(s) \in Nat /\ DOMAIN s = 1 .. Len(s)
      /\ \A i \in 1 .. Len(s) : s[i] \in Posts
  BY <1>1, LenProperties, ElementOfSeq
<1>3. ClearPing(e) = [e EXCEPT !.ping = FALSE, !.posts = P] BY DEF ClearPing
<1>4. \A i \in 1 .. Len(s) : P[i] = Cancelled(s[i]) /\ P[i] \in Posts
  BY <1>2 DEF Cancelled, Posts, Owners
<1>5. P = [i \in 1 .. Len(s) |-> P[i]] BY <1>2
<1> HIDE DEF P
<1>6. P \in Seq(Posts) /\ Len(P) = Len(s)
  <2>1. P \in [1 .. Len(s) -> Posts] BY <1>4, <1>5
  <2> QED BY <1>2, <2>1, LenProperties, SeqDef
<1>7. ClearPing(e) \in Client BY <1>3, <1>6 DEF Client
<1> QED BY <1>3, <1>4, <1>6, <1>7 DEF Client, Aside, AllCancelled

(* The end of the engine: "close" is emitted and its transport ignored.     *)
LEMMA ClosedEffect ==
  ASSUME NEW e \in Client
  PROVE  LET f == Closed(e)
         IN /\ f \in Client /\ Aside(e, f)
            /\ f.readyState = "closed" /\ f.attached = FALSE /\ f.closeListener = FALSE
            /\ f.closes = e.closes + 1
            /\ f.transport = e.transport /\ f.ping = e.ping /\ f.sendQueue = e.sendQueue
            /\ f.posts = e.posts /\ f.running = e.running
<1> DEFINE n == e.closes + 1
<1>1. <<>> \in Seq(Packets) /\ n \in Nat BY EmptySeq DEF Client
<1>2. Closed(e) = [e EXCEPT !.attached = FALSE, !.closeListener = FALSE,
                            !.readyState = "closed", !.closes = n, !.writeBuffer = <<>>]
  BY DEF Closed
<1>3. n = e.closes + 1 OBVIOUS
<1> HIDE DEF n
<1>4. Closed(e) \in Client BY ZenonT(60), <1>1, <1>2 DEF Client
<1>5. Aside(e, Closed(e)) BY <1>2 DEF Client, Aside
<1> QED BY <1>2, <1>3, <1>4, <1>5 DEF Client

(* One request more, with what was queued. *)
Posted(e, f, owner, packets) ==
  /\ Len(f.posts) = Len(e.posts) + 1
  /\ \A i \in 1 .. Len(e.posts) : f.posts[i] = e.posts[i]
  /\ f.posts[Len(e.posts) + 1] = Post(owner, packets, e.sid)

LEMMA PostsAre ==
  ASSUME NEW e \in Client
  PROVE  /\ Len(e.posts) \in Nat /\ DOMAIN e.posts = 1 .. Len(e.posts)
         /\ \A i \in 1 .. Len(e.posts) : e.posts[i] \in Posts
<1>1. e.posts \in Seq(Posts) BY DEF Client
<1> QED BY <1>1, LenProperties, ElementOfSeq

LEMMA TransportFlushEffect ==
  ASSUME NEW e \in Client, NEW owner \in Owners
  PROVE  LET f == TransportFlush(e, owner)
         IN /\ f \in Client /\ Aside(e, f) /\ Unclosed(e, f) /\ f.running = e.running
            /\ f.sendQueue = <<>>
            /\ f.writeBuffer = e.writeBuffer
            /\ e.sendQueue = <<>> => f = e
            /\ e.sendQueue # <<>> => Posted(e, f, owner, e.sendQueue)
<1>1. CASE e.sendQueue = <<>>
  BY <1>1 DEF TransportFlush, Aside, Unclosed
<1>2. CASE e.sendQueue # <<>>
  <2> DEFINE p == Post(owner, e.sendQueue, e.sid)
             f == TransportFlush(e, owner)
  <2>1. f = [e EXCEPT !.sendQueue = <<>>, !.posts = Append(@, p)]
    BY <1>2 DEF TransportFlush
  <2>2. p \in Posts /\ e.posts \in Seq(Posts) BY DEF Post, Posts, Client
  <2> HIDE DEF p
  <2>3. /\ Append(e.posts, p) \in Seq(Posts) /\ Len(Append(e.posts, p)) = Len(e.posts) + 1
        /\ \A i \in 1 .. Len(e.posts) : Append(e.posts, p)[i] = e.posts[i]
        /\ Append(e.posts, p)[Len(e.posts) + 1] = p
    BY <2>2, AppendProperties
  <2>4. f.posts = Append(e.posts, p) BY <2>1 DEF Client
  <2>5. Posted(e, f, owner, e.sendQueue) BY <2>3, <2>4 DEF Posted, p
  <2>6. f \in Client /\ f.sendQueue = <<>> /\ f.writeBuffer = e.writeBuffer
    <3>1. <<>> \in Seq(Packets) BY EmptySeq
    <3> QED BY ZenonT(60), <2>1, <2>3, <3>1 DEF Client
  <2>7. Aside(e, f) /\ Unclosed(e, f) /\ f.running = e.running
    BY <2>1 DEF Client, Aside, Unclosed
  <2> QED BY <1>2, <2>5, <2>6, <2>7
<1> QED BY <1>1, <1>2

(* transport.close(), called when the engine no longer listens to its end.  *)
Told(e) == Append(e.sendQueue, ClosePacket)

LEMMA CloseTransportEffect ==
  ASSUME NEW e \in Client, NEW owner \in Owners, ~(e.closeListener /\ Live(e))
  PROVE  LET f == CloseTransport(e, owner)
         IN /\ f \in Client /\ Aside(e, f) /\ f.transport = "closed"
            /\ f.readyState = e.readyState /\ f.attached = e.attached
            /\ f.closeListener = e.closeListener /\ f.ping = e.ping /\ f.closes = e.closes
            /\ e.transport = "closed" => f = e
            /\ e.transport = "open" =>
                 f.sendQueue = <<>> /\ Posted(e, f, owner, Told(e))
            /\ e.transport = "opening" /\ e.sendQueue = <<>> =>
                 f.sendQueue = <<>> /\ f.posts = e.posts
            /\ e.transport = "opening" /\ e.sendQueue # <<>> =>
                 f.sendQueue = <<>> /\ Posted(e, f, owner, e.sendQueue)
<1> DEFINE f == CloseTransport(e, owner)
<1>1. CASE e.transport = "closed"
  BY <1>1 DEF CloseTransport, Aside
<1>2. CASE e.transport = "open"
  <2> DEFINE d == [e EXCEPT !.sendQueue = Told(e)]
             g == [d EXCEPT !.transport = "closed"]
  <2>1. Told(e) \in Seq(Packets) /\ Told(e) # <<>>
    <3>1. ClosePacket \in Packets BY DEF ClosePacket, Packet, Packets
    <3>2. e.sendQueue \in Seq(Packets) BY DEF Client
    <3>3. Told(e) \in Seq(Packets) /\ Len(Told(e)) = Len(e.sendQueue) + 1
      BY <3>1, <3>2, AppendProperties DEF Told
    <3>4. Len(e.sendQueue) \in Nat BY <3>2, LenProperties
    <3> QED BY <3>3, <3>4, EmptySeq
  <2>2. d \in Client BY <2>1 DEF Client
  <2>3. g \in Client BY <2>2 DEF Client
  <2>4. ShutTransport(d) = g
    BY <2>1 DEF ShutTransport, Live, Client
  <2>5. f = TransportFlush(g, owner)
    BY <1>2, <2>4 DEF CloseTransport, Told
  <2>6. /\ g.sendQueue = Told(e) /\ g.posts = e.posts /\ g.sid = e.sid /\ Aside(e, g)
        /\ g.transport = "closed" /\ g.readyState = e.readyState /\ g.attached = e.attached
        /\ g.closeListener = e.closeListener /\ g.ping = e.ping /\ g.closes = e.closes
    BY <2>1 DEF Client, Aside
  <2> HIDE DEF g, f
  <2>7. /\ f \in Client /\ Aside(g, f) /\ Unclosed(g, f) /\ f.sendQueue = <<>>
        /\ Posted(g, f, owner, g.sendQueue)
    BY <2>1, <2>3, <2>5, <2>6, TransportFlushEffect
  <2>8. Aside(e, f) BY <2>6, <2>7 DEF Aside
  <2>9. Posted(e, f, owner, Told(e)) BY <2>6, <2>7 DEF Posted
  <2> QED BY <1>2, <2>6, <2>7, <2>8, <2>9 DEF Unclosed, f
<1>3. CASE e.transport = "opening"
  <2> DEFINE g == [e EXCEPT !.transport = "closed"]
             h == TransportFlush(g, owner)
  <2>1. g \in Client BY DEF Client
  <2>2. ShutTransport(e) = g BY DEF ShutTransport, Live, Client
  <2>3. f = [h EXCEPT !.running = FALSE] BY <1>3, <2>2 DEF CloseTransport
  <2>4. /\ g.sendQueue = e.sendQueue /\ g.posts = e.posts /\ g.sid = e.sid /\ Aside(e, g)
        /\ g.transport = "closed" /\ g.readyState = e.readyState /\ g.attached = e.attached
        /\ g.closeListener = e.closeListener /\ g.ping = e.ping /\ g.closes = e.closes
    BY DEF Client, Aside
  <2> HIDE DEF g
  <2>5. /\ h \in Client /\ Aside(g, h) /\ Unclosed(g, h) /\ h.sendQueue = <<>>
        /\ g.sendQueue = <<>> => h = g
        /\ g.sendQueue # <<>> => Posted(g, h, owner, g.sendQueue)
    BY <2>1, TransportFlushEffect
  <2> HIDE DEF h
  <2>6. /\ f \in Client /\ Aside(h, f) /\ Unclosed(h, f) /\ f.sendQueue = <<>>
        /\ f.posts = h.posts
    BY ZenonT(60), <2>3, <2>5 DEF Client, Aside, Unclosed
  <2> HIDE DEF f
  <2>7. Aside(e, f) BY <2>4, <2>5, <2>6 DEF Aside
  <2>8. e.sendQueue # <<>> => Posted(e, f, owner, e.sendQueue)
    BY <2>4, <2>5, <2>6 DEF Posted
  <2> QED BY <1>3, <2>4, <2>5, <2>6, <2>7, <2>8 DEF Unclosed, f
<1> QED BY <1>1, <1>2, <1>3 DEF Client

(* _onClose closes the transport, and waits for the close packet to go out  *)
(* or comes to its end at once.                                             *)
Shuts(e, f) ==
  /\ f \in Client /\ Aside(e, f)
  /\ f.transport = "closed" /\ f.closeListener = FALSE /\ f.ping = FALSE
Waits(e, f, owner) ==
  /\ e.transport = "open" /\ Shuts(e, f)
  /\ f.readyState = e.readyState /\ f.attached = e.attached /\ f.closes = e.closes
  /\ f.sendQueue = <<>>
  /\ Len(f.posts) = Len(e.posts) + 1
  /\ \A i \in 1 .. Len(e.posts) : f.posts[i] = Cancelled(e.posts[i])
  /\ f.posts[Len(e.posts) + 1] = Post(owner, Told(e), e.sid)
Ends(e, f) ==
  /\ e.transport # "open" /\ Shuts(e, f)
  /\ f.readyState = "closed" /\ f.attached = FALSE /\ f.closes = e.closes + 1
  /\ f.sendQueue = e.sendQueue
  /\ AllCancelled(e, f)

LEMMA EngineCloseEffect ==
  ASSUME NEW e \in Client, NEW owner \in Owners, Live(e),
         e.transport = "opening" => e.sendQueue = <<>>
  PROVE  Waits(e, EngineClose(e, owner), owner) \/ Ends(e, EngineClose(e, owner))
<1> DEFINE b == ClearPing(e)
           d == [b EXCEPT !.closeListener = FALSE]
           s == CloseTransport(d, owner)
           f == EngineClose(e, owner)
<1>1. f = IF Len(s.posts) > Len(d.posts) THEN s ELSE Closed(s) BY DEF EngineClose
<1>2. /\ b \in Client /\ Aside(e, b) /\ AllCancelled(e, b)
      /\ b.ping = FALSE /\ b.closes = e.closes
      /\ b.readyState = e.readyState /\ b.transport = e.transport
      /\ b.attached = e.attached /\ b.sendQueue = e.sendQueue
  BY ClearPingEffect
<1> HIDE DEF b
<1>3. d \in Client BY <1>2 DEF Client
<1>4. /\ Aside(b, d) /\ d.ping = FALSE /\ d.closes = e.closes
      /\ d.closeListener = FALSE /\ d.posts = b.posts
      /\ d.readyState = e.readyState /\ d.transport = e.transport
      /\ d.attached = e.attached /\ d.sendQueue = e.sendQueue
  BY <1>2 DEF Client, Aside
<1>5. Aside(e, d) /\ AllCancelled(e, d) BY <1>2, <1>4 DEF Aside, AllCancelled
<1> HIDE DEF d
<1>6. /\ s \in Client /\ Aside(d, s) /\ s.transport = "closed"
      /\ s.readyState = d.readyState /\ s.attached = d.attached
      /\ s.closeListener = d.closeListener /\ s.ping = d.ping /\ s.closes = d.closes
      /\ d.transport = "closed" => s = d
      /\ d.transport = "open" => s.sendQueue = <<>> /\ Posted(d, s, owner, Told(d))
      /\ d.transport = "opening" /\ d.sendQueue = <<>> =>
           s.sendQueue = <<>> /\ s.posts = d.posts
  BY <1>3, <1>4, CloseTransportEffect
<1> HIDE DEF s
<1>7. Aside(e, s) BY <1>5, <1>6 DEF Aside
<1>8. Len(d.posts) \in Nat BY <1>3, PostsAre
<1>9. CASE e.transport = "open"
  <2>1. Posted(d, s, owner, Told(d)) /\ s.sendQueue = <<>> BY <1>4, <1>6, <1>9
  <2>2. f = s BY <1>1, <1>8, <2>1 DEF Posted
  <2>3. /\ Len(s.posts) = Len(e.posts) + 1
        /\ \A i \in 1 .. Len(e.posts) : s.posts[i] = Cancelled(e.posts[i])
        /\ s.posts[Len(e.posts) + 1] = Post(owner, Told(e), e.sid)
    BY <1>4, <1>5, <2>1 DEF Posted, AllCancelled, Told, Aside
  <2> QED BY <1>4, <1>6, <1>7, <1>9, <2>1, <2>2, <2>3 DEF Waits, Shuts
<1>10. CASE e.transport # "open"
  <2>1. s.posts = d.posts /\ s.sendQueue = e.sendQueue
    BY <1>4, <1>6, <1>10 DEF Client
  <2>2. f = Closed(s) BY <1>1, <1>8, <2>1
  <2>3. /\ f \in Client /\ Aside(s, f)
        /\ f.readyState = "closed" /\ f.attached = FALSE /\ f.closeListener = FALSE
        /\ f.closes = s.closes + 1 /\ f.transport = s.transport /\ f.ping = s.ping
        /\ f.sendQueue = s.sendQueue /\ f.posts = s.posts
    <3> DEFINE g == Closed(s)
    <3>1. /\ g \in Client /\ Aside(s, g)
          /\ g.readyState = "closed" /\ g.attached = FALSE /\ g.closeListener = FALSE
          /\ g.closes = s.closes + 1 /\ g.transport = s.transport /\ g.ping = s.ping
          /\ g.sendQueue = s.sendQueue /\ g.posts = s.posts
      BY <1>6, ClosedEffect
    <3> QED BY <2>2, <3>1
  <2> HIDE DEF f
  <2>4. Aside(e, f) BY <1>7, <2>3 DEF Aside
  <2>5. AllCancelled(e, f) BY <1>5, <2>1, <2>3 DEF AllCancelled
  <2> QED BY <1>4, <1>6, <1>10, <2>1, <2>3, <2>4, <2>5 DEF Ends, Shuts, f
<1> QED BY <1>9, <1>10

(* close() by the user or the manager is _onClose: its second close of the  *)
(* transport finds it closed. *)
LEMMA ForcedCloseIs ==
  ASSUME NEW e \in Client, Live(e), e.transport = "opening" => e.sendQueue = <<>>
  PROVE  ForcedClose(e) = EngineClose(e, "forced")
<1> DEFINE f == EngineClose(e, "forced")
<1>1. ForcedClose(e) = IF Len(f.posts) > Len(e.posts) THEN f ELSE CloseTransport(f, "last")
  BY DEF ForcedClose
<1>2. "forced" \in Owners /\ Len(e.posts) \in Nat BY PostsAre DEF Owners
<1>3. Waits(e, f, "forced") \/ Ends(e, f) BY <1>2, EngineCloseEffect
<1> HIDE DEF f
<1>4. CASE Waits(e, f, "forced") BY <1>1, <1>2, <1>4 DEF Waits, f
<1>5. CASE Ends(e, f)
  <2>1. Len(f.posts) = Len(e.posts) /\ f.transport = "closed"
    BY <1>5 DEF Ends, AllCancelled, Shuts
  <2>2. CloseTransport(f, "last") = f BY <2>1 DEF CloseTransport
  <2> QED BY <1>1, <1>2, <2>1, <2>2 DEF f
<1> QED BY <1>3, <1>4, <1>5

(***************************************************************************)
(* The client's invariant                                                   *)
(***************************************************************************)
Ending == {"closing", "timer", "forced"}

(* Only a request that is answered before a deferred task, and fails, ends  *)
(* an engine whose transport is still to be opened.                         *)
Early == FastRequests /\ faulted

(* A closed engine hears nothing, and its transport is closed.              *)
LifeFits(e, early) ==
  /\ e.attached = (e.readyState # "closed")
  /\ e.readyState = "closed" => ~e.closeListener
  /\ e.readyState = "closed" => e.transport = "closed" \/ early
  /\ e.boot = "new" =>
       \/ e.transport = "open" /\ (e.readyState # "closed" \/ early)
       \/ e.transport = "closed" /\ (e.readyState = "closing" \/ early)

(* What comes after the handshake, and what before it.                      *)
ShakeFits(e) ==
  /\ e.boot # "polling" => e.polls = 0 /\ ~e.reading /\ ~e.sid
  /\ e.sid => e.transport # "opening"
  /\ e.ping => e.sid
  /\ e.listeners # "none" => e.sid /\ e.reading
  /\ e.sendQueue # <<>> => e.sid
  /\ e.writable => e.sid \/ e.readyState = "closed"
  /\ e.reading /\ ~e.sid => \A i \in 1 .. Len(e.payload) : e.payload[i].type = "open"
  /\ \A i \in 1 .. Len(e.payload) :
       e.payload[i].type = "open" => ~e.sid /\ Len(e.payload) = 1

(* A thread that waits in _onClose has stopped listening to the transport,  *)
(* and with a session it has closed it.                                     *)
PostFits(e, p) ==
  /\ p.sid => e.sid
  /\ p.owner = "timer" => p.sid
  /\ p.owner \in Ending => ~e.closeListener /\ (p.sid => e.transport = "closed")
PostsFit(e) == \A i \in 1 .. Len(e.posts) : PostFits(e, e.posts[i])

Watched(e) ==
  e.readyState = "open" /\ e.transport = "open" /\ e.listeners = "none" => e.ping
PollsFit(e) == e.polls + (IF e.reading THEN 1 ELSE 0) <= 1

Wired(e, early) ==
  LifeFits(e, early) /\ ShakeFits(e) /\ PostsFit(e) /\ Watched(e) /\ PollsFit(e)

LEMMA WiredLater ==
  ASSUME NEW e \in Client, NEW early \in BOOLEAN, NEW late \in BOOLEAN, early => late,
         Wired(e, early)
  PROVE  Wired(e, late)
BY DEF Wired, LifeFits

(* Cancelling a thread leaves its request as it was.                        *)
LEMMA CancelledFits ==
  ASSUME NEW e \in Client, NEW f \in Client, NEW p \in Posts, PostFits(e, p),
         f.sid = e.sid, ~f.closeListener, e.transport = "closed" => f.transport = "closed"
  PROVE  PostFits(f, Cancelled(p))
BY DEF PostFits, Cancelled, Posts, Owners, Ending

(* _onClose keeps the client wired. *)
LEMMA EngineCloseWired ==
  ASSUME NEW e \in Client, NEW early \in BOOLEAN, Wired(e, early), Live(e),
         NEW owner \in Owners, owner = "timer" => e.sid,
         e.boot = "new" => early \/ (e.transport = "open" /\ e.readyState = "closing")
  PROVE  LET f == EngineClose(e, owner)
         IN /\ Waits(e, f, owner) \/ Ends(e, f)
            /\ Wired(f, early)
<1> DEFINE f == EngineClose(e, owner)
<1>1. e.transport = "opening" => e.sendQueue = <<>> BY DEF Wired, ShakeFits
<1>2. Waits(e, f, owner) \/ Ends(e, f) BY <1>1, EngineCloseEffect
<1> HIDE DEF f
<1>3. /\ Shuts(e, f) /\ f \in Client /\ Aside(e, f) /\ f.transport = "closed"
      /\ f.closeListener = FALSE /\ f.ping = FALSE
  BY <1>2 DEF Waits, Ends, Shuts
<1>4. f.sendQueue # <<>> => e.sendQueue # <<>> BY <1>2 DEF Waits, Ends
<1>5. f.writable => f.sid \/ f.readyState = "closed"
  BY <1>2, <1>3 DEF Waits, Ends, Aside, Wired, ShakeFits, Live
<1>6. ShakeFits(f) BY <1>3, <1>4, <1>5 DEF Wired, ShakeFits, Aside
<1>7. Watched(f) /\ PollsFit(f) BY <1>3 DEF Wired, Watched, PollsFit, Aside
<1>8. LifeFits(f, early)
  <2>1. CASE Waits(e, f, owner)
    BY <1>3, <2>1 DEF Waits, Wired, LifeFits, Aside, Live, Client
  <2>2. CASE Ends(e, f)
    BY <1>3, <2>2 DEF Ends, Wired, LifeFits, Aside, Client
  <2> QED BY <1>2, <2>1, <2>2
<1>9. PostsFit(f)
  <2>1. ASSUME NEW i \in 1 .. Len(e.posts) PROVE PostFits(f, Cancelled(e.posts[i]))
    <3>1. PostFits(e, e.posts[i]) /\ e.posts[i] \in Posts
      BY PostsAre DEF Wired, PostsFit
    <3>2. f.sid = e.sid BY <1>3 DEF Aside
    <3> QED BY <1>3, <3>1, <3>2, CancelledFits
  <2>2. Len(e.posts) \in Nat BY PostsAre
  <2>3. CASE Waits(e, f, owner)
    <3>1. PostFits(f, Post(owner, Told(e), e.sid))
      BY <1>3 DEF PostFits, Post, Aside
    <3>2. \A i \in 1 .. Len(f.posts) : i \in 1 .. Len(e.posts) \/ i = Len(e.posts) + 1
      BY <2>2, <2>3 DEF Waits
    <3> QED BY <2>1, <2>3, <3>1, <3>2 DEF PostsFit, Waits
  <2>4. CASE Ends(e, f) BY <2>1, <2>4 DEF Ends, AllCancelled, PostsFit
  <2> QED BY <1>2, <2>3, <2>4
<1> QED BY <1>2, <1>6, <1>7, <1>8, <1>9 DEF Wired, f

(* What a step of a closed engine may change: not what it has heard.        *)
Final(e, f) ==
  e.readyState = "closed" =>
    f.readyState = "closed" /\ f.got = e.got /\ f.polls <= e.polls

(* A waiting _onClose that goes on: the engine is closed.                   *)
LEMMA EndWired ==
  ASSUME NEW e \in Client, NEW early \in BOOLEAN, Wired(e, early),
         e.transport = "closed" \/ early, e.boot = "new" => early
  PROVE  LET f == Closed([e EXCEPT !.running = FALSE])
         IN /\ f \in Client /\ Wired(f, early) /\ Aside(e, f)
            /\ f.readyState = "closed" /\ f.transport = e.transport
            /\ f.posts = e.posts /\ f.closes = e.closes + 1
<1> DEFINE d == [e EXCEPT !.running = FALSE]
           f == Closed(d)
<1>1. /\ d \in Client /\ Aside(e, d) /\ d.transport = e.transport /\ d.posts = e.posts
      /\ d.ping = e.ping /\ d.sendQueue = e.sendQueue /\ d.closes = e.closes
  BY DEF Client, Aside
<1> HIDE DEF d
<1>2. /\ f \in Client /\ Aside(d, f)
      /\ f.readyState = "closed" /\ f.attached = FALSE /\ f.closeListener = FALSE
      /\ f.closes = d.closes + 1 /\ f.transport = d.transport /\ f.ping = d.ping
      /\ f.sendQueue = d.sendQueue /\ f.posts = d.posts
  BY <1>1, ClosedEffect
<1> HIDE DEF f
<1>3. Aside(e, f) BY <1>1, <1>2 DEF Aside
<1>4. LifeFits(f, early) BY <1>1, <1>2, <1>3 DEF Wired, LifeFits, Aside, Client
<1>5. ShakeFits(f) BY <1>1, <1>2, <1>3 DEF Wired, ShakeFits, Aside
<1>6. PostsFit(f) BY <1>1, <1>2, <1>3 DEF Wired, PostsFit, PostFits, Aside
<1>7. Watched(f) /\ PollsFit(f) BY <1>2, <1>3 DEF Wired, Watched, PollsFit, Aside
<1> QED BY <1>1, <1>2, <1>3, <1>4, <1>5, <1>6, <1>7 DEF Wired, f, d

(* transport.close() of a closed engine. *)
LEMMA LastCloseWired ==
  ASSUME NEW e \in Client, NEW early \in BOOLEAN, Wired(e, early), e.readyState = "closed"
  PROVE  LET f == CloseTransport(e, "last")
         IN /\ f \in Client /\ Wired(f, early) /\ Aside(e, f)
            /\ f.readyState = "closed" /\ f.transport = "closed"
            /\ e.transport = "closed" => f = e
            /\ f.closes = e.closes
<1> DEFINE f == CloseTransport(e, "last")
<1>1. /\ f \in Client /\ Aside(e, f) /\ f.transport = "closed"
      /\ f.readyState = e.readyState /\ f.attached = e.attached
      /\ f.closeListener = e.closeListener /\ f.ping = e.ping /\ f.closes = e.closes
      /\ e.transport = "closed" => f = e
      /\ e.transport = "open" =>
           f.sendQueue = <<>> /\ Posted(e, f, "last", Told(e))
      /\ e.transport = "opening" /\ e.sendQueue = <<>> =>
           f.sendQueue = <<>> /\ f.posts = e.posts
      /\ e.transport = "opening" /\ e.sendQueue # <<>> =>
           f.sendQueue = <<>> /\ Posted(e, f, "last", e.sendQueue)
  <2>1. "last" \in Owners /\ ~(e.closeListener /\ Live(e)) BY DEF Owners, Live
  <2> QED BY <2>1, CloseTransportEffect
<1> HIDE DEF f
<1>2. f.posts = e.posts \/ \E q \in {Told(e), e.sendQueue} : Posted(e, f, "last", q)
  BY <1>1 DEF Client
<1>3. LifeFits(f, early)
  BY <1>1 DEF Wired, LifeFits, Aside, Client
<1>4. ShakeFits(f)
  <2>1. f.sendQueue = e.sendQueue \/ f.sendQueue = <<>> BY <1>1 DEF Client
  <2> QED BY <1>1, <2>1 DEF Wired, ShakeFits, Aside
<1>5. PostsFit(f)
  <2>1. Len(e.posts) \in Nat BY PostsAre
  <2>2. \A i \in 1 .. Len(e.posts) : PostFits(f, e.posts[i])
    BY <1>1 DEF Wired, PostsFit, PostFits, Aside
  <2>3. CASE f.posts = e.posts BY <2>2, <2>3 DEF PostsFit
  <2>4. ASSUME NEW q, Posted(e, f, "last", q) PROVE PostsFit(f)
    <3>1. PostFits(f, Post("last", q, e.sid))
      BY <1>1 DEF PostFits, Post, Aside, Ending
    <3>2. \A i \in 1 .. Len(f.posts) : i \in 1 .. Len(e.posts) \/ i = Len(e.posts) + 1
      BY <2>1, <2>4 DEF Posted
    <3> QED BY <2>2, <2>4, <3>1, <3>2 DEF PostsFit, Posted
  <2> QED BY <1>2, <2>3, <2>4
<1>6. Watched(f) /\ PollsFit(f) BY <1>1 DEF Wired, Watched, PollsFit, Aside
<1> QED BY <1>1, <1>3, <1>4, <1>5, <1>6 DEF Wired, f

(* What the thread does once its request has returned. *)
LEMMA ResumeWired ==
  ASSUME NEW e \in Client, NEW early \in BOOLEAN, Wired(e, early), NEW owner \in Owners,
         owner \in Ending => (e.transport = "closed" \/ early) /\ (e.boot = "new" => early)
  PROVE  LET f == Resume(e, owner)
         IN /\ f \in Client /\ Wired(f, early) /\ Final(e, f)
            /\ f.polls = e.polls /\ f.reading = e.reading /\ f.boot = e.boot
            /\ f.written = e.written /\ f.got = e.got /\ f.sid = e.sid
            /\ f.payload = e.payload
<1> DEFINE f == Resume(e, owner)
           d == [e EXCEPT !.running = FALSE]
           b == Closed(d)
<1>1. ASSUME owner \in Ending
      PROVE  /\ b \in Client /\ Wired(b, early) /\ Aside(e, b)
             /\ b.readyState = "closed"
  BY <1>1, EndWired
<1>2. CASE owner \in {"closing", "timer"}
  <2>1. f = b BY <1>2 DEF Resume
  <2> HIDE DEF b
  <2> QED BY <1>1, <1>2, <2>1 DEF Ending, Aside, Final, Client
<1>3. CASE owner = "forced"
  <2>1. f = CloseTransport(b, "last") BY <1>3 DEF Resume
  <2> HIDE DEF b
  <2>2. /\ f \in Client /\ Wired(f, early) /\ Aside(b, f) /\ f.readyState = "closed"
    BY <1>1, <1>3, <2>1, LastCloseWired DEF Ending
  <2> HIDE DEF f
  <2>3. Aside(e, f) BY <1>1, <1>3, <2>2 DEF Ending, Aside
  <2>4. Final(e, f) BY <2>2, <2>3 DEF Final, Aside, Client
  <2> QED BY <2>2, <2>3, <2>4 DEF Aside, f
<1>4. CASE owner = "last"
  <2>1. f = d BY <1>4 DEF Resume
  <2>2. /\ d \in Client /\ Aside(e, d) /\ Unclosed(e, d) /\ d.posts = e.posts
        /\ d.sendQueue = e.sendQueue
    BY DEF Client, Aside, Unclosed
  <2> HIDE DEF d
  <2>3. Wired(d, early)
    BY <2>2 DEF Wired, LifeFits, ShakeFits, PostsFit, PostFits, Watched, PollsFit, Aside, Unclosed
  <2> QED BY <2>1, <2>2, <2>3 DEF Aside, Unclosed, Final, Client
<1>5. CASE owner \notin {"closing", "timer", "forced", "last"}
  <2>1. f = e BY <1>5 DEF Resume
  <2> QED BY <2>1 DEF Final, Client
<1> QED BY <1>2, <1>3, <1>4, <1>5

(***************************************************************************)
(* The end of a request                                                     *)
(***************************************************************************)
(* A sequence without one of its elements. *)
LEMMA RemoveAtIs ==
  ASSUME NEW S, NEW s \in Seq(S), NEW n \in 1 .. Len(s)
  PROVE  /\ RemoveAt(s, n) \in Seq(S) /\ Len(RemoveAt(s, n)) = Len(s) - 1
         /\ \A i \in 1 .. Len(s) - 1 :
              RemoveAt(s, n)[i] = IF i < n THEN s[i] ELSE s[i + 1]
<1>1. Len(s) \in Nat /\ \A i \in 1 .. Len(s) : s[i] \in S BY LenProperties, ElementOfSeq
<1> DEFINE a == SubSeq(s, 1, n - 1)
           b == SubSeq(s, n + 1, Len(s))
<1>2. /\ a \in Seq(S) /\ Len(a) = n - 1
      /\ \A i \in 1 .. n - 1 : a[i] = s[i]
  <2>1. \A i \in 1 .. n - 1 : s[i] \in S BY <1>1
  <2>2. /\ a \in Seq(S)
        /\ Len(a) = IF 1 <= n - 1 THEN (n - 1) - 1 + 1 ELSE 0
        /\ \A i \in 1 .. (n - 1) - 1 + 1 : a[i] = s[1 + i - 1]
    BY <1>1, <2>1, SubSeqProperties
  <2> HIDE DEF a
  <2>3. Len(a) = n - 1 BY <1>1, <2>2
  <2>4. ASSUME NEW i \in 1 .. n - 1 PROVE a[i] = s[i]
    <3>1. i \in 1 .. (n - 1) - 1 + 1 /\ 1 + i - 1 = i BY <1>1
    <3> QED BY <2>2, <3>1
  <2> QED BY <2>2, <2>3, <2>4
<1>3. /\ b \in Seq(S) /\ Len(b) = Len(s) - n
      /\ \A i \in 1 .. Len(s) - n : b[i] = s[n + i]
  <2>1. \A i \in n + 1 .. Len(s) : s[i] \in S BY <1>1
  <2>2. /\ b \in Seq(S)
        /\ Len(b) = IF n + 1 <= Len(s) THEN Len(s) - (n + 1) + 1 ELSE 0
        /\ \A i \in 1 .. Len(s) - (n + 1) + 1 : b[i] = s[(n + 1) + i - 1]
    BY <1>1, <2>1, SubSeqProperties
  <2> HIDE DEF b
  <2>3. Len(b) = Len(s) - n BY <1>1, <2>2
  <2>4. ASSUME NEW i \in 1 .. Len(s) - n PROVE b[i] = s[n + i]
    <3>1. i \in 1 .. Len(s) - (n + 1) + 1 /\ (n + 1) + i - 1 = n + i BY <1>1
    <3> QED BY <2>2, <3>1
  <2> QED BY <2>2, <2>3, <2>4
<1>4. RemoveAt(s, n) = a \o b BY DEF RemoveAt
<1> HIDE DEF a, b
<1>5. /\ a \o b \in Seq(S) /\ Len(a \o b) = Len(a) + Len(b)
      /\ \A i \in 1 .. Len(a) + Len(b) :
           (a \o b)[i] = IF i <= Len(a) THEN a[i] ELSE b[i - Len(a)]
  BY <1>2, <1>3, ConcatProperties
<1>6. ASSUME NEW i \in 1 .. Len(s) - 1
      PROVE  (a \o b)[i] = IF i < n THEN s[i] ELSE s[i + 1]
  <2>1. i \in 1 .. Len(a) + Len(b) BY <1>1, <1>2, <1>3
  <2>2. CASE i < n
    <3>1. i <= Len(a) /\ i \in 1 .. n - 1 BY <1>1, <1>2, <2>2
    <3> QED BY <1>2, <1>5, <2>1, <2>2, <3>1
  <2>3. CASE ~(i < n)
    <3>1. ~(i <= Len(a)) /\ i - Len(a) \in 1 .. Len(s) - n /\ n + (i - Len(a)) = i + 1
      BY <1>1, <1>2, <2>3
    <3> QED BY <1>3, <1>5, <2>1, <2>3, <3>1
  <2> QED BY <2>2, <2>3
<1> QED BY <1>1, <1>2, <1>3, <1>4, <1>5, <1>6

(* The request is no longer in flight. *)
LEMMA WithoutEffect ==
  ASSUME TypeInv, NEW early \in BOOLEAN, Wired(c, early), NEW n \in 1 .. Len(c.posts)
  PROVE  LET e == Without(n)
         IN /\ e \in Client /\ Aside(c, e) /\ Unclosed(c, e) /\ e.running = c.running
            /\ e.sendQueue = c.sendQueue /\ e.writeBuffer = c.writeBuffer
            /\ Len(e.posts) = Len(c.posts) - 1
            /\ \A i \in 1 .. Len(e.posts) :
                 e.posts[i] = IF i < n THEN c.posts[i] ELSE c.posts[i + 1]
            /\ Wired(e, early)
<1> DEFINE e == Without(n)
           s == c.posts
           r == RemoveAt(s, n)
<1>1. c \in Client /\ s \in Seq(Posts) BY DEF TypeInv, Client
<1>2. /\ r \in Seq(Posts) /\ Len(r) = Len(s) - 1
      /\ \A i \in 1 .. Len(s) - 1 : r[i] = IF i < n THEN s[i] ELSE s[i + 1]
  BY <1>1, RemoveAtIs
<1>3. e = [c EXCEPT !.posts = r] BY DEF Without
<1> HIDE DEF r
<1>4. e \in Client BY <1>1, <1>2, <1>3 DEF Client
<1>5. /\ Aside(c, e) /\ Unclosed(c, e) /\ e.running = c.running /\ e.posts = r
      /\ e.sendQueue = c.sendQueue /\ e.writeBuffer = c.writeBuffer
  BY <1>1, <1>3 DEF Client, Aside, Unclosed
<1> HIDE DEF e
<1>6. /\ Len(e.posts) = Len(s) - 1
      /\ \A i \in 1 .. Len(e.posts) : e.posts[i] = IF i < n THEN s[i] ELSE s[i + 1]
  BY <1>2, <1>5
<1>7. PostsFit(e)
  <2>1. Len(s) \in Nat BY <1>1, LenProperties
  <2>2. \A i \in 1 .. Len(e.posts) : \E j \in 1 .. Len(s) : e.posts[i] = s[j]
    <3>1. \A i \in 1 .. Len(e.posts) : i \in 1 .. Len(s) /\ i + 1 \in 1 .. Len(s)
      BY <1>6, <2>1
    <3> QED BY <1>6, <3>1
  <2> QED BY <1>5, <2>2 DEF Wired, PostsFit, PostFits, Aside, Unclosed
<1>8. Wired(e, early)
  BY <1>5, <1>7 DEF Wired, LifeFits, ShakeFits, Watched, PollsFit, Aside, Unclosed
<1> QED BY <1>4, <1>5, <1>6, <1>8 DEF e

(* The fields of the receiving side, which no end of a POST touches.        *)
Held(e, f) ==
  /\ f.polls = e.polls /\ f.reading = e.reading /\ f.boot = e.boot
  /\ f.written = e.written /\ f.got = e.got /\ f.sid = e.sid /\ f.payload = e.payload

LEMMA TransportErrorWired ==
  ASSUME NEW e \in Client, NEW early \in BOOLEAN, Wired(e, early), e.boot = "new" => early
  PROVE  LET f == TransportError(e)
         IN /\ f \in Client /\ Wired(f, early) /\ Held(e, f) /\ Final(e, f)
            /\ f.transport = "closed" \/ early
<1>1. CASE e.attached
  <2>1. Live(e) BY <1>1 DEF Wired, LifeFits, Live, Client
  <2>2. TransportError(e) = EngineClose(e, "closing") BY <1>1 DEF TransportError
  <2> DEFINE f == EngineClose(e, "closing")
  <2>3. (Waits(e, f, "closing") \/ Ends(e, f)) /\ Wired(f, early)
    BY <2>1, EngineCloseWired DEF Owners
  <2> HIDE DEF f
  <2>4. f \in Client /\ Aside(e, f) /\ f.transport = "closed"
    BY <2>3 DEF Waits, Ends, Shuts
  <2>5. e.readyState # "closed" BY <2>1 DEF Live
  <2> QED BY <2>2, <2>3, <2>4, <2>5 DEF f, Aside, Held, Final
<1>2. CASE ~e.attached
  <2>1. TransportError(e) = e /\ e.readyState = "closed"
    BY <1>2 DEF TransportError, Wired, LifeFits, Client
  <2>2. e.transport = "closed" \/ early BY <2>1 DEF Wired, LifeFits
  <2> QED BY <2>1, <2>2 DEF Held, Final, Client
<1> QED BY <1>1, <1>2

(* Sending what is buffered keeps an engine wired.                          *)
LEMMA SentWired ==
  ASSUME NEW e \in Client, NEW f \in Client, NEW early \in BOOLEAN, Wired(e, early),
         Aside(e, f), Unclosed(e, f), f.posts = e.posts,
         f.sendQueue # e.sendQueue => e.sid
  PROVE  Wired(f, early)
<1>1. LifeFits(f, early) BY DEF Wired, LifeFits, Aside, Unclosed
<1>2. ShakeFits(f) BY DEF Wired, ShakeFits, Aside, Unclosed
<1>3. PostsFit(f) BY DEF Wired, PostsFit, PostFits, Aside, Unclosed
<1> QED BY <1>1, <1>2, <1>3 DEF Wired, Watched, PollsFit, Aside, Unclosed

LEMMA DrainedWired ==
  ASSUME NEW e \in Client, NEW early \in BOOLEAN, Wired(e, early), e.sid
  PROVE  LET f == Drained(e)
         IN /\ f \in Client /\ Wired(f, early) /\ Held(e, f) /\ Final(e, f)
            /\ \/ /\ Unclosed(e, f) /\ f.posts = e.posts
               \/ /\ e.drainClose /\ e.readyState # "closed"
                  /\ f.transport = "closed"
<1> DEFINE d == [e EXCEPT !.writable = TRUE]
           f == Drained(e)
<1>1. /\ d \in Client /\ Unclosed(e, d) /\ d.posts = e.posts /\ d.sendQueue = e.sendQueue
      /\ Held(e, d) /\ d.drainClose = e.drainClose /\ d.listeners = e.listeners
      /\ d.payload = e.payload /\ d.writeBuffer = e.writeBuffer
  BY DEF Client, Unclosed, Held
<1>2. f = CASE ~e.attached          -> d
            [] e.writeBuffer # <<>> -> EngineFlush(d)
            [] OTHER                -> IF e.drainClose THEN ForcedClose(d) ELSE d
  BY DEF Drained
<1> HIDE DEF d, f
<1>3. Wired(d, early)
  <2>1. LifeFits(d, early) BY <1>1 DEF Wired, LifeFits, Unclosed, Held
  <2>2. ShakeFits(d) BY <1>1 DEF Wired, ShakeFits, Unclosed, Held
  <2>3. PostsFit(d) BY <1>1 DEF Wired, PostsFit, PostFits, Unclosed, Held
  <2> QED BY <1>1, <2>1, <2>2, <2>3 DEF Wired, Watched, PollsFit, Unclosed, Held
<1>4. ASSUME f = d
      PROVE  /\ f \in Client /\ Wired(f, early) /\ Held(e, f) /\ Final(e, f)
             /\ Unclosed(e, f) /\ f.posts = e.posts
  <2>1. f \in Client /\ Held(e, f) /\ Unclosed(e, f) /\ f.posts = e.posts BY <1>1, <1>4
  <2>2. Wired(f, early) BY <1>3, <1>4
  <2>3. Final(e, f) BY <2>1 DEF Final, Held, Unclosed, Client
  <2> QED BY <2>1, <2>2, <2>3
<1>5. ASSUME f = EngineFlush(d)
      PROVE  /\ f \in Client /\ Wired(f, early) /\ Held(e, f) /\ Final(e, f)
             /\ Unclosed(e, f) /\ f.posts = e.posts
  <2>1. /\ f \in Client /\ Aside(d, f) /\ Unclosed(d, f) /\ f.posts = d.posts
        /\ f.sendQueue # d.sendQueue => d.transport = "open" /\ d.writable
    BY <1>1, <1>5, EngineFlushEffect
  <2>2. d.sid BY <1>1 DEF Held
  <2>3. Wired(f, early) BY <1>1, <1>3, <2>1, <2>2, SentWired
  <2> QED BY <1>1, <2>1, <2>3 DEF Aside, Unclosed, Held, Final, Client
<1>6. ASSUME e.attached, e.drainClose, f = ForcedClose(d)
      PROVE  /\ f \in Client /\ Wired(f, early) /\ Held(e, f) /\ Final(e, f)
             /\ e.readyState # "closed" /\ f.transport = "closed"
  <2>1. Live(d) /\ e.readyState # "closed"
    BY <1>1, <1>6 DEF Wired, LifeFits, Live, Client, Unclosed
  <2>2. d.sid /\ d.boot = "polling" /\ d.transport # "opening"
    BY <1>1, <1>3 DEF Held, Wired, ShakeFits
  <2>3. f = EngineClose(d, "forced") BY <1>1, <1>6, <2>1, <2>2, ForcedCloseIs
  <2>4. (Waits(d, f, "forced") \/ Ends(d, f)) /\ Wired(f, early)
    BY <1>1, <1>3, <2>1, <2>2, <2>3, EngineCloseWired DEF Owners
  <2>5. f \in Client /\ Aside(d, f) /\ f.transport = "closed"
    BY <2>4 DEF Waits, Ends, Shuts
  <2> QED BY <1>1, <2>1, <2>4, <2>5 DEF Aside, Held, Final
<1>7. f = d \/ f = EngineFlush(d) \/ (e.attached /\ e.drainClose /\ f = ForcedClose(d))
  BY <1>2
<1> QED BY <1>4, <1>5, <1>6, <1>7 DEF f

(* A request that fails, and one that is answered. *)
LEMMA PostErrorWired ==
  ASSUME TypeInv, NEW early \in BOOLEAN, Wired(c, early), NEW n \in 1 .. Len(c.posts),
         c.boot = "new" => early
  PROVE  LET f == PostError(n)
         IN f \in Client /\ Wired(f, early) /\ Held(c, f) /\ Final(c, f)
<1> DEFINE e == Without(n)
           o == c.posts[n].owner
           g == TransportError(e)
<1>1. /\ e \in Client /\ Aside(c, e) /\ Unclosed(c, e) /\ Wired(e, early)
  BY WithoutEffect
<1>2. o \in Owners BY PostsAre DEF TypeInv, Posts
<1>3. PostError(n) = IF o = "cancelled" THEN e ELSE Resume(g, o) BY DEF PostError
<1> HIDE DEF e, o
<1>4. /\ g \in Client /\ Wired(g, early) /\ Held(e, g) /\ Final(e, g)
      /\ g.transport = "closed" \/ early
  BY <1>1, TransportErrorWired DEF Aside
<1> HIDE DEF g
<1>5. /\ Resume(g, o) \in Client /\ Wired(Resume(g, o), early) /\ Final(g, Resume(g, o))
      /\ Held(g, Resume(g, o))
  <2>1. g.boot = "new" => early BY <1>1, <1>4 DEF Held, Aside
  <2> QED BY <1>2, <1>4, <2>1, ResumeWired DEF Held
<1>6. Held(c, e) /\ Final(c, e) /\ (c.readyState = "closed" => e.readyState = "closed")
  BY <1>1 DEF Held, Final, Aside, Unclosed, TypeInv, Client
<1>7. Held(c, Resume(g, o)) BY <1>4, <1>5, <1>6 DEF Held
<1>8. Final(c, Resume(g, o))
  <2>1. c.readyState = "closed" => Resume(g, o).readyState = "closed"
    BY <1>4, <1>5, <1>6 DEF Final
  <2> QED BY <1>5, <1>7, <2>1 DEF Final, Held, Client
<1> QED BY <1>1, <1>3, <1>5, <1>6, <1>7, <1>8

LEMMA PostOkWired ==
  ASSUME TypeInv, NEW early \in BOOLEAN, Wired(c, early), NEW n \in 1 .. Len(c.posts),
         c.posts[n].sid
  PROVE  LET f == PostOk(n)
         IN f \in Client /\ Wired(f, early) /\ Held(c, f) /\ Final(c, f)
<1> DEFINE e == Without(n)
           o == c.posts[n].owner
           g == Drained(e)
<1>1. /\ e \in Client /\ Aside(c, e) /\ Unclosed(c, e) /\ Wired(e, early)
  BY WithoutEffect
<1>2. o \in Owners BY PostsAre DEF TypeInv, Posts
<1>3. PostOk(n) = IF o = "cancelled" THEN e ELSE Resume(g, o) BY DEF PostOk
<1>4. /\ c.sid /\ c.boot = "polling"
      /\ o \in Ending => c.transport = "closed"
  BY DEF Wired, PostsFit, PostFits, ShakeFits
<1> HIDE DEF e, o
<1>5. /\ g \in Client /\ Wired(g, early) /\ Held(e, g) /\ Final(e, g)
      /\ \/ Unclosed(e, g)
         \/ g.transport = "closed"
  BY <1>1, <1>4, DrainedWired DEF Aside
<1> HIDE DEF g
<1>6. /\ Resume(g, o) \in Client /\ Wired(Resume(g, o), early) /\ Final(g, Resume(g, o))
      /\ Held(g, Resume(g, o))
  <2>1. g.boot = "polling" BY <1>1, <1>4, <1>5 DEF Held, Aside
  <2>2. o \in Ending => g.transport = "closed" BY <1>1, <1>4, <1>5 DEF Unclosed
  <2> QED BY <1>2, <1>5, <2>1, <2>2, ResumeWired DEF Held
<1>7. Held(c, e) /\ Final(c, e) /\ (c.readyState = "closed" => e.readyState = "closed")
  BY <1>1 DEF Held, Final, Aside, Unclosed, TypeInv, Client
<1>8. Held(c, Resume(g, o)) BY <1>5, <1>6, <1>7 DEF Held
<1>9. Final(c, Resume(g, o))
  <2>1. c.readyState = "closed" => Resume(g, o).readyState = "closed"
    BY <1>5, <1>6, <1>7 DEF Final
  <2> QED BY <1>6, <1>8, <2>1 DEF Final, Held, Client
<1> QED BY <1>1, <1>3, <1>6, <1>7, <1>8, <1>9

(***************************************************************************)
(* Receiving                                                                *)
(***************************************************************************)
(* The fields of the sending and polling side, which no packet touches.     *)
Turned(e, f) ==
  /\ f.polls = e.polls /\ f.reading = e.reading /\ f.boot = e.boot
  /\ f.written = e.written /\ f.payload = e.payload

LEMMA OnPacketWired ==
  ASSUME NEW e \in Client, NEW early \in BOOLEAN, Wired(e, early), NEW p \in Packets,
         e.reading,
         p.type = "open" => e.transport # "opening" /\ Len(e.payload) = 0,
         p.type # "open" => e.sid
  PROVE  LET f == OnPacket(e, p)
         IN f \in Client /\ Wired(f, early) /\ Turned(e, f) /\ Final(e, f)
<1> DEFINE f == OnPacket(e, p)
<1>1. e.boot = "polling" BY DEF Wired, ShakeFits, Client
<1>2. CASE ~e.attached \/ ~Live(e)
  <2>1. f = e BY <1>2 DEF OnPacket
  <2> HIDE DEF f
  <2>2. f \in Client /\ Turned(e, f) BY <2>1 DEF Turned
  <2>3. Wired(f, early) BY <2>1
  <2>4. Final(e, f) BY <2>1 DEF Final, Client
  <2> QED BY <2>2, <2>3, <2>4 DEF f
<1> DEFINE heard == e.attached /\ Live(e)
<1>3. ASSUME heard PROVE e.readyState # "closed" BY <1>3 DEF Live
<1>4. CASE heard /\ p.type = "open"
  <2>1. f = [e EXCEPT !.sid = TRUE, !.readyState = "open", !.listeners = "open"]
    BY <1>4 DEF OnPacket
  <2> HIDE DEF f
  <2>2. /\ f \in Client
        /\ f.sid = TRUE /\ f.readyState = "open" /\ f.listeners = "open"
        /\ f.transport = e.transport /\ f.attached = e.attached
        /\ f.closeListener = e.closeListener /\ f.ping = e.ping
        /\ f.boot = e.boot /\ f.polls = e.polls /\ f.reading = e.reading
        /\ f.payload = e.payload /\ f.sendQueue = e.sendQueue /\ f.posts = e.posts
        /\ f.written = e.written
    BY <2>1 DEF Client
  <2>3. LifeFits(f, early) BY <1>1, <1>4, <2>2 DEF Wired, LifeFits, Live
  <2>4. ShakeFits(f) BY <1>1, <1>4, <2>2 DEF Wired, ShakeFits, Client
  <2>5. PostsFit(f) BY <2>2 DEF Wired, PostsFit, PostFits
  <2>6. Watched(f) /\ PollsFit(f) BY <2>2 DEF Wired, Watched, PollsFit
  <2> QED BY <1>3, <1>4, <2>2, <2>3, <2>4, <2>5, <2>6 DEF Wired, Turned, Final, f
<1>5. CASE heard /\ p.type = "ping"
  <2> DEFINE q == Packet("pong", 0)
             d == SendPacket(e, q)
  <2>1. q \in Packets BY DEF Packet, Packets
  <2> HIDE DEF q
  <2>2. /\ d \in Client /\ Aside(e, d) /\ Unclosed(e, d) /\ d.posts = e.posts
    <3>1. e \in Client OBVIOUS
    <3> QED BY <2>1, <3>1, SendPacketEffect
  <2>3. Wired(d, early) BY <1>5, <2>2, SentWired
  <2>4. f = [d EXCEPT !.listeners = "ping"] BY <1>5 DEF OnPacket, q
  <2> HIDE DEF d
  <2>5. /\ f \in Client /\ Unclosed(d, f) /\ f.sid = d.sid /\ f.listeners = "ping"
        /\ f.boot = d.boot /\ f.polls = d.polls /\ f.reading = d.reading
        /\ f.payload = d.payload /\ f.sendQueue = d.sendQueue /\ f.posts = d.posts
        /\ f.written = d.written /\ f.writable = d.writable
    BY ZenonT(60), <2>2, <2>4 DEF Client, Unclosed
  <2>6. LifeFits(f, early) /\ PostsFit(f) /\ Watched(f) /\ PollsFit(f)
    BY <2>3, <2>5
       DEF Wired, LifeFits, PostsFit, PostFits, Watched, PollsFit, Unclosed
  <2>7. ShakeFits(f) BY <1>5, <2>2, <2>3, <2>5 DEF Wired, ShakeFits, Unclosed, Aside
  <2> QED BY <1>3, <1>5, <2>2, <2>5, <2>6, <2>7 DEF Wired, Turned, Final, Aside
<1>6. CASE heard /\ p.type = "error"
  <2>1. f = EngineClose(e, "closing") BY <1>6 DEF OnPacket
  <2>2. (Waits(e, f, "closing") \/ Ends(e, f)) /\ Wired(f, early)
    BY <1>1, <1>6, <2>1, EngineCloseWired DEF Owners
  <2> HIDE DEF f
  <2>3. f \in Client /\ Aside(e, f) BY <2>2 DEF Waits, Ends, Shuts
  <2> QED BY <1>3, <1>6, <2>2, <2>3 DEF Aside, Turned, Final, f
<1>7. CASE heard /\ p.type = "message"
  <2>1. f = [e EXCEPT !.got = Append(@, p.data)] BY <1>7 DEF OnPacket
  <2>2. Append(e.got, p.data) \in Seq(Nat) BY AppendProperties DEF Packets, Client
  <2>3. /\ f \in Client /\ Unclosed(e, f) /\ f.sid = e.sid /\ f.listeners = e.listeners
        /\ f.boot = e.boot /\ f.polls = e.polls /\ f.reading = e.reading
        /\ f.payload = e.payload /\ f.sendQueue = e.sendQueue /\ f.posts = e.posts
        /\ f.written = e.written /\ f.writable = e.writable
    BY ZenonT(60), <2>1, <2>2 DEF Client, Unclosed
  <2>4. Wired(f, early)
    BY <2>3
       DEF Wired, LifeFits, ShakeFits, PostsFit, PostFits, Watched, PollsFit, Unclosed
  <2> QED BY <1>3, <1>7, <2>3, <2>4 DEF Turned, Final
<1>8. CASE heard /\ p.type \notin {"open", "ping", "error", "message"}
  <2>1. f = e BY <1>8 DEF OnPacket
  <2> HIDE DEF f
  <2>2. f \in Client /\ Turned(e, f) BY <2>1 DEF Turned
  <2>3. Wired(f, early) BY <2>1
  <2>4. Final(e, f) BY <2>1 DEF Final, Client
  <2> QED BY <2>2, <2>3, <2>4 DEF f
<1> QED BY <1>2, <1>4, <1>5, <1>6, <1>7, <1>8

(* The close packet of the server: the transport closes first, and the      *)
(* engine, if it listens, with it.                                          *)
LEMMA ShutEffect ==
  ASSUME NEW e \in Client
  PROVE  LET f == ShutTransport(e)
         IN /\ f \in Client /\ Aside(e, f) /\ f.transport = "closed"
            /\ f.sendQueue = e.sendQueue
            /\ IF e.closeListener /\ Live(e)
               THEN /\ f.readyState = "closed" /\ f.attached = FALSE
                    /\ f.closeListener = FALSE /\ f.ping = FALSE
                    /\ f.closes = e.closes + 1 /\ AllCancelled(e, f)
               ELSE /\ f.readyState = e.readyState /\ f.attached = e.attached
                    /\ f.closeListener = e.closeListener /\ f.ping = e.ping
                    /\ f.closes = e.closes /\ f.posts = e.posts
<1> DEFINE d == [e EXCEPT !.transport = "closed"]
           f == ShutTransport(e)
<1>1. /\ d \in Client /\ Aside(e, d) /\ d.transport = "closed" /\ d.sendQueue = e.sendQueue
      /\ d.readyState = e.readyState /\ d.attached = e.attached /\ d.posts = e.posts
      /\ d.closeListener = e.closeListener /\ d.ping = e.ping /\ d.closes = e.closes
  BY DEF Client, Aside
<1>2. f = IF d.closeListener /\ Live(d) THEN Closed(ClearPing(d)) ELSE d
  BY DEF ShutTransport
<1> HIDE DEF d, f
<1>3. Live(d) <=> Live(e) BY <1>1 DEF Live
<1>4. CASE e.closeListener /\ Live(e)
  <2> DEFINE b == ClearPing(d)
  <2>1. /\ b \in Client /\ Aside(d, b) /\ AllCancelled(d, b)
        /\ b.ping = FALSE /\ b.closes = d.closes
        /\ b.transport = d.transport /\ b.sendQueue = d.sendQueue
    <3>1. /\ b \in Client /\ Aside(d, b) /\ AllCancelled(d, b)
          /\ b.ping = FALSE /\ b.closes = d.closes
          /\ b.readyState = d.readyState /\ b.transport = d.transport
          /\ b.attached = d.attached /\ b.closeListener = d.closeListener
          /\ b.sendQueue = d.sendQueue /\ b.running = d.running
          /\ b.writeBuffer = d.writeBuffer
      BY <1>1, ClearPingEffect
    <3> QED BY <3>1
  <2>2. f = Closed(b) BY <1>1, <1>2, <1>3, <1>4
  <2> HIDE DEF b
  <2>3. /\ f \in Client /\ Aside(b, f)
        /\ f.readyState = "closed" /\ f.attached = FALSE /\ f.closeListener = FALSE
        /\ f.closes = b.closes + 1 /\ f.transport = b.transport /\ f.ping = b.ping
        /\ f.sendQueue = b.sendQueue /\ f.posts = b.posts
    BY <2>1, <2>2, ClosedEffect
  <2>4. Aside(e, f) BY <1>1, <2>1, <2>3 DEF Aside
  <2>5. AllCancelled(e, f) BY <1>1, <2>1, <2>3 DEF AllCancelled
  <2> QED BY <1>1, <1>4, <2>1, <2>3, <2>4, <2>5 DEF f
<1>5. CASE ~(e.closeListener /\ Live(e))
  <2>1. f = d BY <1>1, <1>2, <1>3, <1>5
  <2> QED BY <1>1, <1>5, <2>1 DEF f
<1> QED BY <1>4, <1>5

LEMMA ShutWired ==
  ASSUME NEW e \in Client, NEW early \in BOOLEAN, Wired(e, early), e.boot = "polling"
  PROVE  LET f == ShutTransport(e)
         IN /\ f \in Client /\ Wired(f, early) /\ Aside(e, f) /\ f.transport = "closed"
            /\ Final(e, f)
<1> DEFINE f == ShutTransport(e)
<1>1. /\ f \in Client /\ Aside(e, f) /\ f.transport = "closed"
      /\ f.sendQueue = e.sendQueue
      /\ IF e.closeListener /\ Live(e)
         THEN /\ f.readyState = "closed" /\ f.attached = FALSE
              /\ f.closeListener = FALSE /\ f.ping = FALSE
              /\ f.closes = e.closes + 1 /\ AllCancelled(e, f)
         ELSE /\ f.readyState = e.readyState /\ f.attached = e.attached
              /\ f.closeListener = e.closeListener /\ f.ping = e.ping
              /\ f.closes = e.closes /\ f.posts = e.posts
  BY ShutEffect
<1> HIDE DEF f
<1>2. LifeFits(f, early) BY <1>1 DEF Wired, LifeFits, Aside
<1>3. ShakeFits(f) BY <1>1 DEF Wired, ShakeFits, Aside
<1>4. Watched(f) /\ PollsFit(f) BY <1>1 DEF Wired, Watched, PollsFit, Aside
<1>5. PostsFit(f)
  <2>1. CASE e.closeListener /\ Live(e)
    <3>1. ASSUME NEW i \in 1 .. Len(e.posts) PROVE PostFits(f, Cancelled(e.posts[i]))
      <4>1. PostFits(e, e.posts[i]) /\ e.posts[i] \in Posts
        BY PostsAre DEF Wired, PostsFit
      <4>2. f.sid = e.sid /\ ~f.closeListener BY <1>1, <2>1 DEF Aside
      <4> QED BY <1>1, <4>1, <4>2, CancelledFits
    <3> QED BY <1>1, <2>1, <3>1 DEF AllCancelled, PostsFit
  <2>2. CASE ~(e.closeListener /\ Live(e))
    BY <1>1, <2>2 DEF Wired, PostsFit, PostFits, Aside
  <2> QED BY <2>1, <2>2
<1>6. Final(e, f) BY <1>1 DEF Final, Aside, Client, Live
<1> QED BY <1>1, <1>2, <1>3, <1>4, <1>5, <1>6 DEF Wired, f

(* Handing the queue to a thread that does not close the engine.            *)
LEMMA FlushWired ==
  ASSUME NEW e \in Client, NEW early \in BOOLEAN, Wired(e, early),
         NEW owner \in Owners \ Ending
  PROVE  LET f == TransportFlush(e, owner)
         IN f \in Client /\ Wired(f, early) /\ Aside(e, f) /\ Unclosed(e, f)
<1> DEFINE f == TransportFlush(e, owner)
<1>1. /\ f \in Client /\ Aside(e, f) /\ Unclosed(e, f) /\ f.sendQueue = <<>>
      /\ e.sendQueue = <<>> => f = e
      /\ e.sendQueue # <<>> => Posted(e, f, owner, e.sendQueue)
  BY TransportFlushEffect
<1> HIDE DEF f
<1>2. LifeFits(f, early) BY <1>1 DEF Wired, LifeFits, Aside, Unclosed
<1>3. ShakeFits(f) BY <1>1 DEF Wired, ShakeFits, Aside, Unclosed
<1>4. Watched(f) /\ PollsFit(f) BY <1>1 DEF Wired, Watched, PollsFit, Aside, Unclosed
<1>5. PostsFit(f)
  <2>1. CASE e.sendQueue = <<>> BY <1>1, <2>1 DEF Wired
  <2>2. CASE e.sendQueue # <<>>
    <3>1. Posted(e, f, owner, e.sendQueue) BY <1>1, <2>2
    <3>2. \A i \in 1 .. Len(e.posts) : PostFits(f, e.posts[i])
      BY <1>1 DEF Wired, PostsFit, PostFits, Aside, Unclosed
    <3>3. owner # "timer" /\ owner \notin Ending BY DEF Ending
    <3>4. PostFits(f, Post(owner, e.sendQueue, e.sid))
      BY <1>1, <3>3 DEF PostFits, Post, Aside
    <3>5. Len(e.posts) \in Nat BY PostsAre
    <3>6. \A i \in 1 .. Len(f.posts) : i \in 1 .. Len(e.posts) \/ i = Len(e.posts) + 1
      BY <3>1, <3>5 DEF Posted
    <3> QED BY <3>1, <3>2, <3>4, <3>6 DEF PostsFit, Posted
  <2> QED BY <2>1, <2>2
<1> QED BY <1>1, <1>2, <1>3, <1>4, <1>5 DEF Wired, f

(* The send loop that stops. *)
LEMMA StoppedWired ==
  ASSUME NEW e \in Client, NEW early \in BOOLEAN, Wired(e, early)
  PROVE  LET f == [e EXCEPT !.running = FALSE]
         IN f \in Client /\ Wired(f, early) /\ Aside(e, f) /\ Unclosed(e, f)
<1> DEFINE f == [e EXCEPT !.running = FALSE]
<1>1. /\ f \in Client /\ Aside(e, f) /\ Unclosed(e, f) /\ f.posts = e.posts
      /\ f.sendQueue = e.sendQueue
  BY DEF Client, Aside, Unclosed
<1> HIDE DEF f
<1> QED BY ZenonT(60), <1>1, SentWired DEF f

LEMMA ServerClosedWired ==
  ASSUME NEW e \in Client, NEW early \in BOOLEAN, Wired(e, early), e.boot = "polling"
  PROVE  LET f == ServerClosed(e)
         IN f \in Client /\ Wired(f, early) /\ Turned(e, f) /\ Final(e, f)
<1> DEFINE s == ShutTransport(e)
           t == TransportFlush(s, "last")
           r == [t EXCEPT !.running = FALSE]
           f == ServerClosed(e)
<1>1. /\ s \in Client /\ Wired(s, early) /\ Aside(e, s) /\ Final(e, s)
  BY ShutWired
<1>2. f = IF Len(t.posts) > Len(s.posts) THEN t ELSE r BY DEF ServerClosed
<1> HIDE DEF s, f
<1>3. "last" \in Owners \ Ending BY DEF Owners, Ending
<1>4. t \in Client /\ Wired(t, early) /\ Aside(s, t) /\ Unclosed(s, t)
  BY <1>1, <1>3, FlushWired
<1> HIDE DEF t
<1>5. r \in Client /\ Wired(r, early) /\ Aside(t, r) /\ Unclosed(t, r)
  BY <1>4, StoppedWired
<1> HIDE DEF r
<1>6. f \in Client /\ Wired(f, early) BY <1>2, <1>4, <1>5
<1>7. Aside(e, f) /\ f.readyState = s.readyState
  BY <1>1, <1>2, <1>4, <1>5 DEF Aside, Unclosed
<1>8. Final(e, f) BY <1>1, <1>7 DEF Final, Aside, Client
<1> QED BY <1>6, <1>7, <1>8 DEF f, Aside, Turned

(* The handshake, which finds its transport opening, or closed by close().  *)
LEMMA OpenPacketWired ==
  ASSUME NEW e \in Client, NEW early \in BOOLEAN, Wired(e, early), NEW p \in Packets,
         e.reading, p.type = "open", Len(e.payload) = 0, ~e.sid
  PROVE  LET f == OnData(e, p)
         IN f \in Client /\ Wired(f, early) /\ Turned(e, f) /\ Final(e, f)
<1> DEFINE d == IF e.transport = "opening"
                THEN [e EXCEPT !.transport = "open", !.writable = TRUE] ELSE e
           f == OnData(e, p)
<1>1. f = OnPacket(d, p) BY DEF OnData
<1>2. /\ d \in Client /\ d.transport = (IF e.transport = "opening" THEN "open" ELSE e.transport)
      /\ d.readyState = e.readyState /\ d.attached = e.attached
      /\ d.closeListener = e.closeListener /\ d.ping = e.ping /\ d.sid = e.sid
      /\ d.boot = e.boot /\ d.polls = e.polls /\ d.reading = e.reading
      /\ d.payload = e.payload /\ d.sendQueue = e.sendQueue /\ d.posts = e.posts
      /\ d.written = e.written /\ d.listeners = e.listeners /\ d.got = e.got
  <2>1. CASE e.transport = "opening"
    <3>1. d = [e EXCEPT !.transport = "open", !.writable = TRUE] BY <2>1
    <3> HIDE DEF d
    <3> QED BY <2>1, <3>1 DEF Client
  <2>2. CASE e.transport # "opening"
    <3>1. d = e BY <2>2
    <3> HIDE DEF d
    <3> QED BY <2>2, <3>1
  <2> QED BY <2>1, <2>2
<1> HIDE DEF d, f
<1>3. e.boot = "polling" BY DEF Wired, ShakeFits, Client
<1>4. CASE e.attached
  <2>1. Live(d) /\ e.readyState # "closed"
    BY <1>2, <1>4 DEF Live, Wired, LifeFits, Client
  <2>2. f = [d EXCEPT !.sid = TRUE, !.readyState = "open", !.listeners = "open"]
    BY <1>1, <1>2, <1>4, <2>1 DEF OnPacket
  <2>3. /\ f \in Client
        /\ f.sid = TRUE /\ f.readyState = "open" /\ f.listeners = "open"
        /\ f.transport = d.transport /\ f.attached = d.attached
        /\ f.closeListener = d.closeListener /\ f.ping = d.ping
        /\ f.boot = d.boot /\ f.polls = d.polls /\ f.reading = d.reading
        /\ f.payload = d.payload /\ f.sendQueue = d.sendQueue /\ f.posts = d.posts
        /\ f.written = d.written
    BY <1>2, <2>2 DEF Client
  <2>4. LifeFits(f, early) BY <1>2, <1>3, <1>4, <2>3 DEF Wired, LifeFits
  <2>5. ShakeFits(f) BY <1>2, <1>3, <2>3 DEF Wired, ShakeFits, Client
  <2>6. PostsFit(f) BY <1>2, <2>3 DEF Wired, PostsFit, PostFits
  <2>7. Watched(f) /\ PollsFit(f) BY <1>2, <2>3 DEF Wired, Watched, PollsFit
  <2> QED BY <1>2, <2>1, <2>3, <2>4, <2>5, <2>6, <2>7 DEF Wired, Turned, Final, f
<1>5. CASE ~e.attached
  <2>1. f = d BY <1>1, <1>2, <1>5 DEF OnPacket
  <2>2. e.readyState = "closed" BY <1>5 DEF Wired, LifeFits
  <2>3. LifeFits(d, early) BY <1>2, <1>3, <2>2 DEF Wired, LifeFits
  <2>4. ShakeFits(d) BY <1>2, <1>3, <2>2 DEF Wired, ShakeFits, Client
  <2>5. PostsFit(d) BY <1>2 DEF Wired, PostsFit, PostFits
  <2>6. Watched(d) /\ PollsFit(d) BY <1>2, <2>2 DEF Wired, Watched, PollsFit
  <2>7. Wired(d, early) BY <2>3, <2>4, <2>5, <2>6 DEF Wired
  <2>8. d \in Client /\ Turned(e, d) /\ Final(e, d) BY <1>2 DEF Turned, Final, Client
  <2> QED BY <2>1, <2>7, <2>8 DEF f
<1> QED BY <1>4, <1>5

LEMMA OnDataWired ==
  ASSUME NEW e \in Client, NEW early \in BOOLEAN, Wired(e, early), NEW p \in Packets,
         e.reading,
         p.type = "open" => ~e.sid /\ Len(e.payload) = 0,
         p.type # "open" => e.sid
  PROVE  LET f == OnData(e, p)
         IN f \in Client /\ Wired(f, early) /\ Turned(e, f) /\ Final(e, f)
<1>1. CASE p.type = "open" BY <1>1, OpenPacketWired
<1>2. CASE p.type = "close"
  <2>1. e.boot = "polling" BY DEF Wired, ShakeFits, Client
  <2>2. OnData(e, p) = ServerClosed(e) BY <1>2 DEF OnData
  <2> DEFINE g == ServerClosed(e)
  <2>3. g \in Client /\ Wired(g, early) /\ Turned(e, g) /\ Final(e, g)
    BY <2>1, ServerClosedWired
  <2> QED BY <2>2, <2>3
<1>3. CASE p.type \notin {"open", "close"}
  <2>1. OnData(e, p) = OnPacket(e, p) BY <1>3 DEF OnData
  <2> DEFINE g == OnPacket(e, p)
  <2>2. g \in Client /\ Wired(g, early) /\ Turned(e, g) /\ Final(e, g)
    BY <1>3, OnPacketWired
  <2> QED BY <2>1, <2>2
<1> QED BY <1>1, <1>2, <1>3

(* Wired, but for the ping timer: while the listeners of a handshake or of   *)
(* a ping return.                                                           *)
Plugged(e, early) ==
  LifeFits(e, early) /\ ShakeFits(e) /\ PostsFit(e) /\ PollsFit(e)

LEMMA ReturnedPlugged ==
  ASSUME NEW e \in Client, NEW early \in BOOLEAN, Wired(e, early)
  PROVE  LET f == [e EXCEPT !.listeners = "none"]
         IN /\ f \in Client /\ Plugged(f, early) /\ Turned(e, f) /\ f.sid = e.sid
            /\ f.readyState = e.readyState /\ f.got = e.got
<1> DEFINE f == [e EXCEPT !.listeners = "none"]
<1>1. /\ f \in Client /\ f.listeners = "none" /\ f.sid = e.sid /\ f.boot = e.boot
      /\ f.polls = e.polls /\ f.reading = e.reading /\ f.payload = e.payload
      /\ f.written = e.written /\ f.got = e.got /\ f.writable = e.writable
      /\ f.readyState = e.readyState /\ f.transport = e.transport
      /\ f.attached = e.attached /\ f.closeListener = e.closeListener
      /\ f.ping = e.ping /\ f.posts = e.posts /\ f.sendQueue = e.sendQueue
  BY DEF Client
<1> HIDE DEF f
<1>2. LifeFits(f, early) /\ ShakeFits(f) /\ PostsFit(f) /\ PollsFit(f)
  BY <1>1 DEF Wired, LifeFits, ShakeFits, PostsFit, PostFits, PollsFit
<1> QED BY <1>1, <1>2 DEF Plugged, Turned, f

LEMMA FlushedPlugged ==
  ASSUME NEW e \in Client, NEW early \in BOOLEAN, Plugged(e, early), e.sid
  PROVE  LET f == EngineFlush(e)
         IN /\ f \in Client /\ Plugged(f, early) /\ Aside(e, f)
            /\ f.readyState = e.readyState
<1> DEFINE f == EngineFlush(e)
<1>1. /\ f \in Client /\ Aside(e, f) /\ Unclosed(e, f) /\ f.posts = e.posts
  BY EngineFlushEffect
<1> HIDE DEF f
<1>2. LifeFits(f, early) BY <1>1 DEF Plugged, LifeFits, Aside, Unclosed
<1>3. ShakeFits(f) BY <1>1 DEF Plugged, ShakeFits, Aside, Unclosed
<1>4. PostsFit(f) BY <1>1 DEF Plugged, PostsFit, PostFits, Aside, Unclosed
<1>5. PollsFit(f) BY <1>1 DEF Plugged, PollsFit, Aside
<1> QED BY <1>1, <1>2, <1>3, <1>4, <1>5 DEF Plugged, Unclosed, f

LEMMA ResetPingEffect ==
  ASSUME NEW e \in Client, NEW early \in BOOLEAN, Plugged(e, early), e.sid
  PROVE  LET f == ResetPing(e)
         IN f \in Client /\ Wired(f, early) /\ Aside(e, f) /\ f.readyState = e.readyState
<1> DEFINE b == ClearPing(e)
           f == ResetPing(e)
<1>1. /\ b \in Client /\ Aside(e, b) /\ AllCancelled(e, b)
      /\ b.ping = FALSE /\ b.closes = e.closes
      /\ b.readyState = e.readyState /\ b.transport = e.transport
      /\ b.attached = e.attached /\ b.closeListener = e.closeListener
      /\ b.sendQueue = e.sendQueue /\ b.running = e.running
      /\ b.writeBuffer = e.writeBuffer
  BY ClearPingEffect
<1>2. f = [b EXCEPT !.ping = TRUE] BY DEF ResetPing
<1> HIDE DEF b, f
<1>3. /\ f \in Client /\ Aside(b, f) /\ f.ping = TRUE /\ f.posts = b.posts
      /\ f.readyState = b.readyState /\ f.transport = b.transport
      /\ f.attached = b.attached /\ f.closeListener = b.closeListener
      /\ f.sendQueue = b.sendQueue
  BY <1>1, <1>2 DEF Client, Aside
<1>4. Aside(e, f) BY <1>1, <1>3 DEF Aside
<1>5. LifeFits(f, early) BY <1>1, <1>3, <1>4 DEF Plugged, LifeFits, Aside
<1>6. ShakeFits(f) BY <1>1, <1>3, <1>4 DEF Plugged, ShakeFits, Aside
<1>7. Watched(f) /\ PollsFit(f) BY <1>3, <1>4 DEF Plugged, Watched, PollsFit, Aside
<1>8. PostsFit(f)
  <2>1. ASSUME NEW i \in 1 .. Len(e.posts) PROVE PostFits(f, Cancelled(e.posts[i]))
    <3>1. PostFits(e, e.posts[i]) /\ e.posts[i] \in Posts
      BY PostsAre DEF Plugged, PostsFit
    <3> QED BY <1>1, <1>3, <1>4, <3>1
            DEF PostFits, Cancelled, Posts, Owners, Ending, Aside
  <2> QED BY <1>1, <1>3, <2>1 DEF AllCancelled, PostsFit
<1> QED BY <1>1, <1>3, <1>4, <1>5, <1>6, <1>7, <1>8 DEF Wired, f

(***************************************************************************)
(* The steps                                                                *)
(***************************************************************************)
OutboxFits == \A i \in 1 .. Len(outbox) : outbox[i].type \notin {"open", "error"}
Inv == TypeInv /\ OutboxFits /\ Wired(c, Early)

(* ClosedIsFinal for a step; with a request that fails before the deferred  *)
(* opening, a closed engine may still poll.                                 *)
Lasting ==
  c.readyState = "closed" =>
    /\ c'.readyState = "closed" /\ c'.got = c.got
    /\ c'.polls > c.polls => c.boot = "opening" \/ FastRequests

(* The engine reads its payload from the front, and gets one from a poll.   *)
PollReads == Handshake \/ PollAnswered \/ PollReleased \/ PollGarbled
ReadsOn ==
  \/ PollReads
  \/ c'.payload = c.payload
  \/ c.payload # <<>> /\ c'.payload = Tail(c.payload)

Kept ==
  c' \in Client /\ c'.written <= MaxWrites /\ Wired(c', Early') /\ Lasting /\ ReadsOn

LEMMA Facts ==
  ASSUME Inv
  PROVE  /\ c \in Client /\ Early \in BOOLEAN /\ c.polls \in Nat /\ c.written \in Nat
         /\ c.written <= MaxWrites /\ c.payload \in Seq(Packets)
BY EngineAssumption DEF Inv, TypeInv, Early, Client

LEMMA OpenTransportKept ==
  ASSUME Inv, OpenTransport PROVE Kept
<1>1. c \in Client /\ c.written <= MaxWrites /\ c.polls \in Nat BY Facts
<1>2. c.boot = "new" /\ c' = [c EXCEPT !.transport = "opening", !.boot = "opening"]
      /\ Early' = Early
  BY DEF OpenTransport, history, Early
<1> DEFINE f == [c EXCEPT !.transport = "opening", !.boot = "opening"]
<1>3. /\ f \in Client /\ f.transport = "opening" /\ f.boot = "opening"
      /\ f.listeners = c.listeners /\ f.sid = c.sid
      /\ f.polls = c.polls /\ f.reading = c.reading /\ f.payload = c.payload
      /\ f.written = c.written /\ f.got = c.got /\ f.writable = c.writable
      /\ f.readyState = c.readyState /\ f.drainClose = c.drainClose
      /\ f.attached = c.attached /\ f.closeListener = c.closeListener
      /\ f.ping = c.ping /\ f.posts = c.posts /\ f.sendQueue = c.sendQueue
  BY <1>1 DEF Client
<1> HIDE DEF f
<1>4. LifeFits(f, Early) BY <1>1, <1>2, <1>3 DEF Inv, Wired, LifeFits, Client
<1>5. ShakeFits(f) BY <1>2, <1>3 DEF Inv, Wired, ShakeFits
<1>6. PostsFit(f) BY <1>2, <1>3 DEF Inv, Wired, PostsFit, PostFits, ShakeFits
<1>7. Watched(f) /\ PollsFit(f) BY <1>3 DEF Inv, Wired, Watched, PollsFit
<1>8. c' = f BY <1>2 DEF f
<1> QED BY <1>1, <1>2, <1>3, <1>4, <1>5, <1>6, <1>7, <1>8 DEF Kept, ReadsOn, Wired, Lasting

LEMMA StartPollingKept ==
  ASSUME Inv, StartPolling PROVE Kept
<1>1. c \in Client /\ c.written <= MaxWrites /\ c.polls \in Nat BY Facts
<1> DEFINE n == c.polls + 1
           f == [c EXCEPT !.boot = "polling", !.polls = n]
<1>2. c.boot = "opening" /\ c' = f /\ Early' = Early
  BY DEF StartPolling, history, Early
<1>3. n = c.polls + 1 /\ n \in Nat BY <1>1
<1> HIDE DEF n
<1>4. /\ f \in Client /\ f.boot = "polling" /\ f.polls = n
      /\ f.listeners = c.listeners /\ f.sid = c.sid /\ f.transport = c.transport
      /\ f.reading = c.reading /\ f.payload = c.payload
      /\ f.written = c.written /\ f.got = c.got /\ f.writable = c.writable
      /\ f.readyState = c.readyState
      /\ f.attached = c.attached /\ f.closeListener = c.closeListener
      /\ f.ping = c.ping /\ f.posts = c.posts /\ f.sendQueue = c.sendQueue
  BY <1>1, <1>3 DEF Client
<1>5. c' = f BY <1>2
<1> HIDE DEF f
<1>6. LifeFits(f, Early) BY <1>2, <1>4 DEF Inv, Wired, LifeFits
<1>7. ShakeFits(f) BY <1>2, <1>4 DEF Inv, Wired, ShakeFits
<1>8. PostsFit(f) BY <1>4 DEF Inv, Wired, PostsFit, PostFits
<1>9. Watched(f) BY <1>4 DEF Inv, Wired, Watched
<1>10. PollsFit(f) BY <1>2, <1>4, <1>3 DEF Inv, Wired, PollsFit, ShakeFits
<1> QED BY <1>1, <1>2, <1>4, <1>6, <1>7, <1>8, <1>9, <1>10, <1>5 DEF Kept, ReadsOn, Wired, Lasting

LEMMA WriteKept ==
  ASSUME Inv, Write PROVE Kept
<1>1. c \in Client /\ c.written \in Nat /\ Early \in BOOLEAN BY Facts
<1> DEFINE n == c.written + 1
           d == [c EXCEPT !.written = n]
           p == Message(n)
           f == SendPacket(d, p)
<1>2. /\ c.written < MaxWrites /\ c.readyState \in {"opening", "open"}
      /\ c' = f /\ Early' = Early
  BY DEF Write, history, Early
<1>3. n = c.written + 1 /\ n \in Nat BY <1>1
<1> HIDE DEF n
<1>4. p \in Packets BY <1>3 DEF Message, Packet, Packets
<1>5. /\ d \in Client /\ d.written = n /\ d.boot = c.boot
      /\ d.listeners = c.listeners /\ d.sid = c.sid /\ d.transport = c.transport
      /\ d.polls = c.polls /\ d.reading = c.reading /\ d.payload = c.payload
      /\ d.writable = c.writable /\ d.readyState = c.readyState
      /\ d.attached = c.attached /\ d.closeListener = c.closeListener
      /\ d.ping = c.ping /\ d.posts = c.posts /\ d.sendQueue = c.sendQueue
  BY <1>1, <1>3 DEF Client
<1> HIDE DEF d, p
<1>6. Wired(d, Early)
  BY <1>5 DEF Inv, Wired, LifeFits, ShakeFits, PostsFit, PostFits, Watched, PollsFit
<1>7. /\ f \in Client /\ Aside(d, f) /\ Unclosed(d, f) /\ f.posts = d.posts
      /\ f.sendQueue # d.sendQueue =>
           d.transport = "open" /\ d.writable /\ d.readyState # "closed"
  BY <1>4, <1>5, SendPacketEffect
<1> HIDE DEF f
<1>8. f.sendQueue # d.sendQueue => d.sid BY <1>6, <1>7 DEF Wired, ShakeFits
<1>9. Wired(f, Early) BY <1>1, <1>5, <1>6, <1>7, <1>8, SentWired
<1>10. f.written <= MaxWrites BY <1>1, <1>3, <1>2, <1>5, <1>7, EngineBounds DEF Aside
<1>11. f.payload = c.payload BY <1>5, <1>7 DEF Aside
<1> QED BY <1>2, <1>7, <1>9, <1>10, <1>11 DEF Kept, ReadsOn, Lasting

LEMMA CloseKept ==
  ASSUME Inv, Close PROVE Kept
<1>1. c \in Client /\ c.written <= MaxWrites /\ Early \in BOOLEAN BY Facts
<1> DEFINE d == [c EXCEPT !.readyState = "closing"]
           b == [d EXCEPT !.drainClose = TRUE]
<1>2. /\ c.readyState \in {"opening", "open"} /\ Early' = Early
      /\ c' = IF d.writeBuffer # <<>> THEN b ELSE ForcedClose(d)
  BY DEF Close, history, Early
<1>3. /\ d \in Client /\ d.readyState = "closing" /\ Aside(c, d)
      /\ d.transport = c.transport
      /\ d.attached = c.attached /\ d.closeListener = c.closeListener
      /\ d.ping = c.ping /\ d.posts = c.posts /\ d.sendQueue = c.sendQueue
  BY <1>1 DEF Client, Aside
<1> HIDE DEF d
<1>4. Wired(d, Early)
  <2>1. LifeFits(d, Early) BY <1>2, <1>3 DEF Inv, Wired, LifeFits, Aside
  <2>2. ShakeFits(d) BY <1>2, <1>3 DEF Inv, Wired, ShakeFits, Aside
  <2>3. PostsFit(d) BY <1>3 DEF Inv, Wired, PostsFit, PostFits, Aside
  <2> QED BY <1>3, <2>1, <2>2, <2>3 DEF Inv, Wired, Watched, PollsFit, Aside
<1>5. CASE d.writeBuffer # <<>>
  <2>1. /\ b \in Client /\ Unclosed(d, b) /\ b.posts = d.posts /\ b.sid = d.sid
        /\ b.listeners = d.listeners /\ b.boot = d.boot /\ b.polls = d.polls
        /\ b.reading = d.reading /\ b.payload = d.payload /\ b.written = d.written
        /\ b.writable = d.writable /\ b.sendQueue = d.sendQueue
    <3>1. b \in Client BY <1>3 DEF Client
    <3> QED BY <1>3, <3>1 DEF Client, Unclosed
  <2>2. c' = b BY <1>2, <1>5
  <2> HIDE DEF b
  <2>3. Wired(b, Early)
    BY <1>4, <2>1
       DEF Wired, LifeFits, ShakeFits, PostsFit, PostFits, Watched, PollsFit, Unclosed
  <2>4. b.written <= MaxWrites /\ b.payload = c.payload BY <1>1, <1>3, <2>1 DEF Aside
  <2> QED BY <1>2, <2>1, <2>2, <2>3, <2>4 DEF Kept, ReadsOn, Lasting
<1>6. CASE ~(d.writeBuffer # <<>>)
  <2>1. Live(d) /\ (d.transport = "opening" => d.sendQueue = <<>>)
    BY <1>3, <1>4 DEF Live, Wired, ShakeFits
  <2> DEFINE f == EngineClose(d, "forced")
  <2>2. c' = f BY <1>2, <1>3, <1>6, <2>1, ForcedCloseIs
  <2>4. (Waits(d, f, "forced") \/ Ends(d, f)) /\ Wired(f, Early)
    <3>1. d.boot = "new" => Early \/ (d.transport = "open" /\ d.readyState = "closing")
      BY <1>2, <1>3 DEF Inv, Wired, LifeFits, Aside
    <3> QED BY <1>1, <1>3, <1>4, <2>1, <3>1, EngineCloseWired DEF Owners
  <2> HIDE DEF f
  <2>5. f \in Client /\ f.written = c.written /\ f.payload = c.payload
    BY <1>3, <2>4 DEF Waits, Ends, Shuts, Aside
  <2> QED BY <1>1, <1>2, <2>2, <2>4, <2>5 DEF Kept, ReadsOn, Lasting
<1> QED BY <1>5, <1>6

LEMMA LoopKept ==
  ASSUME Inv, Loop PROVE Kept
<1>1. c \in Client /\ c.written <= MaxWrites /\ Early \in BOOLEAN /\ c.polls \in Nat BY Facts
<1> DEFINE f == TransportFlush(c, "loop")
<1>2. c' = f /\ Early' = Early BY DEF Loop, history, Early
<1>3. f \in Client /\ Wired(f, Early) /\ Aside(c, f) /\ Unclosed(c, f)
  <2>1. "loop" \in Owners \ Ending BY DEF Owners, Ending
  <2> QED BY <1>1, <2>1, FlushWired DEF Inv
<1> HIDE DEF f
<1> QED BY <1>1, <1>2, <1>3 DEF Kept, ReadsOn, Lasting, Aside, Unclosed

(* The ping timer calls _onClose; that it is no longer set makes no         *)
(* difference, _onClose clears it anyway.                                   *)
LEMMA PingTimeoutIs ==
  ASSUME Inv, PingTimeout
  PROVE  /\ c.readyState # "closed" => c' = EngineClose(c, "timer")
         /\ c.readyState = "closed" => c' = [c EXCEPT !.ping = FALSE]
<1> DEFINE d == [c EXCEPT !.ping = FALSE]
<1>1. c \in Client BY Facts
<1>2. c' = EngineClose(d, "timer") BY DEF PingTimeout
<1>3. Live(d) <=> c.readyState # "closed" BY <1>1 DEF Live, Client
<1>4. Live(c) <=> c.readyState # "closed" BY <1>1 DEF Live, Client
<1>5. ClearPing(d) = ClearPing(c) BY <1>1 DEF ClearPing, Client
<1>6. CASE c.readyState = "closed" BY <1>2, <1>3, <1>6 DEF EngineClose
<1>7. CASE c.readyState # "closed"
  <2>1. EngineClose(d, "timer") = EngineClose(c, "timer")
    BY <1>3, <1>4, <1>5, <1>7 DEF EngineClose
  <2> QED BY <1>2, <1>7, <2>1
<1> QED BY <1>6, <1>7

LEMMA PingTimeoutKept ==
  ASSUME Inv, PingTimeout PROVE Kept
<1>1. c \in Client /\ c.written <= MaxWrites /\ Early \in BOOLEAN /\ c.polls \in Nat BY Facts
<1>2. c.ping /\ Early' = Early BY DEF PingTimeout, Early
<1>3. c.sid /\ c.boot = "polling"
  BY <1>1, <1>2 DEF Inv, Wired, ShakeFits, Client
<1>4. CASE c.readyState # "closed"
  <2> DEFINE f == EngineClose(c, "timer")
  <2>1. c' = f BY <1>4, PingTimeoutIs
  <2>2. Live(c) BY <1>1, <1>4 DEF Live, Client
  <2>3. (Waits(c, f, "timer") \/ Ends(c, f)) /\ Wired(f, Early)
    BY <1>1, <1>3, <2>2, EngineCloseWired DEF Inv, Owners
  <2> HIDE DEF f
  <2>4. f \in Client /\ f.written = c.written /\ f.payload = c.payload
    BY <2>3 DEF Waits, Ends, Shuts, Aside
  <2> QED BY <1>1, <1>2, <1>4, <2>1, <2>3, <2>4 DEF Kept, ReadsOn, Lasting
<1>5. CASE c.readyState = "closed"
  <2> DEFINE f == [c EXCEPT !.ping = FALSE]
  <2>1. c' = f BY <1>5, PingTimeoutIs
  <2>2. /\ f \in Client /\ Aside(c, f) /\ f.ping = FALSE /\ f.readyState = c.readyState
        /\ f.transport = c.transport /\ f.attached = c.attached
        /\ f.closeListener = c.closeListener /\ f.posts = c.posts
        /\ f.sendQueue = c.sendQueue
    BY <1>1 DEF Client, Aside
  <2> HIDE DEF f
  <2>3. Wired(f, Early)
    BY <1>5, <2>2
       DEF Inv, Wired, LifeFits, ShakeFits, PostsFit, PostFits, Watched, PollsFit, Aside
  <2> QED BY <1>1, <1>2, <2>1, <2>2, <2>3 DEF Kept, ReadsOn, Lasting, Aside
<1> QED BY <1>4, <1>5

LEMMA ReadPacketKept ==
  ASSUME Inv, ReadPacket PROVE Kept
<1>1. /\ c \in Client /\ c.written <= MaxWrites /\ Early \in BOOLEAN /\ c.polls \in Nat
      /\ c.payload \in Seq(Packets)
  BY Facts
<1> DEFINE t == Tail(c.payload)
           p == Head(c.payload)
           e == [c EXCEPT !.payload = t]
           f == OnData(e, p)
<1>2. /\ c.reading /\ c.listeners = "none" /\ c.payload # <<>>
      /\ c' = f /\ Early' = Early
  BY DEF ReadPacket, history, Early
<1>3. /\ p \in Packets /\ t \in Seq(Packets) /\ Len(t) = Len(c.payload) - 1
      /\ \A i \in 1 .. Len(t) : t[i] = c.payload[i + 1]
  BY <1>1, <1>2, HeadTailProperties
<1>4. p = c.payload[1] /\ Len(t) \in Nat /\ Len(c.payload) \in Nat
  BY <1>1, <1>3, LenProperties
<1> HIDE DEF t, p
<1>5. /\ e \in Client /\ e.payload = t /\ Unclosed(c, e) /\ e.sid = c.sid
      /\ e.polls = c.polls /\ e.reading = c.reading /\ e.boot = c.boot
      /\ e.written = c.written /\ e.listeners = c.listeners /\ e.got = c.got /\ e.writable = c.writable
      /\ e.posts = c.posts /\ e.sendQueue = c.sendQueue
  BY <1>1, <1>3 DEF Client, Unclosed
<1> HIDE DEF e, f
<1>6. \A i \in 1 .. Len(t) : i + 1 \in 1 .. Len(c.payload) /\ Len(c.payload) # 1
  BY <1>3, <1>4
<1>7. ShakeFits(e)
  <2>1. \A i \in 1 .. Len(t) : t[i].type # "open"
    BY <1>3, <1>6 DEF Inv, Wired, ShakeFits
  <2>2. ~c.sid => Len(t) = 0
    <3>1. 1 \in 1 .. Len(c.payload) BY <1>3, <1>4
    <3> QED BY <1>2, <1>3, <1>4, <3>1 DEF Inv, Wired, ShakeFits
  <2> QED BY <1>5, <2>1, <2>2 DEF Inv, Wired, ShakeFits, Unclosed
<1>8. Wired(e, Early)
  BY <1>5, <1>7
     DEF Inv, Wired, LifeFits, PostsFit, PostFits, Watched, PollsFit, Unclosed
<1>9. (p.type = "open" => ~e.sid /\ Len(e.payload) = 0) /\ (p.type # "open" => e.sid)
  <2>1. 1 \in 1 .. Len(c.payload) BY <1>3, <1>4
  <2> QED BY <1>2, <1>3, <1>4, <1>5, <2>1 DEF Inv, Wired, ShakeFits
<1>10. f \in Client /\ Wired(f, Early) /\ Turned(e, f) /\ Final(e, f)
  <2>1. e.reading BY <1>2, <1>5
  <2> QED BY <1>1, <1>3, <1>5, <1>8, <1>9, <2>1, OnDataWired DEF f
<1>11. Lasting BY <1>1, <1>2, <1>5, <1>10 DEF Lasting, Final, Unclosed, Turned
<1> QED BY <1>1, <1>2, <1>5, <1>10, <1>11 DEF Kept, ReadsOn, Turned, t

LEMMA OpenedKept ==
  ASSUME Inv, Opened PROVE Kept
<1>1. c \in Client /\ c.written <= MaxWrites /\ Early \in BOOLEAN /\ c.polls \in Nat BY Facts
<1> DEFINE b == [c EXCEPT !.listeners = "none"]
           d == EngineFlush(b)
           g == ResetPing(d)
<1>2. /\ c.listeners = "open" /\ Early' = Early
      /\ c' = IF d.readyState = "closed" THEN d ELSE g
  BY DEF Opened, history, Early
<1>3. c.sid BY <1>2 DEF Inv, Wired, ShakeFits
<1>4. /\ b \in Client /\ Plugged(b, Early) /\ Turned(c, b) /\ b.sid = c.sid
      /\ b.readyState = c.readyState /\ b.got = c.got
  BY <1>1, ReturnedPlugged DEF Inv
<1> HIDE DEF b
<1>5. d \in Client /\ Plugged(d, Early) /\ Aside(b, d) /\ d.readyState = b.readyState
  BY <1>1, <1>3, <1>4, FlushedPlugged
<1> HIDE DEF d
<1>6. /\ g \in Client /\ Wired(g, Early) /\ Aside(d, g) /\ g.readyState = d.readyState
  BY <1>1, <1>3, <1>4, <1>5, ResetPingEffect DEF Aside
<1> HIDE DEF g
<1>7. d.readyState = "closed" => Wired(d, Early) BY <1>5 DEF Plugged, Wired, Watched
<1>8. /\ c' \in Client /\ c'.written = c.written /\ c'.polls = c.polls /\ c'.got = c.got
      /\ c'.readyState = c.readyState /\ c'.payload = c.payload
  BY <1>2, <1>4, <1>5, <1>6 DEF Aside, Turned
<1>9. Wired(c', Early) BY <1>2, <1>6, <1>7
<1> QED BY <1>1, <1>2, <1>8, <1>9 DEF Kept, ReadsOn, Lasting

LEMMA PingedKept ==
  ASSUME Inv, Pinged PROVE Kept
<1>1. c \in Client /\ c.written <= MaxWrites /\ Early \in BOOLEAN /\ c.polls \in Nat BY Facts
<1> DEFINE b == [c EXCEPT !.listeners = "none"]
           g == ResetPing(b)
<1>2. c.listeners = "ping" /\ Early' = Early /\ c' = g
  BY DEF Pinged, history, Early
<1>3. c.sid BY <1>2 DEF Inv, Wired, ShakeFits
<1>4. /\ b \in Client /\ Plugged(b, Early) /\ Turned(c, b) /\ b.sid = c.sid
      /\ b.readyState = c.readyState /\ b.got = c.got
  BY <1>1, ReturnedPlugged DEF Inv
<1> HIDE DEF b
<1>5. /\ g \in Client /\ Wired(g, Early) /\ Aside(b, g) /\ g.readyState = b.readyState
  BY <1>1, <1>3, <1>4, ResetPingEffect
<1> HIDE DEF g
<1> QED BY <1>1, <1>2, <1>4, <1>5 DEF Kept, ReadsOn, Lasting, Aside, Turned

LEMMA ReadEndsKept ==
  ASSUME Inv, ReadEnds PROVE Kept
<1>1. c \in Client /\ c.written <= MaxWrites /\ Early \in BOOLEAN /\ c.polls \in Nat BY Facts
<1> DEFINE n == IF c.transport = "open" THEN c.polls + 1 ELSE c.polls
           f == [c EXCEPT !.reading = FALSE, !.polls = n]
<1>2. c.reading /\ c.listeners = "none" /\ Early' = Early BY DEF ReadEnds, history, Early
<1>3. c' = f
  <2>1. c' = PollAgain([c EXCEPT !.reading = FALSE]) BY DEF ReadEnds
  <2> QED BY <1>1, <2>1 DEF PollAgain, Client
<1>4. n \in Nat /\ n <= c.polls + 1 /\ (n > c.polls => c.transport = "open") BY <1>1
<1> HIDE DEF n
<1>5. /\ f \in Client /\ Unclosed(c, f) /\ f.reading = FALSE /\ f.polls = n
      /\ f.boot = c.boot /\ f.sid = c.sid /\ f.listeners = c.listeners
      /\ f.payload = c.payload /\ f.writable = c.writable /\ f.written = c.written
      /\ f.got = c.got /\ f.posts = c.posts /\ f.sendQueue = c.sendQueue
  BY <1>1, <1>4 DEF Client, Unclosed
<1> HIDE DEF f
<1>6. c.polls = 0 BY <1>1, <1>2 DEF Inv, Wired, PollsFit
<1>7. c.boot = "polling" BY <1>1, <1>2 DEF Inv, Wired, ShakeFits, Client
<1>8. LifeFits(f, Early) BY <1>5 DEF Inv, Wired, LifeFits, Unclosed
<1>9. ShakeFits(f) BY <1>2, <1>5, <1>7 DEF Inv, Wired, ShakeFits, Unclosed
<1>10. PostsFit(f) BY <1>5 DEF Inv, Wired, PostsFit, PostFits, Unclosed
<1>11. Watched(f) BY <1>5 DEF Inv, Wired, Watched, Unclosed
<1>12. PollsFit(f) BY <1>4, <1>5, <1>6 DEF PollsFit
<1>13. Lasting
  <2>1. c.readyState = "closed" /\ c.transport = "open" => FastRequests
    BY DEF Inv, Wired, LifeFits, Early
  <2> QED BY <1>3, <1>4, <1>5, <2>1 DEF Lasting, Unclosed
<1> QED BY <1>1, <1>2, <1>3, <1>5, <1>8, <1>9, <1>10, <1>11, <1>12, <1>13 DEF Kept, ReadsOn, Wired

LEMMA PostEndsKept ==
  ASSUME Inv, NEW n \in DOMAIN c.posts, PostEnds(n) PROVE Kept
<1>1. c \in Client /\ c.written <= MaxWrites /\ Early \in BOOLEAN /\ c.polls \in Nat BY Facts
<1>2. n \in 1 .. Len(c.posts) BY <1>1, PostsAre
<1>3. ASSUME c' \in Client, Wired(c', Early'), Held(c, c'), Final(c, c') PROVE Kept
  <2>1. c'.polls \in Nat BY <1>3 DEF Client
  <2> QED BY <1>1, <1>3, <2>1 DEF Kept, ReadsOn, Held, Final, Lasting
<1>4. CASE PostAccepted(n)
  <2>1. c.posts[n].sid /\ c' = PostOk(n) /\ Early' = Early
    BY <1>4 DEF PostAccepted, history, Early
  <2> DEFINE f == PostOk(n)
  <2>2. f \in Client /\ Wired(f, Early) /\ Held(c, f) /\ Final(c, f)
    BY <1>1, <1>2, <2>1, PostOkWired DEF Inv
  <2>3. c' = f BY <2>1
  <2> HIDE DEF f
  <2> QED BY <1>3, <2>1, <2>2, <2>3
<1>5. CASE PostRefused(n) \/ PostLost(n)
  <2>1. Settles /\ c' = PostError(n) /\ faulted' = TRUE
    BY <1>5 DEF PostRefused, PostLost
  <2>2. Early' \in BOOLEAN /\ (Early => Early') /\ (c.boot = "new" => Early')
    BY <2>1, EngineAssumption DEF Early, Settles
  <2> DEFINE late == Early'
             f == PostError(n)
  <2>3. late \in BOOLEAN /\ Wired(c, late) /\ (c.boot = "new" => late)
    <3>1. late \in BOOLEAN /\ (Early => late) BY <2>2
    <3>2. c.boot = "new" => late BY <2>2
    <3> HIDE DEF late
    <3>3. Wired(c, late) BY <1>1, <3>1, WiredLater DEF Inv
    <3> QED BY <3>1, <3>2, <3>3
  <2>4. c' = f BY <2>1
  <2>5. Wired(c', late) = Wired(c', Early') OBVIOUS
  <2> HIDE DEF late
  <2>6. f \in Client /\ Wired(f, late) /\ Held(c, f) /\ Final(c, f)
    BY <1>2, <2>3, PostErrorWired DEF Inv
  <2> HIDE DEF f
  <2> QED BY <1>3, <2>4, <2>5, <2>6
<1> QED BY <1>4, <1>5 DEF PostEnds

(* An answer to the poll, which the engine begins to read.                  *)
LEMMA ReadingKept ==
  ASSUME Inv, PollReads, NEW payload \in Seq(Packets), c.polls > 0, ~c.reading,
         c' = Reading(payload), Early => Early', Early' \in BOOLEAN,
         ~c.sid => \A i \in 1 .. Len(payload) : payload[i].type = "open",
         \A i \in 1 .. Len(payload) : payload[i].type = "open" => ~c.sid /\ Len(payload) = 1
  PROVE  Kept
<1>1. c \in Client /\ c.written <= MaxWrites /\ Early \in BOOLEAN /\ c.polls \in Nat BY Facts
<1> DEFINE n == c.polls - 1
           f == [c EXCEPT !.polls = n, !.reading = TRUE, !.payload = payload]
<1>2. c' = f BY DEF Reading
<1>3. n \in Nat /\ n = c.polls - 1 BY <1>1
<1> HIDE DEF n
<1>4. /\ f \in Client /\ Unclosed(c, f) /\ f.reading = TRUE /\ f.polls = n
      /\ f.payload = payload
      /\ f.boot = c.boot /\ f.sid = c.sid /\ f.listeners = c.listeners
      /\ f.writable = c.writable /\ f.written = c.written
      /\ f.got = c.got /\ f.posts = c.posts /\ f.sendQueue = c.sendQueue
  BY <1>1, <1>3 DEF Client, Unclosed
<1> HIDE DEF f
<1>5. c.boot = "polling" /\ c.listeners = "none"
  BY <1>1 DEF Inv, Wired, ShakeFits, Client
<1>6. LifeFits(f, Early) BY <1>4 DEF Inv, Wired, LifeFits, Unclosed
<1>7. ShakeFits(f) BY <1>4, <1>5 DEF Inv, Wired, ShakeFits, Unclosed
<1>8. PostsFit(f) BY <1>4 DEF Inv, Wired, PostsFit, PostFits, Unclosed
<1>9. Watched(f) BY <1>4 DEF Inv, Wired, Watched, Unclosed
<1>10. PollsFit(f) BY <1>1, <1>3, <1>4 DEF Inv, Wired, PollsFit
<1>11. Wired(f, Early) BY <1>6, <1>7, <1>8, <1>9, <1>10 DEF Wired
<1>12. Wired(c', Early')
  <2> DEFINE late == Early'
  <2>1. late \in BOOLEAN /\ (Early => late) OBVIOUS
  <2>2. Wired(c', late) = Wired(c', Early') OBVIOUS
  <2> HIDE DEF late
  <2>3. Wired(f, late) BY <1>1, <1>4, <1>11, <2>1, WiredLater
  <2> QED BY <1>2, <2>2, <2>3
<1>13. c'.polls <= c.polls BY <1>1, <1>2, <1>3, <1>4
<1> QED BY <1>1, <1>2, <1>3, <1>4, <1>12, <1>13 DEF Kept, ReadsOn, Lasting, Unclosed

LEMMA PollEndsKept ==
  ASSUME Inv, PollEnds PROVE Kept
<1>1. c \in Client /\ c.written <= MaxWrites /\ Early \in BOOLEAN /\ c.polls \in Nat BY Facts
<1>2. Early' \in BOOLEAN /\ (Early => Early')
  BY EngineAssumption
     DEF Inv, TypeInv, Early, PollEnds, Handshake, PollAnswered, PollReleased, PollGarbled, PollLost, history
<1>3. \A t \in {"open", "noop", "error"} :
        LET s == <<Packet(t, 0)>>
        IN s \in Seq(Packets) /\ Len(s) = 1 /\ s[1].type = t
  BY DEF Packet, Packets
<1>4. CASE Handshake
  <2> DEFINE s == <<Packet("open", 0)>>
  <2>1. c.polls > 0 /\ ~c.sid /\ ~c.reading /\ c' = Reading(s)
    BY <1>4 DEF Handshake, Settles, Idle
  <2>2. s \in Seq(Packets) /\ Len(s) = 1 /\ s[1].type = "open" BY <1>3
  <2> HIDE DEF s
  <2> QED BY <1>2, <1>4, <2>1, <2>2, ReadingKept DEF PollReads
<1>5. CASE PollAnswered
  <2>1. c.polls > 0 /\ c.sid /\ ~c.reading /\ c' = Reading(outbox)
    BY <1>5 DEF PollAnswered, Settles, Idle
  <2>2. outbox \in Seq(Packets) /\ \A i \in 1 .. Len(outbox) : outbox[i].type # "open"
    BY DEF Inv, TypeInv, OutboxFits
  <2> QED BY <1>2, <1>5, <2>1, <2>2, ReadingKept DEF PollReads
<1>6. ASSUME PollReads, NEW t \in {"noop", "error"}, c.polls > 0, c.sid, ~c.reading,
             c' = Reading(<<Packet(t, 0)>>)
      PROVE  Kept
  <2> DEFINE s == <<Packet(t, 0)>>
  <2>1. PollReads /\ c.polls > 0 /\ c.sid /\ ~c.reading /\ c' = Reading(s) BY <1>6
  <2>2. s \in Seq(Packets) /\ Len(s) = 1 /\ s[1].type = t /\ t # "open" BY <1>3
  <2> HIDE DEF s
  <2> QED BY <1>2, <2>1, <2>2, ReadingKept
<1>7. CASE PollReleased BY <1>6, <1>7 DEF PollReads, PollReleased, Settles, Idle
<1>8. CASE PollGarbled BY <1>6, <1>8 DEF PollReads, PollGarbled, Settles, Idle
<1>9. CASE PollLost
  <2> DEFINE n == c.polls - 1
             e == [c EXCEPT !.polls = n]
             f == TransportError(e)
             late == Early'
  <2>1. c.polls > 0 /\ c' = f BY <1>9 DEF PollLost
  <2>2. n \in Nat /\ n = c.polls - 1 BY <1>1, <2>1
  <2> HIDE DEF n
  <2>3. /\ e \in Client /\ Unclosed(c, e) /\ e.polls = n
        /\ e.payload = c.payload /\ e.reading = c.reading
        /\ e.boot = c.boot /\ e.sid = c.sid /\ e.listeners = c.listeners
        /\ e.writable = c.writable /\ e.written = c.written
        /\ e.got = c.got /\ e.posts = c.posts /\ e.sendQueue = c.sendQueue
    BY <1>1, <2>2 DEF Client, Unclosed
  <2>4. late \in BOOLEAN /\ (Early => late) BY <1>2
  <2>5. Wired(c', late) = Wired(c', Early') OBVIOUS
  <2> HIDE DEF e, f, late
  <2>6. c.boot = "polling" BY <1>1, <2>1 DEF Inv, Wired, ShakeFits, Client
  <2>7. Wired(e, Early)
    <3>1. LifeFits(e, Early) BY <2>3 DEF Inv, Wired, LifeFits, Unclosed
    <3>2. ShakeFits(e) BY <2>3, <2>6 DEF Inv, Wired, ShakeFits, Unclosed
    <3>3. PostsFit(e) BY <2>3 DEF Inv, Wired, PostsFit, PostFits, Unclosed
    <3>4. Watched(e) BY <2>3 DEF Inv, Wired, Watched, Unclosed
    <3>5. PollsFit(e) BY <1>1, <2>2, <2>3 DEF Inv, Wired, PollsFit
    <3> QED BY <3>1, <3>2, <3>3, <3>4, <3>5 DEF Wired
  <2>8. Wired(e, late) BY <1>1, <2>3, <2>4, <2>7, WiredLater
  <2>9. f \in Client /\ Wired(f, late) /\ Held(e, f) /\ Final(e, f)
    BY <2>3, <2>4, <2>6, <2>8, TransportErrorWired DEF f
  <2>10. Lasting
    BY <1>1, <2>1, <2>2, <2>3, <2>9 DEF Lasting, Final, Held, Unclosed
  <2> QED BY <1>1, <2>1, <2>3, <2>5, <2>9, <2>10 DEF Kept, ReadsOn, Held
<1> QED BY <1>4, <1>5, <1>7, <1>8, <1>9 DEF PollEnds

ClientSteps ==
  \/ OpenTransport \/ StartPolling \/ Write \/ Close \/ Loop \/ PingTimeout
  \/ ReadPacket \/ Opened \/ Pinged \/ ReadEnds
ServerSteps == ServerSends \/ ServerPings \/ ServerCloses \/ ServerForgets

(* The server queues no handshake and no packet that decodes to an error.   *)
LEMMA OutboxKept ==
  ASSUME Inv, Next
  PROVE  /\ outbox' \in Seq(Packets) /\ OutboxFits'
         /\ served' \in [messages : Nat, pings : Nat]
         /\ session' \in {"none", "open", "closed"}
         /\ faulted' \in BOOLEAN /\ expired' \in BOOLEAN
<1>1. /\ outbox \in Seq(Packets) /\ served \in [messages : Nat, pings : Nat]
      /\ session \in {"none", "open", "closed"}
      /\ faulted \in BOOLEAN /\ expired \in BOOLEAN
  BY DEF Inv, TypeInv
<1>2. ASSUME NEW p \in Packets, p.type \notin {"open", "error"}, outbox' = Append(outbox, p)
      PROVE  outbox' \in Seq(Packets) /\ OutboxFits'
  <2>1. /\ Append(outbox, p) \in Seq(Packets) /\ Len(Append(outbox, p)) = Len(outbox) + 1
        /\ \A i \in 1 .. Len(outbox) : Append(outbox, p)[i] = outbox[i]
        /\ Append(outbox, p)[Len(outbox) + 1] = p
    BY <1>1, AppendProperties
  <2>2. Len(outbox) \in Nat BY <1>1, LenProperties
  <2>3. \A i \in 1 .. Len(Append(outbox, p)) : i \in 1 .. Len(outbox) \/ i = Len(outbox) + 1
    BY <2>1, <2>2
  <2> QED BY <1>2, <2>1, <2>3 DEF Inv, OutboxFits
<1>3. ASSUME outbox' \in {outbox, <<>>} PROVE outbox' \in Seq(Packets) /\ OutboxFits'
  <2>1. <<>> \in Seq(Packets) /\ \A i \in 1 .. Len(<<>>) : FALSE BY EmptySeq
  <2> QED BY <1>1, <1>3, <2>1 DEF Inv, OutboxFits
<1>4. CASE ClientSteps
  <2>1. UNCHANGED serverVars /\ faulted' = faulted /\ expired' \in BOOLEAN
    BY <1>1, <1>4
       DEF ClientSteps, OpenTransport, StartPolling, Write, Close, Loop, PingTimeout,
           ReadPacket, Opened, Pinged, ReadEnds, history
  <2> QED BY <1>1, <1>3, <2>1 DEF serverVars
<1>5. CASE \E i \in DOMAIN c.posts : PostEnds(i)
  <2>1. /\ outbox' = outbox /\ served' = served /\ expired' = expired
        /\ session' \in {session, "closed"} /\ faulted' \in {faulted, TRUE}
    BY <1>5
       DEF PostEnds, PostAccepted, PostRefused, PostLost, Receives, history, serverVars
  <2> QED BY <1>1, <1>3, <2>1
<1>6. CASE PollEnds
  <2>1. /\ outbox' \in {outbox, <<>>} /\ served' = served /\ expired' = expired
        /\ session' \in {session, "open"} /\ faulted' \in {faulted, TRUE}
    BY <1>6
       DEF PollEnds, Handshake, PollAnswered, PollReleased, PollGarbled, PollLost, history,
           serverVars
  <2> QED BY <1>1, <1>3, <2>1
<1>7. CASE ServerSteps
  <2>1. /\ session' \in {session, "closed"} /\ faulted' \in {faulted, TRUE}
        /\ expired' = expired
    BY <1>7
       DEF ServerSteps, ServerSends, ServerPings, ServerCloses, ServerForgets, history
  <2>2. served' \in [messages : Nat, pings : Nat]
    BY <1>1, <1>7
       DEF ServerSteps, ServerSends, ServerPings, ServerCloses, ServerForgets
  <2>3. outbox' \in Seq(Packets) /\ OutboxFits'
    <3>1. CASE ServerSends
      <4> DEFINE p == Message(served.messages + 1)
      <4>1. p \in Packets /\ p.type = "message" BY <1>1 DEF Message, Packet, Packets
      <4>2. outbox' = Append(outbox, p) BY <3>1 DEF ServerSends
      <4> HIDE DEF p
      <4> QED BY <1>2, <4>1, <4>2
    <3>2. CASE ServerPings
      <4> DEFINE p == Packet("ping", 0)
      <4>1. p \in Packets /\ p.type = "ping" BY DEF Packet, Packets
      <4>2. outbox' = Append(outbox, p) BY <3>2 DEF ServerPings
      <4> HIDE DEF p
      <4> QED BY <1>2, <4>1, <4>2
    <3>3. CASE ServerCloses
      <4>1. ClosePacket \in Packets /\ ClosePacket.type = "close"
        BY DEF ClosePacket, Packet, Packets
      <4>2. outbox' = Append(outbox, ClosePacket) BY <3>3 DEF ServerCloses
      <4> QED BY <1>2, <4>1, <4>2
    <3>4. CASE ServerForgets BY <1>3, <3>4 DEF ServerForgets
    <3> QED BY <1>7, <3>1, <3>2, <3>3, <3>4 DEF ServerSteps
  <2> QED BY <1>1, <2>1, <2>2, <2>3
<1> QED BY <1>4, <1>5, <1>6, <1>7 DEF Next, ClientSteps, ServerSteps

LEMMA NextKept ==
  ASSUME Inv, Next PROVE Kept
<1>1. CASE ClientSteps
  BY <1>1, OpenTransportKept, StartPollingKept, WriteKept, CloseKept, LoopKept,
     PingTimeoutKept, ReadPacketKept, OpenedKept, PingedKept, ReadEndsKept
     DEF ClientSteps
<1>2. CASE \E i \in DOMAIN c.posts : PostEnds(i) BY <1>2, PostEndsKept
<1>3. CASE PollEnds BY <1>3, PollEndsKept
<1>4. CASE ServerSteps
  <2>1. c \in Client /\ c.written <= MaxWrites /\ Early \in BOOLEAN /\ c.polls \in Nat
    BY Facts
  <2>2. c' = c /\ faulted' \in {faulted, TRUE}
    BY <1>4
       DEF ServerSteps, ServerSends, ServerPings, ServerCloses, ServerForgets, history
  <2> DEFINE late == Early'
  <2>3. late \in BOOLEAN /\ (Early => late)
    BY <2>2, EngineAssumption DEF Inv, TypeInv, Early
  <2>4. Wired(c', late) = Wired(c', Early') OBVIOUS
  <2> HIDE DEF late
  <2>5. Wired(c, late) BY <2>1, <2>3, WiredLater DEF Inv
  <2> QED BY <2>1, <2>2, <2>4, <2>5 DEF Kept, ReadsOn, Lasting
<1> QED BY <1>1, <1>2, <1>3, <1>4 DEF Next, ClientSteps, ServerSteps

LEMMA InitInv ==
  ASSUME Init PROVE Inv
<1>1. <<>> \in Seq(Packets) /\ <<>> \in Seq(Posts) /\ <<>> \in Seq(Nat) /\ Len(<<>>) = 0
  BY EmptySeq
<1>2. /\ c.readyState = "opening" /\ c.sid = FALSE /\ c.ping = FALSE
      /\ c.listeners = "none" /\ c.transport = "open" /\ c.boot = "new"
      /\ c.writable = FALSE /\ c.attached = TRUE /\ c.sendQueue = <<>> /\ c.posts = <<>>
      /\ c.polls = 0 /\ c.reading = FALSE /\ c.payload = <<>> /\ c.written = 0
  BY DEF Init, New
<1>3. c \in Client BY <1>1 DEF Init, New, Client
<1>4. TypeInv /\ OutboxFits
  <2>1. 0 <= MaxWrites BY EngineBounds
  <2>2. served \in [messages : Nat, pings : Nat] BY DEF Init
  <2>3. outbox \in Seq(Packets) /\ Len(outbox) = 0 BY <1>1 DEF Init
  <2>4. OutboxFits BY <2>3 DEF OutboxFits
  <2> QED BY <1>2, <1>3, <2>1, <2>2, <2>3, <2>4 DEF Init, TypeInv
<1>5. LifeFits(c, Early) BY <1>2 DEF LifeFits
<1>6. ShakeFits(c) BY <1>1, <1>2 DEF ShakeFits
<1>7. PostsFit(c) /\ Watched(c) /\ PollsFit(c)
  BY <1>1, <1>2 DEF PostsFit, Watched, PollsFit
<1> QED BY <1>4, <1>5, <1>6, <1>7 DEF Inv, Wired

LEMMA StepInv ==
  ASSUME Inv, [Next]_vars PROVE Inv' /\ Lasting
<1>1. CASE Next
  <2>1. Kept BY <1>1, NextKept
  <2>2. TypeInv' /\ OutboxFits' BY <1>1, <2>1, OutboxKept DEF TypeInv, Kept
  <2> QED BY <2>1, <2>2 DEF Inv, Kept
<1>2. CASE UNCHANGED vars
  <2>1. c' = c /\ session' = session /\ outbox' = outbox /\ served' = served
        /\ faulted' = faulted /\ expired' = expired
    BY <1>2 DEF vars, serverVars, history
  <2>2. TypeInv' /\ OutboxFits' BY <2>1 DEF Inv, TypeInv, OutboxFits
  <2>3. Wired(c', Early') BY <2>1 DEF Inv, Early
  <2>4. Lasting
    <3>1. c.polls \in Nat BY Facts
    <3> QED BY <2>1, <3>1 DEF Lasting
  <2> QED BY <2>2, <2>3, <2>4 DEF Inv
<1> QED BY <1>1, <1>2

(***************************************************************************)
(* The server is told, and "close" is emitted once                          *)
(***************************************************************************)
(* A request that ends the session when it is answered, or cannot be        *)
(* answered without a failure.                                              *)
Promised(p) == p.sid => ClosePacket \in ToSet(p.packets)

ToldFits(e, s) ==
  e.transport = "closed" =>
    \/ s = "closed"
    \/ \E i \in 1 .. Len(e.posts) : Promised(e.posts[i])
    \/ ~e.sid /\ e.readyState = "closed"

(* A thread that will end the engine when its request is answered.          *)
Own(p) == p.sid /\ p.owner \in Ending

OwnFits(e, p) ==
  Own(p) => /\ e.readyState # "closed" /\ p.owner # "closing"
            /\ p.owner = "forced" => e.readyState = "closing"
OnceFits(e) ==
  /\ e.closes # 0 => e.closes = 1 /\ e.readyState = "closed"
  /\ \A i \in 1 .. Len(e.posts) : OwnFits(e, e.posts[i])
  /\ \A i, j \in 1 .. Len(e.posts) : Own(e.posts[i]) /\ Own(e.posts[j]) => i = j

EndFits(e, s, clean) == ToldFits(e, s) /\ (clean => OnceFits(e))

(* Without a failure, the requests in flight stay in flight, and no thread  *)
(* begins to end the engine.                                                *)
Grows(e, f) ==
  /\ Len(e.posts) <= Len(f.posts)
  /\ \A i \in 1 .. Len(e.posts) : f.posts[i] \in {e.posts[i], Cancelled(e.posts[i])}
OwnsOnly(e, f) ==
  \A i \in 1 .. Len(f.posts) :
    Own(f.posts[i]) => i \in 1 .. Len(e.posts) /\ f.posts[i] = e.posts[i]

LEMMA SamePosts ==
  ASSUME NEW e \in Client, NEW f \in Client, f.posts = e.posts
  PROVE  Grows(e, f) /\ OwnsOnly(e, f)
<1>1. Len(e.posts) \in Nat BY PostsAre
<1> QED BY <1>1 DEF Grows, OwnsOnly

LEMMA CancelledPosts ==
  ASSUME NEW e \in Client, NEW f \in Client, AllCancelled(e, f)
  PROVE  Grows(e, f) /\ OwnsOnly(e, f)
<1>1. Len(e.posts) \in Nat /\ \A i \in 1 .. Len(e.posts) : e.posts[i] \in Posts BY PostsAre
<1>2. ASSUME NEW p \in Posts, Own(Cancelled(p)) PROVE Cancelled(p) = p
  BY <1>2 DEF Own, Cancelled, Posts, Ending
<1> QED BY <1>1, <1>2 DEF AllCancelled, Grows, OwnsOnly

LEMMA PostedPosts ==
  ASSUME NEW e \in Client, NEW f \in Client, NEW owner \in Owners \ Ending, NEW q,
         Posted(e, f, owner, q)
  PROVE  Grows(e, f) /\ OwnsOnly(e, f)
<1>1. Len(e.posts) \in Nat BY PostsAre
<1>2. ~Own(f.posts[Len(e.posts) + 1]) BY DEF Posted, Own, Post
<1>3. \A i \in 1 .. Len(f.posts) : i \in 1 .. Len(e.posts) \/ i = Len(e.posts) + 1
  BY <1>1 DEF Posted
<1> QED BY <1>1, <1>2, <1>3 DEF Posted, Grows, OwnsOnly

LEMMA CancelledPromise ==
  ASSUME NEW p \in Posts, Promised(p) PROVE Promised(Cancelled(p))
BY DEF Promised, Cancelled, Posts

LEMMA GrowsTold ==
  ASSUME NEW e \in Client, NEW f \in Client, NEW s, ToldFits(e, s), Grows(e, f),
         f.transport = "closed" => e.transport = "closed",
         ~e.sid /\ e.readyState = "closed" => ~f.sid /\ f.readyState = "closed"
  PROVE  ToldFits(f, s)
<1>1. /\ Len(e.posts) \in Nat /\ Len(f.posts) \in Nat
      /\ \A i \in 1 .. Len(e.posts) : e.posts[i] \in Posts
  BY PostsAre
<1>2. ASSUME NEW i \in 1 .. Len(e.posts), Promised(e.posts[i])
      PROVE  i \in 1 .. Len(f.posts) /\ Promised(f.posts[i])
  <2>1. i \in 1 .. Len(f.posts) BY <1>1 DEF Grows
  <2>2. Promised(Cancelled(e.posts[i])) BY <1>1, <1>2, CancelledPromise
  <2> QED BY <1>2, <2>1, <2>2 DEF Grows
<1> QED BY <1>2 DEF ToldFits

LEMMA OwnsOnce ==
  ASSUME NEW e \in Client, NEW f \in Client, OnceFits(e), OwnsOnly(e, f),
         f.readyState = e.readyState, f.closes = e.closes
  PROVE  OnceFits(f)
<1>1. \A i \in 1 .. Len(f.posts) : OwnFits(f, f.posts[i])
  BY DEF OnceFits, OwnFits, OwnsOnly
<1>2. \A i, j \in 1 .. Len(f.posts) : Own(f.posts[i]) /\ Own(f.posts[j]) => i = j
  BY DEF OnceFits, OwnsOnly
<1> QED BY <1>1, <1>2 DEF OnceFits

LEMMA SameEnd ==
  ASSUME NEW e \in Client, NEW f \in Client, NEW s, NEW clean, EndFits(e, s, clean),
         Grows(e, f), OwnsOnly(e, f),
         f.readyState = e.readyState, f.closes = e.closes, f.sid = e.sid,
         f.transport = "closed" => e.transport = "closed"
  PROVE  EndFits(f, s, clean)
<1>1. ToldFits(f, s) BY GrowsTold DEF EndFits
<1> QED BY <1>1, OwnsOnce DEF EndFits

(* _onClose sends a close packet in the session, or finds no session, or a  *)
(* transport that is closed.                                                *)
LEMMA CloseTold ==
  ASSUME NEW e \in Client, NEW f, NEW owner \in Owners, NEW s, ToldFits(e, s),
         e.sid => e.transport # "opening",
         Waits(e, f, owner) \/ Ends(e, f)
  PROVE  ToldFits(f, s)
<1>1. f \in Client /\ f.sid = e.sid /\ Len(e.posts) \in Nat
  BY PostsAre DEF Waits, Ends, Shuts, Aside
<1>2. CASE Waits(e, f, owner)
  <2>1. e.sendQueue \in Seq(Packets) /\ ClosePacket \in Packets
    BY DEF Client, ClosePacket, Packet, Packets
  <2>2. /\ Told(e) \in Seq(Packets) /\ Len(Told(e)) = Len(e.sendQueue) + 1
        /\ Told(e)[Len(e.sendQueue) + 1] = ClosePacket
    BY <2>1, AppendProperties DEF Told
  <2>3. Len(e.sendQueue) + 1 \in DOMAIN Told(e) BY <2>1, <2>2, LenProperties
  <2>4. ClosePacket \in ToSet(Told(e)) BY <2>2, <2>3 DEF ToSet
  <2>5. Promised(Post(owner, Told(e), e.sid)) BY <2>4 DEF Promised, Post
  <2>6. Len(e.posts) + 1 \in 1 .. Len(f.posts) BY <1>1, <1>2 DEF Waits
  <2> QED BY <1>2, <2>5, <2>6 DEF Waits, ToldFits
<1>3. CASE Ends(e, f) /\ e.transport = "opening"
  BY <1>1, <1>3 DEF Ends, ToldFits
<1>4. CASE Ends(e, f) /\ e.transport = "closed"
  <2>1. Grows(e, f) BY <1>1, <1>4, CancelledPosts DEF Ends
  <2>2. f.readyState = "closed" BY <1>4 DEF Ends
  <2> QED BY <1>1, <1>4, <2>1, <2>2, GrowsTold
<1> QED BY <1>2, <1>3, <1>4 DEF Ends, Client

LEMMA WaitsOnce ==
  ASSUME NEW e \in Client, NEW f, NEW owner \in Owners, OnceFits(e), PostsFit(e), Live(e),
         Waits(e, f, owner), owner # "closing", owner = "forced" => e.readyState = "closing"
  PROVE  OnceFits(f)
<1>1. /\ f \in Client /\ Len(e.posts) \in Nat
      /\ \A i \in 1 .. Len(e.posts) : e.posts[i] \in Posts
  BY PostsAre DEF Waits, Shuts
<1>2. e.closes = 0 /\ f.closes = 0 BY DEF OnceFits, Live, Waits
<1>3. ASSUME NEW i \in 1 .. Len(e.posts) PROVE ~Own(f.posts[i])
  <2>1. ~Own(e.posts[i]) BY DEF PostsFit, PostFits, Own, Waits
  <2>2. ~Own(Cancelled(e.posts[i]))
    BY <1>1, <2>1 DEF Own, Cancelled, Posts, Ending
  <2> QED BY <2>2 DEF Waits
<1>4. /\ \A i \in 1 .. Len(f.posts) : Own(f.posts[i]) => i = Len(e.posts) + 1
  BY <1>1, <1>3 DEF Waits
<1>5. OwnFits(f, f.posts[Len(e.posts) + 1])
  BY DEF OwnFits, Waits, Post, Live
<1> QED BY <1>2, <1>4, <1>5 DEF OnceFits, OwnFits

LEMMA EndsOnce ==
  ASSUME NEW e \in Client, NEW f \in Client, OnceFits(e), Live(e), AllCancelled(e, f),
         f.readyState = "closed", f.closes = e.closes + 1,
         \A i \in 1 .. Len(e.posts) : Own(e.posts[i]) => e.posts[i].owner = "timer"
  PROVE  OnceFits(f)
<1>1. f.closes = 1 BY DEF OnceFits, Live
<1>2. OwnsOnly(e, f) BY CancelledPosts
<1>3. ASSUME NEW i \in 1 .. Len(f.posts) PROVE ~Own(f.posts[i])
  <2>1. SUFFICES ASSUME Own(f.posts[i]) PROVE FALSE OBVIOUS
  <2>2. /\ i \in 1 .. Len(e.posts) /\ f.posts[i] = e.posts[i] /\ Own(e.posts[i])
        /\ e.posts[i] \in Posts
    BY <1>2, <2>1, PostsAre DEF OwnsOnly
  <2>3. e.posts[i].owner = "timer" /\ f.posts[i] = Cancelled(e.posts[i])
    BY <2>2 DEF AllCancelled
  <2>4. f.posts[i].owner = "cancelled" BY <2>2, <2>3 DEF Cancelled, Posts
  <2> QED BY <2>1, <2>4 DEF Own, Ending
<1> QED BY <1>1, <1>3 DEF OnceFits, OwnFits

LEMMA OpenPacketEnd ==
  ASSUME NEW e \in Client, NEW early \in BOOLEAN, Wired(e, early), NEW p \in Packets,
         p.type = "open", ~e.sid, NEW s, NEW clean, EndFits(e, s, clean)
  PROVE  LET f == OnData(e, p)
         IN f \in Client /\ EndFits(f, s, clean) /\ f.drainClose = e.drainClose
<1> DEFINE d == IF e.transport = "opening"
                THEN [e EXCEPT !.transport = "open", !.writable = TRUE] ELSE e
           f == OnData(e, p)
<1>1. f = OnPacket(d, p) BY DEF OnData
<1>2. /\ d \in Client /\ (d.transport = "closed" => e.transport = "closed")
      /\ d.readyState = e.readyState /\ d.attached = e.attached /\ d.sid = e.sid
      /\ d.posts = e.posts /\ d.drainClose = e.drainClose /\ d.closes = e.closes
  <2>1. CASE e.transport = "opening"
    <3>1. d = [e EXCEPT !.transport = "open", !.writable = TRUE] BY <2>1
    <3> HIDE DEF d
    <3> QED BY <2>1, <3>1 DEF Client
  <2>2. CASE e.transport # "opening"
    <3>1. d = e BY <2>2
    <3> HIDE DEF d
    <3> QED BY <2>2, <3>1
  <2> QED BY <2>1, <2>2
<1> HIDE DEF d, f
<1>3. Grows(e, d) /\ OwnsOnly(e, d) BY <1>2, SamePosts
<1>4. EndFits(d, s, clean) BY <1>2, <1>3, SameEnd
<1>5. CASE ~d.attached \/ ~Live(d)
  <2>1. f = d BY <1>1, <1>5 DEF OnPacket
  <2> QED BY <1>2, <1>4, <2>1 DEF f
<1>6. CASE d.attached /\ Live(d)
  <2>1. f = [d EXCEPT !.sid = TRUE, !.readyState = "open", !.listeners = "open"]
    BY <1>1, <1>6 DEF OnPacket
  <2>2. /\ f \in Client /\ f.sid = TRUE /\ f.readyState = "open"
        /\ f.transport = d.transport /\ f.posts = d.posts /\ f.closes = d.closes
        /\ f.drainClose = d.drainClose
    BY <1>2, <2>1 DEF Client
  <2>3. d.readyState # "closed" BY <1>6 DEF Live
  <2>4. ToldFits(f, s) BY <1>4, <2>2, <2>3 DEF EndFits, ToldFits
  <2>5. ASSUME clean PROVE OnceFits(f)
    <3>1. \A i \in 1 .. Len(f.posts) : ~Own(f.posts[i])
      BY <1>2, <2>2 DEF Wired, PostsFit, PostFits, Own
    <3>2. f.closes = 0 BY <1>4, <2>2, <2>3, <2>5 DEF EndFits, OnceFits
    <3> QED BY <3>1, <3>2 DEF OnceFits, OwnFits
  <2> QED BY <1>2, <2>2, <2>4, <2>5 DEF EndFits, f
<1> QED BY <1>5, <1>6

LEMMA ServerClosedEnd ==
  ASSUME NEW e \in Client, NEW early \in BOOLEAN, Wired(e, early), NEW clean,
         EndFits(e, "closed", clean)
  PROVE  LET f == ServerClosed(e)
         IN f \in Client /\ EndFits(f, "closed", clean) /\ f.drainClose = e.drainClose
<1> DEFINE b == ShutTransport(e)
           t == TransportFlush(b, "last")
           r == [t EXCEPT !.running = FALSE]
           f == ServerClosed(e)
<1>1. /\ b \in Client /\ Aside(e, b)
      /\ IF e.closeListener /\ Live(e)
         THEN /\ b.readyState = "closed" /\ b.closes = e.closes + 1 /\ AllCancelled(e, b)
         ELSE /\ b.readyState = e.readyState /\ b.closes = e.closes /\ b.posts = e.posts
  BY ShutEffect
<1>2. f = IF Len(t.posts) > Len(b.posts) THEN t ELSE r BY DEF ServerClosed
<1> HIDE DEF b, f
<1>3. ASSUME clean PROVE OnceFits(b)
  <2>1. OnceFits(e) BY <1>3 DEF EndFits
  <2>2. CASE e.closeListener /\ Live(e)
    <3>1. \A i \in 1 .. Len(e.posts) : ~Own(e.posts[i])
      BY <2>2 DEF Wired, PostsFit, PostFits, Own
    <3> QED BY <1>1, <2>1, <2>2, <3>1, EndsOnce
  <2>3. CASE ~(e.closeListener /\ Live(e))
    <3>1. OwnsOnly(e, b) BY <1>1, <2>3, SamePosts
    <3> QED BY <1>1, <2>1, <2>3, <3>1, OwnsOnce
  <2> QED BY <2>2, <2>3
<1>4. "last" \in Owners \ Ending BY DEF Owners, Ending
<1>5. /\ t \in Client /\ Aside(b, t) /\ Unclosed(b, t)
      /\ b.sendQueue = <<>> => t = b
      /\ b.sendQueue # <<>> => Posted(b, t, "last", b.sendQueue)
  BY <1>1, <1>4, TransportFlushEffect
<1> HIDE DEF t
<1>6. OwnsOnly(b, t)
  <2>1. CASE b.sendQueue = <<>> BY <1>1, <1>5, <2>1, SamePosts
  <2>2. CASE b.sendQueue # <<>> BY <1>1, <1>4, <1>5, <2>2, PostedPosts
  <2> QED BY <2>1, <2>2
<1>7. ASSUME clean PROVE OnceFits(t)
  BY <1>1, <1>3, <1>5, <1>6, <1>7, OwnsOnce DEF Unclosed
<1>8. /\ r \in Client /\ Aside(t, r) /\ Unclosed(t, r) /\ r.posts = t.posts
  BY <1>5 DEF Client, Aside, Unclosed
<1> HIDE DEF r
<1>9. ASSUME clean PROVE OnceFits(r)
  <2>1. OwnsOnly(t, r) BY <1>5, <1>8, SamePosts
  <2> QED BY <1>5, <1>7, <1>8, <1>9, <2>1, OwnsOnce DEF Unclosed
<1>10. f \in Client /\ f.drainClose = e.drainClose /\ (clean => OnceFits(f))
  BY <1>1, <1>2, <1>5, <1>7, <1>8, <1>9 DEF Aside
<1> QED BY <1>10 DEF EndFits, ToldFits, f

LEMMA OnDataEnd ==
  ASSUME NEW e \in Client, NEW early \in BOOLEAN, Wired(e, early), NEW p \in Packets,
         p.type = "open" => ~e.sid, p.type # "error",
         NEW s, NEW clean, EndFits(e, s, clean), p.type = "close" => s = "closed"
  PROVE  LET f == OnData(e, p)
         IN f \in Client /\ EndFits(f, s, clean) /\ f.drainClose = e.drainClose
<1> DEFINE f == OnData(e, p)
<1>1. CASE p.type = "open" BY <1>1, OpenPacketEnd
<1>2. CASE p.type = "close"
  <2>1. f = ServerClosed(e) BY <1>2 DEF OnData
  <2> DEFINE g == ServerClosed(e)
  <2>2. g \in Client /\ EndFits(g, "closed", clean) /\ g.drainClose = e.drainClose
    BY <1>2, ServerClosedEnd
  <2> QED BY <1>2, <2>1, <2>2
<1>3. ASSUME f \in Client, Unclosed(e, f), f.sid = e.sid, f.posts = e.posts,
             f.drainClose = e.drainClose
      PROVE  f \in Client /\ EndFits(f, s, clean) /\ f.drainClose = e.drainClose
  <2> HIDE DEF f
  <2>1. Grows(e, f) /\ OwnsOnly(e, f) BY <1>3, SamePosts
  <2> QED BY <1>3, <2>1, SameEnd DEF Unclosed
<1>4. CASE p.type \notin {"open", "close"} /\ (~e.attached \/ ~Live(e))
  <2>1. f = e BY <1>4 DEF OnData, OnPacket
  <2> HIDE DEF f
  <2>2. /\ f \in Client /\ f.sid = e.sid /\ f.posts = e.posts
        /\ f.drainClose = e.drainClose
    BY <2>1
  <2>3. Unclosed(e, f) BY <2>1 DEF Unclosed
  <2> QED BY <1>3, <2>2, <2>3 DEF f
<1> DEFINE heard == p.type # "close" /\ e.attached /\ Live(e)
<1>5. CASE heard /\ p.type = "ping"
  <2> DEFINE q == Packet("pong", 0)
             d == SendPacket(e, q)
  <2>1. q \in Packets BY DEF Packet, Packets
  <2> HIDE DEF q
  <2>2. /\ d \in Client /\ Aside(e, d) /\ Unclosed(e, d) /\ d.posts = e.posts
    <3>1. e \in Client OBVIOUS
    <3> QED BY <2>1, <3>1, SendPacketEffect
  <2>3. f = [d EXCEPT !.listeners = "ping"] BY <1>5 DEF OnData, OnPacket, q
  <2> HIDE DEF d, f
  <2>4. /\ f \in Client /\ Unclosed(d, f) /\ f.sid = d.sid /\ f.posts = d.posts
        /\ f.drainClose = d.drainClose
    BY <2>2, <2>3 DEF Client, Unclosed
  <2>5. /\ f \in Client /\ Unclosed(e, f) /\ f.sid = e.sid /\ f.posts = e.posts
        /\ f.drainClose = e.drainClose
    BY <2>2, <2>4 DEF Unclosed, Aside
  <2> QED BY <1>3, <2>5 DEF f
<1>6. CASE heard /\ p.type = "message"
  <2>1. f = [e EXCEPT !.got = Append(@, p.data)] BY <1>6 DEF OnData, OnPacket
  <2>2. Append(e.got, p.data) \in Seq(Nat) BY AppendProperties DEF Packets, Client
  <2> HIDE DEF f
  <2>3. /\ f \in Client /\ Unclosed(e, f) /\ f.sid = e.sid /\ f.posts = e.posts
        /\ f.drainClose = e.drainClose
    BY <2>1, <2>2 DEF Client, Unclosed
  <2> QED BY <1>3, <2>3 DEF f
<1>7. CASE heard /\ p.type \notin {"open", "ping", "message"}
  <2>1. f = e BY <1>7 DEF OnData, OnPacket
  <2> HIDE DEF f
  <2>2. /\ f \in Client /\ f.sid = e.sid /\ f.posts = e.posts
        /\ f.drainClose = e.drainClose
    BY <2>1
  <2>3. Unclosed(e, f) BY <2>1 DEF Unclosed
  <2> QED BY <1>3, <2>2, <2>3 DEF f
<1> QED BY <1>1, <1>2, <1>4, <1>5, <1>6, <1>7

(***************************************************************************)
(* A request that is answered                                               *)
(***************************************************************************)
(* The callback of doWrite: only a close() that waited for it ends the      *)
(* engine here.                                                             *)
LEMMA DrainedTold ==
  ASSUME NEW e \in Client, NEW early \in BOOLEAN, Wired(e, early), e.sid,
         NEW s, ToldFits(e, s)
  PROVE  LET f == Drained(e)
         IN f \in Client /\ ToldFits(f, s) /\ f.drainClose = e.drainClose
<1> DEFINE d == [e EXCEPT !.writable = TRUE]
           f == Drained(e)
<1>1. /\ d \in Client /\ Unclosed(e, d) /\ d.posts = e.posts /\ d.sendQueue = e.sendQueue
      /\ d.sid = e.sid /\ d.boot = e.boot /\ d.drainClose = e.drainClose
  BY DEF Client, Unclosed
<1>2. f = CASE ~e.attached          -> d
            [] e.writeBuffer # <<>> -> EngineFlush(d)
            [] OTHER                -> IF e.drainClose THEN ForcedClose(d) ELSE d
  BY DEF Drained
<1> HIDE DEF d, f
<1>3. Grows(e, d) BY <1>1, SamePosts
<1>4. ToldFits(d, s) BY <1>1, <1>3, GrowsTold DEF Unclosed
<1>5. CASE f = d BY <1>1, <1>4, <1>5 DEF f
<1>6. CASE f = EngineFlush(d)
  <2>1. /\ f \in Client /\ Aside(d, f) /\ Unclosed(d, f) /\ f.posts = d.posts
    BY <1>1, <1>6, EngineFlushEffect
  <2>2. Grows(d, f) BY <1>1, <2>1, SamePosts
  <2>3. ToldFits(f, s) BY <1>1, <1>4, <2>1, <2>2, GrowsTold DEF Unclosed, Aside
  <2> QED BY <1>1, <2>1, <2>3 DEF f, Aside
<1>7. CASE e.attached /\ e.drainClose /\ f = ForcedClose(d)
  <2>1. Live(d) BY <1>1, <1>7 DEF Wired, LifeFits, Live, Client, Unclosed
  <2>2. d.transport # "opening" BY <1>1 DEF Wired, ShakeFits, Unclosed
  <2>3. f = EngineClose(d, "forced") BY <1>1, <1>7, <2>1, <2>2, ForcedCloseIs
  <2>4. Waits(d, f, "forced") \/ Ends(d, f)
    BY <1>1, <2>1, <2>2, <2>3, EngineCloseEffect DEF Owners
  <2>5. "forced" \in Owners BY DEF Owners
  <2>6. ToldFits(f, s) BY <1>1, <1>4, <2>2, <2>4, <2>5, CloseTold
  <2> QED BY <1>1, <2>4, <2>6 DEF Waits, Ends, Shuts, Aside, f
<1>8. f = d \/ f = EngineFlush(d) \/ (e.attached /\ e.drainClose /\ f = ForcedClose(d))
  BY <1>2
<1> QED BY <1>5, <1>6, <1>7, <1>8

(* The thread that waited goes on with a transport that is closed.          *)
LEMMA ResumeEnd ==
  ASSUME NEW e \in Client, NEW early \in BOOLEAN, Wired(e, early), NEW owner \in Owners,
         e.boot = "polling", owner \in Ending => e.transport = "closed",
         NEW s, ToldFits(e, s)
  PROVE  LET f == Resume(e, owner)
         IN /\ f \in Client /\ ToldFits(f, s) /\ f.posts = e.posts
            /\ f.drainClose = e.drainClose
            /\ owner \in Ending => f.readyState = "closed" /\ f.closes = e.closes + 1
            /\ owner \notin Ending => f.readyState = e.readyState /\ f.closes = e.closes
<1> DEFINE f == Resume(e, owner)
           d == [e EXCEPT !.running = FALSE]
           b == Closed(d)
<1>1. CASE owner \in Ending
  <2>1. /\ b \in Client /\ Wired(b, early) /\ Aside(e, b) /\ b.readyState = "closed"
        /\ b.transport = e.transport /\ b.posts = e.posts /\ b.closes = e.closes + 1
    BY <1>1, EndWired
  <2>2. f = b \/ f = CloseTransport(b, "last")
    BY <1>1 DEF Ending, Resume
  <2> HIDE DEF b
  <2>3. CloseTransport(b, "last") = b BY <1>1, <2>1 DEF CloseTransport
  <2>4. Grows(e, b) BY <2>1, SamePosts
  <2>5. ToldFits(b, s) BY <2>1, <2>4, GrowsTold DEF Aside
  <2>6. f = b BY <2>2, <2>3
  <2> HIDE DEF f
  <2> QED BY <1>1, <2>1, <2>5, <2>6 DEF Aside, f
<1>2. CASE owner = "last"
  <2>1. f = d BY <1>2 DEF Resume
  <2>2. /\ d \in Client /\ Aside(e, d) /\ Unclosed(e, d) /\ d.posts = e.posts
    BY DEF Client, Aside, Unclosed
  <2> HIDE DEF d, f
  <2>3. Grows(e, d) BY <2>2, SamePosts
  <2>4. ToldFits(d, s) BY <2>2, <2>3, GrowsTold DEF Aside, Unclosed
  <2> QED BY <1>2, <2>1, <2>2, <2>4 DEF Aside, Unclosed, Ending, f
<1>3. CASE owner \notin {"closing", "timer", "forced", "last"}
  <2>1. f = e BY <1>3 DEF Resume
  <2> HIDE DEF f
  <2> QED BY <1>3, <2>1 DEF Ending, f
<1> QED BY <1>1, <1>2, <1>3 DEF Ending

(* What remains in flight when one request is answered.                     *)
LEMMA WithoutEnd ==
  ASSUME TypeInv, NEW early \in BOOLEAN, Wired(c, early), NEW n \in 1 .. Len(c.posts),
         c.posts[n].sid, NEW clean, EndFits(c, session, clean),
         NEW s, s = IF Promised(c.posts[n]) THEN "closed" ELSE session
  PROVE  LET e == Without(n)
         IN /\ ToldFits(e, s) /\ (clean => OnceFits(e))
            /\ clean /\ Own(c.posts[n]) => \A i \in 1 .. Len(e.posts) : ~Own(e.posts[i])
<1> DEFINE e == Without(n)
<1>1. /\ e \in Client /\ Aside(c, e) /\ Unclosed(c, e)
      /\ Len(e.posts) = Len(c.posts) - 1
      /\ \A i \in 1 .. Len(e.posts) :
           e.posts[i] = IF i < n THEN c.posts[i] ELSE c.posts[i + 1]
  BY WithoutEffect
<1> HIDE DEF e
<1>2. c \in Client /\ Len(c.posts) \in Nat /\ Len(e.posts) \in Nat
  BY <1>1, PostsAre DEF TypeInv
<1> DEFINE At(i) == IF i < n THEN i ELSE i + 1
<1>3. \A i \in 1 .. Len(e.posts) :
        At(i) \in 1 .. Len(c.posts) /\ At(i) # n /\ e.posts[i] = c.posts[At(i)]
  BY <1>1, <1>2
<1>4. \A i, j \in 1 .. Len(e.posts) : At(i) = At(j) => i = j BY <1>2
<1>5. \A k \in 1 .. Len(c.posts) : k # n => \E i \in 1 .. Len(e.posts) : At(i) = k
  <2>1. ASSUME NEW k \in 1 .. Len(c.posts), k < n PROVE \E i \in 1 .. Len(e.posts) : At(i) = k
    <3>1. k \in 1 .. Len(e.posts) /\ At(k) = k BY <1>1, <1>2, <2>1
    <3> QED BY <3>1
  <2>2. ASSUME NEW k \in 1 .. Len(c.posts), k > n PROVE \E i \in 1 .. Len(e.posts) : At(i) = k
    <3>1. k - 1 \in 1 .. Len(e.posts) /\ At(k - 1) = k BY <1>1, <1>2, <2>2
    <3> QED BY <3>1
  <2> QED BY <1>2, <2>1, <2>2
<1> HIDE DEF At
<1>6. ToldFits(e, s)
  <2>1. CASE s = "closed" BY <2>1 DEF ToldFits
  <2>2. CASE s # "closed"
    <3>1. s = session /\ ~Promised(c.posts[n]) BY <2>2
    <3>2. \A k \in 1 .. Len(c.posts) :
            Promised(c.posts[k]) => \E i \in 1 .. Len(e.posts) : Promised(e.posts[i])
      BY <1>3, <1>5, <3>1
    <3> QED BY <1>1, <3>1, <3>2 DEF EndFits, ToldFits, Aside, Unclosed
  <2> QED BY <2>1, <2>2
<1>7. ASSUME clean PROVE OnceFits(e)
  <2>1. OnceFits(c) BY <1>7 DEF EndFits
  <2>2. \A i \in 1 .. Len(e.posts) : OwnFits(e, e.posts[i])
    BY <1>1, <1>3, <2>1 DEF OnceFits, OwnFits, Unclosed
  <2>3. \A i, j \in 1 .. Len(e.posts) : Own(e.posts[i]) /\ Own(e.posts[j]) => i = j
    BY <1>3, <1>4, <2>1 DEF OnceFits
  <2> QED BY <1>1, <2>1, <2>2, <2>3 DEF OnceFits, Unclosed
<1>8. clean /\ Own(c.posts[n]) => \A i \in 1 .. Len(e.posts) : ~Own(e.posts[i])
  BY <1>3 DEF EndFits, OnceFits
<1> QED BY <1>6, <1>7, <1>8 DEF e

LEMMA PostOkEnd ==
  ASSUME TypeInv, NEW early \in BOOLEAN, Wired(c, early), NEW n \in 1 .. Len(c.posts),
         c.posts[n].sid, NEW clean, clean => ~c.drainClose, EndFits(c, session, clean),
         NEW s, s = IF Promised(c.posts[n]) THEN "closed" ELSE session
  PROVE  LET f == PostOk(n)
         IN EndFits(f, s, clean) /\ (c.drainClose => f.drainClose)
<1> DEFINE e == Without(n)
           o == c.posts[n].owner
           g == Drained(e)
           h == Resume(g, o)
<1>1. /\ e \in Client /\ Aside(c, e) /\ Unclosed(c, e) /\ Wired(e, early)
  BY WithoutEffect
<1>2. /\ ToldFits(e, s) /\ (clean => OnceFits(e))
      /\ clean /\ Own(c.posts[n]) => \A i \in 1 .. Len(e.posts) : ~Own(e.posts[i])
  BY WithoutEnd
<1>3. o \in Owners BY PostsAre DEF TypeInv, Posts
<1>4. PostOk(n) = IF o = "cancelled" THEN e ELSE h BY DEF PostOk
<1>5. /\ c.sid /\ c.boot = "polling"
      /\ o \in Ending => c.transport = "closed"
      /\ o \in Ending => Own(c.posts[n])
  BY DEF Wired, PostsFit, PostFits, ShakeFits, Own
<1> HIDE DEF e, o
<1>6. /\ g \in Client /\ Wired(g, early) /\ Held(e, g)
      /\ \/ Unclosed(e, g) /\ g.posts = e.posts
         \/ e.drainClose /\ g.transport = "closed"
  BY <1>1, <1>5, DrainedWired DEF Aside
<1>7. ToldFits(g, s) /\ g.drainClose = e.drainClose
  BY <1>1, <1>2, <1>5, DrainedTold DEF Aside
<1> HIDE DEF g
<1>8. /\ h \in Client /\ ToldFits(h, s) /\ h.posts = g.posts
      /\ h.drainClose = g.drainClose
      /\ o \in Ending => h.readyState = "closed" /\ h.closes = g.closes + 1
      /\ o \notin Ending => h.readyState = g.readyState /\ h.closes = g.closes
  <2>1. g.boot = "polling" BY <1>1, <1>5, <1>6 DEF Held, Aside
  <2>2. o \in Ending => g.transport = "closed" BY <1>1, <1>5, <1>6 DEF Unclosed
  <2> QED BY <1>3, <1>6, <1>7, <2>1, <2>2, ResumeEnd
<1> HIDE DEF h
<1>9. ASSUME clean PROVE OnceFits(h)
  <2>1. /\ OnceFits(e) /\ g.closes = e.closes /\ g.readyState = e.readyState
        /\ h.posts = e.posts
    BY <1>1, <1>2, <1>6, <1>8, <1>9 DEF Aside, Unclosed
  <2>2. CASE o \notin Ending
    <3>1. OwnsOnly(e, h) BY <1>1, <1>8, <2>1, SamePosts
    <3> QED BY <1>1, <1>8, <2>1, <2>2, <3>1, OwnsOnce
  <2>3. CASE o \in Ending
    <3>1. \A i \in 1 .. Len(h.posts) : ~Own(h.posts[i])
      BY <1>2, <1>5, <1>9, <2>1, <2>3
    <3>2. c.readyState # "closed"
      BY <1>5, <1>9, <2>3 DEF EndFits, OnceFits, OwnFits
    <3>3. e.closes = 0 BY <1>1, <2>1, <3>2 DEF OnceFits, Unclosed
    <3> QED BY <1>8, <2>1, <2>3, <3>1, <3>3 DEF OnceFits, OwnFits
  <2> QED BY <2>2, <2>3
<1>10. EndFits(e, s, clean) /\ EndFits(h, s, clean)
  BY <1>2, <1>8, <1>9 DEF EndFits
<1> QED BY <1>1, <1>4, <1>7, <1>8, <1>10 DEF Aside

(***************************************************************************)
(* The steps, again                                                         *)
(***************************************************************************)
(* The server closes its session when it says so, and only a failure makes  *)
(* a packet that decodes to an error.                                       *)
PayloadFits ==
  \A i \in 1 .. Len(c.payload) :
    /\ c.payload[i].type = "close" => session = "closed"
    /\ c.payload[i].type = "error" => faulted
OutFits == \A i \in 1 .. Len(outbox) : outbox[i].type = "close" => session = "closed"

(* CloseOnce makes two exceptions beside the failures. *)
Quiet == ~c.drainClose /\ ~expired
EndInv == PayloadFits /\ OutFits /\ (~faulted => EndFits(c, session, Quiet))

LEMMA Forwards ==
  ASSUME Inv, Next
  PROVE  /\ session = "closed" => session' = "closed"
         /\ faulted => faulted'
         /\ expired => expired'
<1> USE DEF history, serverVars
<1>1. CASE ClientSteps
  <2>1. session' = session /\ faulted' = faulted
    BY <1>1
       DEF ClientSteps, OpenTransport, StartPolling, Write, Close, Loop, PingTimeout,
           ReadPacket, Opened, Pinged, ReadEnds
  <2>2. expired' = expired \/ expired' = (expired \/ c.transport = "closed")
    BY <1>1
       DEF ClientSteps, OpenTransport, StartPolling, Write, Close, Loop, PingTimeout,
           ReadPacket, Opened, Pinged, ReadEnds
  <2>3. expired => expired'
    <3>1. CASE expired' = expired BY <3>1
    <3>2. CASE expired' = (expired \/ c.transport = "closed") BY <3>2
    <3> QED BY <2>2, <3>1, <3>2
  <2>4. faulted => faulted' BY <2>1
  <2> QED BY <2>1, <2>3, <2>4
<1>2. CASE \E i \in DOMAIN c.posts : PostEnds(i)
  <2>1. session' \in {session, "closed"} /\ expired' = expired
    BY <1>2 DEF PostEnds, PostAccepted, PostRefused, PostLost, Receives
  <2>2. faulted' = faulted \/ faulted' = TRUE
    BY <1>2 DEF PostEnds, PostAccepted, PostRefused, PostLost
  <2> QED BY <2>1, <2>2
<1>3. CASE PollEnds
  BY <1>3
     DEF PollEnds, Handshake, PollAnswered, PollReleased, PollGarbled, PollLost
<1>4. CASE ServerSteps
  BY <1>4 DEF ServerSteps, ServerSends, ServerPings, ServerCloses, ServerForgets
<1> QED BY <1>1, <1>2, <1>3, <1>4 DEF Next, ClientSteps, ServerSteps

LEMMA OutFitsKept ==
  ASSUME Inv, Next, OutFits PROVE OutFits'
<1>1. (session = "closed" => session' = "closed") /\ outbox \in Seq(Packets)
  BY Forwards DEF Inv, TypeInv
<1>2. ASSUME outbox' \in {outbox, <<>>} PROVE OutFits' BY <1>1, <1>2 DEF OutFits
<1>3. ASSUME NEW p \in Packets, outbox' = Append(outbox, p),
             p.type = "close" => session' = "closed"
      PROVE  OutFits'
  <2>1. /\ Len(Append(outbox, p)) = Len(outbox) + 1
        /\ \A i \in 1 .. Len(outbox) : Append(outbox, p)[i] = outbox[i]
        /\ Append(outbox, p)[Len(outbox) + 1] = p
    BY <1>1, AppendProperties
  <2>2. Len(outbox) \in Nat BY <1>1, LenProperties
  <2>3. \A i \in 1 .. Len(Append(outbox, p)) : i \in 1 .. Len(outbox) \/ i = Len(outbox) + 1
    BY <2>1, <2>2
  <2> QED BY <1>1, <1>3, <2>1, <2>3 DEF OutFits
<1>4. CASE ClientSteps
  <2>1. outbox' = outbox
    BY <1>4
       DEF ClientSteps, OpenTransport, StartPolling, Write, Close, Loop, PingTimeout,
           ReadPacket, Opened, Pinged, ReadEnds, serverVars
  <2> QED BY <1>2, <2>1
<1>5. CASE \E i \in DOMAIN c.posts : PostEnds(i)
  <2>1. outbox' = outbox
    BY <1>5 DEF PostEnds, PostAccepted, PostRefused, PostLost, serverVars
  <2> QED BY <1>2, <2>1
<1>6. CASE PollEnds
  <2>1. outbox' \in {outbox, <<>>}
    BY <1>6
       DEF PollEnds, Handshake, PollAnswered, PollReleased, PollGarbled, PollLost, serverVars
  <2> QED BY <1>2, <2>1
<1>7. CASE ServerSends
  <2> DEFINE p == Message(served.messages + 1)
  <2>1. p \in Packets /\ p.type = "message"
    BY DEF Inv, TypeInv, Message, Packet, Packets
  <2>2. outbox' = Append(outbox, p) BY <1>7 DEF ServerSends
  <2> HIDE DEF p
  <2> QED BY <1>3, <2>1, <2>2
<1>8. CASE ServerPings
  <2> DEFINE p == Packet("ping", 0)
  <2>1. p \in Packets /\ p.type = "ping" BY DEF Packet, Packets
  <2>2. outbox' = Append(outbox, p) BY <1>8 DEF ServerPings
  <2> HIDE DEF p
  <2> QED BY <1>3, <2>1, <2>2
<1>9. CASE ServerCloses
  <2>1. ClosePacket \in Packets BY DEF ClosePacket, Packet, Packets
  <2>2. outbox' = Append(outbox, ClosePacket) /\ session' = "closed"
    BY <1>9 DEF ServerCloses
  <2> QED BY <1>3, <2>1, <2>2
<1>10. CASE ServerForgets BY <1>2, <1>10 DEF ServerForgets
<1> QED BY <1>4, <1>5, <1>6, <1>7, <1>8, <1>9, <1>10 DEF Next, ClientSteps

LEMMA PayloadFitsKept ==
  ASSUME Inv, Next, PayloadFits, OutFits PROVE PayloadFits'
<1>1. (session = "closed" => session' = "closed") /\ (faulted => faulted') BY Forwards
<1>2. c \in Client /\ c.payload \in Seq(Packets) BY Facts
<1>3. ReadsOn BY NextKept DEF Kept
<1>4. CASE c'.payload = c.payload BY <1>1, <1>4 DEF PayloadFits
<1>5. CASE c.payload # <<>> /\ c'.payload = Tail(c.payload)
  <2>1. /\ Len(Tail(c.payload)) = Len(c.payload) - 1
        /\ \A i \in 1 .. Len(Tail(c.payload)) : Tail(c.payload)[i] = c.payload[i + 1]
    BY <1>2, <1>5, HeadTailProperties
  <2>2. \A i \in 1 .. Len(Tail(c.payload)) : i + 1 \in 1 .. Len(c.payload)
    BY <1>2, <2>1, LenProperties
  <2> QED BY <1>1, <1>5, <2>1, <2>2 DEF PayloadFits
<1>6. ASSUME NEW p \in Seq(Packets), c' = Reading(p),
             \A i \in 1 .. Len(p) :
               (p[i].type = "close" => session' = "closed") /\ (p[i].type = "error" => faulted')
      PROVE  PayloadFits'
  <2>1. c'.payload = p BY <1>2, <1>6 DEF Reading, Client
  <2> QED BY <1>6, <2>1 DEF PayloadFits
<1>7. CASE PollAnswered
  <2>1. outbox \in Seq(Packets) /\ c' = Reading(outbox)
    BY <1>7 DEF Inv, TypeInv, PollAnswered
  <2> QED BY <1>1, <1>6, <2>1 DEF OutFits, Inv, OutboxFits
<1>8. CASE Handshake \/ PollReleased \/ PollGarbled
  <2>1. \A t \in {"open", "noop", "error"} :
          LET s == <<Packet(t, 0)>>
          IN s \in Seq(Packets) /\ Len(s) = 1 /\ s[1].type = t
    BY DEF Packet, Packets
  <2>2. \E t \in {"open", "noop", "error"} :
          c' = Reading(<<Packet(t, 0)>>) /\ (t = "error" => faulted')
    BY <1>8 DEF Handshake, PollReleased, PollGarbled
  <2>3. PICK t \in {"open", "noop", "error"} :
          c' = Reading(<<Packet(t, 0)>>) /\ (t = "error" => faulted')
    BY <2>2
  <2> DEFINE s == <<Packet(t, 0)>>
  <2>4. s \in Seq(Packets) /\ Len(s) = 1 /\ s[1].type = t /\ c' = Reading(s)
    BY <2>1, <2>3
  <2> HIDE DEF s
  <2> QED BY <1>6, <2>3, <2>4
<1> QED BY <1>3, <1>4, <1>5, <1>7, <1>8 DEF ReadsOn, PollReads

LEMMA EndFitsLater ==
  ASSUME NEW e, NEW s, NEW t, NEW clean, NEW later, EndFits(e, s, clean),
         s = "closed" => t = "closed", later => clean
  PROVE  EndFits(e, t, later)
BY DEF EndFits, ToldFits

(* What every step without a failure starts from. *)
LEMMA Before ==
  ASSUME Inv, EndInv, Next, ~faulted', c.drainClose => c'.drainClose
  PROVE  /\ ~faulted /\ c \in Client /\ Early \in BOOLEAN /\ Wired(c, Early)
         /\ EndFits(c, session, Quiet) /\ (Quiet' => Quiet)
         /\ session = "closed" => session' = "closed"
<1>1. ~faulted /\ (expired => expired') /\ (session = "closed" => session' = "closed")
  BY Forwards
<1> QED BY <1>1, Facts DEF Inv, EndInv, Quiet

(* The steps that end nothing. *)
LEMMA SameKept ==
  ASSUME Inv, EndInv, Next, ~faulted', c' \in Client, Grows(c, c'), OwnsOnly(c, c'),
         c'.readyState = c.readyState, c'.closes = c.closes, c'.sid = c.sid,
         c'.drainClose = c.drainClose,
         c'.transport = "closed" => c.transport = "closed"
  PROVE  EndFits(c', session', Quiet')
<1> DEFINE f == c'
           t == session'
           later == Quiet'
<1>1. /\ c \in Client /\ EndFits(c, session, Quiet) /\ (later => Quiet)
      /\ session = "closed" => t = "closed"
  BY Before
<1>2. /\ f \in Client /\ Grows(c, f) /\ OwnsOnly(c, f)
      /\ f.readyState = c.readyState /\ f.closes = c.closes /\ f.sid = c.sid
      /\ f.transport = "closed" => c.transport = "closed"
  OBVIOUS
<1>3. EndFits(f, t, later) = EndFits(c', session', Quiet') OBVIOUS
<1> HIDE DEF f, t, later
<1>4. EndFits(c, t, later) BY <1>1, EndFitsLater
<1>5. EndFits(f, t, later) BY <1>1, <1>2, <1>4, SameEnd
<1> QED BY <1>3, <1>5

LEMMA BootEnd ==
  ASSUME Inv, EndInv, Next, ~faulted', OpenTransport \/ StartPolling
  PROVE  EndFits(c', session', Quiet')
<1>1. c \in Client BY Facts
<1>2. c' \in Client BY NextKept DEF Kept
<1>3. /\ c'.posts = c.posts /\ c'.readyState = c.readyState /\ c'.closes = c.closes
      /\ c'.sid = c.sid /\ c'.drainClose = c.drainClose
      /\ c'.transport = "closed" => c.transport = "closed"
  BY <1>1 DEF OpenTransport, StartPolling, Client
<1>4. Grows(c, c') /\ OwnsOnly(c, c') BY <1>1, <1>2, <1>3, SamePosts
<1> QED BY <1>2, <1>3, <1>4, SameKept

LEMMA WriteEnd ==
  ASSUME Inv, EndInv, Next, ~faulted', Write
  PROVE  EndFits(c', session', Quiet')
<1>1. c \in Client /\ c.written \in Nat BY Facts
<1> DEFINE n == c.written + 1
           d == [c EXCEPT !.written = n]
           p == Message(n)
           f == SendPacket(d, p)
<1>2. c' = f BY DEF Write
<1>3. n \in Nat BY <1>1
<1> HIDE DEF n
<1>4. p \in Packets BY <1>3 DEF Message, Packet, Packets
<1>5. /\ d \in Client /\ Unclosed(c, d) /\ d.posts = c.posts /\ d.sid = c.sid
      /\ d.drainClose = c.drainClose
  BY <1>1, <1>3 DEF Client, Unclosed
<1> HIDE DEF d, p
<1>6. /\ f \in Client /\ Aside(d, f) /\ Unclosed(d, f) /\ f.posts = d.posts
  BY <1>4, <1>5, SendPacketEffect
<1> HIDE DEF f
<1>7. Grows(c, c') /\ OwnsOnly(c, c') BY <1>1, <1>2, <1>5, <1>6, SamePosts
<1> QED BY <1>2, <1>5, <1>6, <1>7, SameKept DEF Aside, Unclosed

LEMMA LoopEnd ==
  ASSUME Inv, EndInv, Next, ~faulted', Loop
  PROVE  EndFits(c', session', Quiet')
<1>1. c \in Client BY Facts
<1> DEFINE f == TransportFlush(c, "loop")
<1>2. c' = f /\ c.sendQueue # <<>> BY DEF Loop
<1>3. "loop" \in Owners \ Ending BY DEF Owners, Ending
<1>4. /\ f \in Client /\ Aside(c, f) /\ Unclosed(c, f)
      /\ Posted(c, f, "loop", c.sendQueue)
  BY <1>1, <1>2, <1>3, TransportFlushEffect
<1> HIDE DEF f
<1>5. Grows(c, f) /\ OwnsOnly(c, f) BY <1>1, <1>3, <1>4, PostedPosts
<1> QED BY <1>2, <1>4, <1>5, SameKept DEF Aside, Unclosed

(* ResetPing cancels a thread of the ping timer, if one waits.              *)
LEMMA ResetPingEnd ==
  ASSUME NEW e \in Client
  PROVE  LET f == ResetPing(e)
         IN /\ f \in Client /\ Grows(e, f) /\ OwnsOnly(e, f) /\ Aside(e, f)
            /\ f.readyState = e.readyState /\ f.closes = e.closes
            /\ f.transport = e.transport
<1> DEFINE b == ClearPing(e)
           f == ResetPing(e)
<1>1. /\ b \in Client /\ Aside(e, b) /\ AllCancelled(e, b)
      /\ b.ping = FALSE /\ b.closes = e.closes
      /\ b.readyState = e.readyState /\ b.transport = e.transport
      /\ b.attached = e.attached /\ b.closeListener = e.closeListener
      /\ b.sendQueue = e.sendQueue /\ b.running = e.running
      /\ b.writeBuffer = e.writeBuffer
  BY ClearPingEffect
<1>2. f = [b EXCEPT !.ping = TRUE] BY DEF ResetPing
<1> HIDE DEF b, f
<1>3. /\ f \in Client /\ Aside(b, f) /\ f.posts = b.posts
      /\ f.readyState = b.readyState /\ f.transport = b.transport /\ f.closes = b.closes
  BY <1>1, <1>2 DEF Client, Aside
<1>4. AllCancelled(e, f) BY <1>1, <1>3 DEF AllCancelled
<1>5. Grows(e, f) /\ OwnsOnly(e, f) BY <1>3, <1>4, CancelledPosts
<1> QED BY <1>1, <1>3, <1>5 DEF Aside, f

LEMMA ListenedEnd ==
  ASSUME Inv, EndInv, Next, ~faulted', Opened \/ Pinged
  PROVE  EndFits(c', session', Quiet')
<1>1. c \in Client BY Facts
<1> DEFINE b == [c EXCEPT !.listeners = "none"]
           d == EngineFlush(b)
<1>2. /\ b \in Client /\ Unclosed(c, b) /\ b.posts = c.posts /\ b.sid = c.sid
      /\ b.drainClose = c.drainClose
  BY <1>1 DEF Client, Unclosed
<1>3. c' \in {d, ResetPing(d), ResetPing(b)} BY DEF Opened, Pinged
<1> HIDE DEF b
<1>4. /\ d \in Client /\ Aside(b, d) /\ Unclosed(b, d) /\ d.posts = b.posts
  BY <1>2, EngineFlushEffect
<1> HIDE DEF d
<1>5. \E e \in {b, d} : c' = e \/ c' = ResetPing(e) BY <1>3
<1>6. PICK e \in {b, d} : c' = e \/ c' = ResetPing(e) BY <1>5
<1>7. /\ e \in Client /\ Unclosed(c, e) /\ e.posts = c.posts /\ e.sid = c.sid
      /\ e.drainClose = c.drainClose
  BY <1>2, <1>4 DEF Aside, Unclosed
<1>8. CASE c' = e
  <2>1. Grows(c, e) /\ OwnsOnly(c, e) BY <1>1, <1>7, SamePosts
  <2> QED BY <1>7, <1>8, <2>1, SameKept DEF Unclosed
<1>9. CASE c' = ResetPing(e)
  <2> DEFINE f == ResetPing(e)
  <2>1. /\ f \in Client /\ Grows(e, f) /\ OwnsOnly(e, f) /\ Aside(e, f)
        /\ f.readyState = e.readyState /\ f.closes = e.closes
        /\ f.transport = e.transport
    BY <1>7, ResetPingEnd
  <2>2. c' = f BY <1>9
  <2> HIDE DEF f
  <2>3. Grows(c, f) /\ OwnsOnly(c, f) BY <1>7, <2>1 DEF Grows, OwnsOnly
  <2> QED BY <1>7, <2>1, <2>2, <2>3, SameKept DEF Aside, Unclosed
<1> QED BY <1>6, <1>8, <1>9

LEMMA PollEnd ==
  ASSUME Inv, EndInv, Next, ~faulted', ReadEnds \/ PollEnds
  PROVE  EndFits(c', session', Quiet')
<1>1. c \in Client BY Facts
<1>2. c' \in Client BY NextKept DEF Kept
<1>3. /\ c'.posts = c.posts /\ c'.readyState = c.readyState /\ c'.closes = c.closes
      /\ c'.sid = c.sid /\ c'.drainClose = c.drainClose /\ c'.transport = c.transport
  <2>1. CASE ReadEnds BY <1>1, <2>1 DEF ReadEnds, PollAgain, Client
  <2>2. CASE PollEnds
    <3>1. \E p \in {<<Packet("open", 0)>>, <<Packet("noop", 0)>>, outbox} : c' = Reading(p)
      BY <2>2 DEF PollEnds, Handshake, PollAnswered, PollReleased, PollGarbled, PollLost
    <3> QED BY <1>1, <3>1 DEF Reading, Client
  <2> QED BY <2>1, <2>2
<1>4. Grows(c, c') /\ OwnsOnly(c, c') BY <1>1, <1>2, <1>3, SamePosts
<1> QED BY <1>2, <1>3, <1>4, SameKept

LEMMA ServerEnd ==
  ASSUME Inv, EndInv, Next, ~faulted', c' = c
  PROVE  EndFits(c', session', Quiet')
<1>1. c \in Client BY Facts
<1>2. Grows(c, c') /\ OwnsOnly(c, c') BY <1>1, SamePosts
<1> QED BY <1>1, <1>2, SameKept

LEMMA CloseEnd ==
  ASSUME Inv, EndInv, Next, ~faulted', Close
  PROVE  EndFits(c', session', Quiet')
<1> DEFINE d == [c EXCEPT !.readyState = "closing"]
           b == [d EXCEPT !.drainClose = TRUE]
<1>1. c \in Client /\ Wired(c, Early) /\ Early \in BOOLEAN BY Facts DEF Inv
<1>2. /\ c.readyState \in {"opening", "open"} /\ session' = session /\ expired' = expired
      /\ ~faulted /\ EndFits(c, session, Quiet)
      /\ c' = IF d.writeBuffer # <<>> THEN b ELSE ForcedClose(d)
  BY DEF Close, serverVars, history, EndInv
<1>3. /\ d \in Client /\ d.readyState = "closing" /\ Aside(c, d)
      /\ d.transport = c.transport /\ d.closeListener = c.closeListener
      /\ d.posts = c.posts /\ d.sendQueue = c.sendQueue /\ d.closes = c.closes
  BY <1>1 DEF Client, Aside
<1> HIDE DEF d
<1>4. Grows(c, d) BY <1>1, <1>3, SamePosts
<1>5. ToldFits(d, session)
  BY <1>1, <1>2, <1>3, <1>4, GrowsTold DEF EndFits
<1>6. PostsFit(d) BY <1>1, <1>3 DEF Wired, PostsFit, PostFits, Aside
<1>7. CASE d.writeBuffer # <<>>
  <2>1. /\ b \in Client /\ Unclosed(d, b) /\ b.posts = d.posts /\ b.sid = d.sid
        /\ b.drainClose = TRUE
    BY <1>3 DEF Client, Unclosed
  <2>2. c' = b BY <1>2, <1>7
  <2> HIDE DEF b
  <2>3. Grows(d, b) BY <1>3, <2>1, SamePosts
  <2>4. ToldFits(b, session) BY <1>3, <1>5, <2>1, <2>3, GrowsTold DEF Unclosed
  <2>5. ~Quiet' BY <2>1, <2>2 DEF Quiet
  <2> QED BY <1>2, <2>2, <2>4, <2>5 DEF EndFits
<1>8. CASE ~(d.writeBuffer # <<>>)
  <2>1. Live(d) /\ (d.transport = "opening" => d.sendQueue = <<>>)
        /\ (d.sid => d.transport # "opening")
    BY <1>1, <1>3 DEF Live, Wired, ShakeFits, Aside
  <2> DEFINE f == EngineClose(d, "forced")
  <2>2. c' = f BY <1>2, <1>3, <1>8, <2>1, ForcedCloseIs
  <2>3. "forced" \in Owners BY DEF Owners
  <2>4. Waits(d, f, "forced") \/ Ends(d, f) BY <1>3, <2>1, <2>3, EngineCloseEffect
  <2> HIDE DEF f
  <2>5. ToldFits(f, session) BY <1>3, <1>5, <2>1, <2>3, <2>4, CloseTold
  <2>6. f.drainClose = c.drainClose
    BY <1>3, <2>4 DEF Waits, Ends, Shuts, Aside
  <2>7. ASSUME Quiet PROVE OnceFits(f)
    <3>1. OnceFits(c) BY <1>2, <2>7 DEF EndFits
    <3>2. \A i \in 1 .. Len(d.posts) : Own(d.posts[i]) => d.posts[i].owner = "timer"
      BY <1>2, <1>3, <3>1 DEF OnceFits, OwnFits, Own, Ending
    <3>3. OnceFits(d)
      <4>1. d.closes = 0 BY <1>2, <1>3, <3>1 DEF OnceFits
      <4>2. \A i \in 1 .. Len(d.posts) : OwnFits(d, d.posts[i])
        BY <1>3, <3>2 DEF OwnFits
      <4> QED BY <1>3, <3>1, <4>1, <4>2 DEF OnceFits
    <3>4. CASE Waits(d, f, "forced") BY <1>3, <1>6, <2>1, <2>3, <3>3, <3>4, WaitsOnce
    <3>5. CASE Ends(d, f)
      <4>1. /\ f \in Client /\ AllCancelled(d, f) /\ f.readyState = "closed"
            /\ f.closes = d.closes + 1
        BY <3>5 DEF Ends, Shuts
      <4> QED BY <1>3, <2>1, <3>2, <3>3, <4>1, EndsOnce
    <3> QED BY <2>4, <3>4, <3>5
  <2>8. Quiet' => Quiet BY <1>2, <2>2, <2>6 DEF Quiet
  <2> QED BY <1>2, <2>2, <2>5, <2>7, <2>8 DEF EndFits
<1> QED BY <1>7, <1>8

LEMMA PingTimeoutEnd ==
  ASSUME Inv, EndInv, Next, ~faulted', PingTimeout
  PROVE  EndFits(c', session', Quiet')
<1>1. c \in Client /\ Wired(c, Early) /\ Early \in BOOLEAN BY Facts DEF Inv
<1>2. /\ c.ping /\ session' = session /\ expired' = (expired \/ c.transport = "closed")
      /\ ~faulted /\ EndFits(c, session, Quiet)
  BY DEF PingTimeout, serverVars, EndInv
<1>3. c.sid /\ c.transport # "opening" BY <1>1, <1>2 DEF Wired, ShakeFits
<1>4. CASE c.readyState = "closed"
  <2> DEFINE f == [c EXCEPT !.ping = FALSE]
  <2>1. c' = f BY <1>4, PingTimeoutIs
  <2>2. /\ f \in Client /\ Aside(c, f) /\ f.readyState = c.readyState
        /\ f.transport = c.transport /\ f.posts = c.posts /\ f.closes = c.closes
    BY <1>1 DEF Client, Aside
  <2> HIDE DEF f
  <2>3. Grows(c, f) /\ OwnsOnly(c, f) BY <1>1, <2>2, SamePosts
  <2> QED BY <2>1, <2>2, <2>3, SameKept DEF Aside
<1>5. CASE c.readyState # "closed"
  <2> DEFINE f == EngineClose(c, "timer")
  <2>1. c' = f BY <1>5, PingTimeoutIs
  <2>2. Live(c) BY <1>1, <1>5 DEF Live, Client
  <2>3. "timer" \in Owners BY DEF Owners
  <2>4. Waits(c, f, "timer") \/ Ends(c, f)
    BY <1>1, <1>3, <2>2, <2>3, EngineCloseEffect
  <2> HIDE DEF f
  <2>5. ToldFits(f, session)
    BY <1>1, <1>2, <1>3, <2>3, <2>4, CloseTold DEF EndFits
  <2>6. f.drainClose = c.drainClose BY <2>4 DEF Waits, Ends, Shuts, Aside
  <2>7. ASSUME Quiet, c.transport # "closed" PROVE OnceFits(f)
    <3>1. OnceFits(c) /\ PostsFit(c) BY <1>1, <1>2, <2>7 DEF EndFits, Wired
    <3>2. Waits(c, f, "timer") BY <1>1, <1>3, <2>4, <2>7 DEF Ends, Client
    <3> QED BY <1>1, <2>2, <2>3, <3>1, <3>2, WaitsOnce
  <2>8. Quiet' => Quiet /\ c.transport # "closed" BY <1>2, <2>1, <2>6 DEF Quiet
  <2> QED BY <1>2, <2>1, <2>5, <2>7, <2>8 DEF EndFits
<1> QED BY <1>4, <1>5

LEMMA ReadPacketEnd ==
  ASSUME Inv, EndInv, Next, ~faulted', ReadPacket
  PROVE  EndFits(c', session', Quiet')
<1>1. c \in Client /\ Wired(c, Early) /\ Early \in BOOLEAN /\ c.payload \in Seq(Packets)
  BY Facts DEF Inv
<1> DEFINE t == Tail(c.payload)
           p == Head(c.payload)
           e == [c EXCEPT !.payload = t]
           f == OnData(e, p)
<1>2. /\ c.reading /\ c.listeners = "none" /\ c.payload # <<>> /\ c' = f
      /\ session' = session /\ expired' = expired /\ Early' = Early
      /\ ~faulted /\ EndFits(c, session, Quiet)
  BY DEF ReadPacket, history, serverVars, Early, EndInv
<1>3. p \in Packets /\ t \in Seq(Packets) /\ Len(t) = Len(c.payload) - 1
      /\ \A i \in 1 .. Len(t) : t[i] = c.payload[i + 1]
  BY <1>1, <1>2, HeadTailProperties
<1>4. /\ p = c.payload[1] /\ 1 \in 1 .. Len(c.payload)
      /\ \A i \in 1 .. Len(t) : i + 1 \in 1 .. Len(c.payload) /\ Len(c.payload) # 1
  BY <1>1, <1>3, LenProperties
<1> HIDE DEF t, p
<1>5. /\ p.type # "error" /\ (p.type = "close" => session = "closed")
  BY <1>2, <1>4 DEF EndInv, PayloadFits
<1>6. p.type = "open" => ~c.sid BY <1>1, <1>4 DEF Wired, ShakeFits
<1>7. /\ e \in Client /\ e.payload = t /\ Unclosed(c, e) /\ e.sid = c.sid
      /\ e.polls = c.polls /\ e.reading = c.reading /\ e.boot = c.boot
      /\ e.listeners = c.listeners /\ e.writable = c.writable
      /\ e.drainClose = c.drainClose /\ e.posts = c.posts /\ e.sendQueue = c.sendQueue
  BY <1>1, <1>3 DEF Client, Unclosed
<1> HIDE DEF e, f
<1>8. Wired(e, Early)
  <2>1. \A i \in 1 .. Len(t) : t[i].type # "open"
    BY <1>1, <1>3, <1>4 DEF Wired, ShakeFits
  <2>2. ~c.sid => Len(t) = 0
    BY <1>1, <1>2, <1>3, <1>4 DEF Wired, ShakeFits
  <2>3. ShakeFits(e) BY <1>1, <1>7, <2>1, <2>2 DEF Wired, ShakeFits, Unclosed
  <2> QED BY <1>1, <1>7, <2>3
          DEF Wired, LifeFits, PostsFit, PostFits, Watched, PollsFit, Unclosed
<1>9. Grows(c, e) /\ OwnsOnly(c, e) BY <1>1, <1>7, SamePosts
<1>10. EndFits(e, session, Quiet) BY <1>1, <1>2, <1>7, <1>9, SameEnd DEF Unclosed
<1> DEFINE clean == Quiet
<1>11. EndFits(e, session, clean) BY <1>10
<1>12. f \in Client /\ EndFits(f, session, clean) /\ f.drainClose = e.drainClose
  <2> HIDE DEF clean
  <2> QED BY <1>1, <1>3, <1>5, <1>6, <1>7, <1>8, <1>11, OnDataEnd DEF f
<1>13. Quiet' => Quiet BY <1>2, <1>7, <1>12 DEF Quiet
<1> QED BY <1>2, <1>12, <1>13 DEF EndFits

LEMMA PostEnd ==
  ASSUME Inv, EndInv, Next, ~faulted', NEW n \in DOMAIN c.posts, PostEnds(n)
  PROVE  EndFits(c', session', Quiet')
<1>1. c \in Client /\ Wired(c, Early) /\ Early \in BOOLEAN BY Facts DEF Inv
<1>2. n \in 1 .. Len(c.posts) BY <1>1, PostsAre
<1> DEFINE q == c.posts[n]
           s == IF Promised(q) THEN "closed" ELSE session
           f == PostOk(n)
<1>3. PostAccepted(n) BY DEF PostEnds, PostRefused, PostLost
<1>4. /\ q.sid /\ c' = f /\ expired' = expired
      /\ session' = IF ClosePacket \in ToSet(q.packets) THEN "closed" ELSE session
  BY <1>3 DEF PostAccepted, Receives, history
<1>5. session' = s BY <1>4 DEF Promised
<1>6. EndFits(c, session, Quiet) /\ ~faulted
  <2>1. ~faulted BY Forwards
  <2> QED BY <2>1 DEF EndInv
<1> DEFINE clean == Quiet
<1>7. EndFits(f, s, clean) /\ (c.drainClose => f.drainClose)
  <2>1. clean => ~c.drainClose BY DEF Quiet
  <2>2. EndFits(c, session, clean) BY <1>6
  <2>3. q.sid /\ s = IF Promised(c.posts[n]) THEN "closed" ELSE session BY <1>4
  <2> HIDE DEF clean, s
  <2> QED BY <1>1, <1>2, <2>1, <2>2, <2>3, PostOkEnd DEF Inv
<1>8. Quiet' => Quiet BY <1>4, <1>7 DEF Quiet
<1> QED BY <1>4, <1>5, <1>7, <1>8 DEF EndFits

LEMMA StepEndInv ==
  ASSUME Inv, EndInv, [Next]_vars PROVE EndInv'
<1>1. CASE Next
  <2>1. PayloadFits' /\ OutFits' BY <1>1, PayloadFitsKept, OutFitsKept DEF EndInv
  <2>2. ASSUME ~faulted' PROVE EndFits(c', session', Quiet')
    <3>1. CASE ClientSteps
      BY <1>1, <2>2, <3>1, BootEnd, WriteEnd, CloseEnd, LoopEnd, PingTimeoutEnd,
         ReadPacketEnd, ListenedEnd, PollEnd
         DEF ClientSteps
    <3>2. CASE \E i \in DOMAIN c.posts : PostEnds(i) BY <1>1, <2>2, <3>2, PostEnd
    <3>3. CASE PollEnds BY <1>1, <2>2, <3>3, PollEnd
    <3>4. CASE ServerSteps
      <4>1. c' = c
        BY <3>4 DEF ServerSteps, ServerSends, ServerPings, ServerCloses, ServerForgets
      <4> QED BY <1>1, <2>2, <4>1, ServerEnd
    <3> QED BY <1>1, <3>1, <3>2, <3>3, <3>4 DEF Next, ClientSteps, ServerSteps
  <2> QED BY <2>1, <2>2 DEF EndInv
<1>2. CASE UNCHANGED vars
  BY <1>2
     DEF vars, serverVars, history, EndInv, PayloadFits, OutFits, Quiet, EndFits, ToldFits,
         OnceFits, OwnFits
<1> QED BY <1>1, <1>2

LEMMA InitEndInv ==
  ASSUME Init PROVE EndInv
<1>1. /\ c.transport = "open" /\ c.closes = 0 /\ c.posts = <<>> /\ c.payload = <<>>
      /\ outbox = <<>>
  BY DEF Init, New
<1>2. Len(<<>>) = 0 BY EmptySeq
<1>3. PayloadFits /\ OutFits BY <1>1, <1>2 DEF PayloadFits, OutFits
<1>4. ToldFits(c, session) /\ OnceFits(c) BY <1>1, <1>2 DEF ToldFits, OnceFits
<1> QED BY <1>3, <1>4 DEF EndInv, EndFits

(***************************************************************************)
(* Theorems                                                                 *)
(***************************************************************************)
THEOREM InvCorrect == Spec => []Inv
<1>1. Init => Inv BY InitInv
<1>2. Inv /\ [Next]_vars => Inv' BY StepInv
<1> QED BY <1>1, <1>2, PTL DEF Spec

(* The state is well formed: every state name is one the code has, and the  *)
(* threads that wait are of the kinds the code starts.                      *)
THEOREM TypeCorrect == Spec => []TypeOK
<1>1. Inv => TypeOK
  <2>1. ASSUME Inv PROVE \A i \in DOMAIN c.posts : c.posts[i].owner \in Owners
    BY <2>1, PostsAre DEF Inv, TypeInv, Posts
  <2>2. ASSUME Inv PROVE c \in Client /\ c.written \in 0 .. MaxWrites
    BY <2>2, EngineBounds DEF Inv, TypeInv, Client
  <2> QED BY <2>1, <2>2 DEF Inv, TypeInv, Client, TypeOK
<1> QED BY <1>1, InvCorrect, PTL

(* At most one poll is in flight, and none while a payload is read (_poll,  *)
(* onData), whatever fails and whenever the engine is closed.               *)
THEOREM OnePollCorrect == Spec => []OnePoll
<1>1. Inv => OnePoll BY DEF Inv, Wired, PollsFit, OnePoll
<1> QED BY <1>1, InvCorrect, PTL

(* An open engine whose transport is open is watched by a ping timer        *)
(* (onHandshake, _resetPingTimeout), except while a listener runs.          *)
THEOREM PingWatchedCorrect == Spec => []PingWatched
<1>1. Inv => PingWatched BY DEF Inv, Wired, Watched, PingWatched
<1> QED BY <1>1, InvCorrect, PTL

(* A closed engine has closed its transport for good (_onClose), when no    *)
(* request is answered before a task that is deferred by nothing.           *)
THEOREM StaysShutCorrect ==
  ASSUME ~FastRequests PROVE Spec => []StaysShut
<1>1. Inv => StaysShut BY DEF Inv, Wired, LifeFits, Early, StaysShut
<1> QED BY <1>1, InvCorrect, PTL

(* A closed engine stays closed and hears nothing more, and its only poll   *)
(* is the first, if doOpen() was already scheduled when it closed (open();  *)
(* removeAllListeners in _onClose; _onPacket, onHandshake and onData).      *)
THEOREM ClosedIsFinalCorrect ==
  ASSUME ~FastRequests PROVE Spec => ClosedIsFinal
<1> DEFINE A == c.readyState = "closed" =>
                  /\ c'.readyState = "closed" /\ c'.got = c.got
                  /\ c'.polls > c.polls => c.boot = "opening"
<1>1. Inv /\ [Next]_vars => [A]_vars BY StepInv DEF Lasting
<1> QED BY <1>1, InvCorrect, PTL DEF Spec, ClosedIsFinal

THEOREM EndInvCorrect == Spec => []EndInv
<1>1. Init => EndInv BY InitEndInv
<1>2. Inv /\ EndInv /\ [Next]_vars => EndInv' BY StepEndInv
<1> QED BY <1>1, <1>2, InvCorrect, PTL DEF Spec

(* When a handshaken engine has closed and no request of it is in flight,   *)
(* the server knows, if nothing was lost (doClose and onClose of the        *)
(* transport): a request that waits carries the close packet, or comes from *)
(* before the handshake and fails.                                          *)
THEOREM CloseIsToldCorrect == Spec => []CloseIsTold
<1>1. Inv /\ EndInv => CloseIsTold
  <2>1. SUFFICES ASSUME Inv, EndInv, c.readyState = "closed", c.sid, c.posts = <<>>, ~faulted
                 PROVE  session = "closed"
    BY DEF CloseIsTold
  <2>2. c.transport = "closed" BY <2>1 DEF Inv, Wired, LifeFits, Early
  <2>3. ToldFits(c, session) BY <2>1 DEF EndInv, EndFits
  <2>4. Len(c.posts) = 0 BY <2>1, EmptySeq
  <2> QED BY <2>1, <2>2, <2>3, <2>4 DEF ToldFits
<1> QED BY <1>1, InvCorrect, EndInvCorrect, PTL

(* "close" is emitted once (_onClose), unless something failed, close()     *)
(* waited for a drain, or the ping timer ran out on a closed transport:     *)
(* one thread at most will end the engine, and nothing ends it meanwhile.   *)
THEOREM CloseOnceCorrect == Spec => []CloseOnce
<1>1. Inv /\ EndInv => CloseOnce
  <2>1. SUFFICES ASSUME Inv, EndInv, ~faulted, ~c.drainClose, ~expired PROVE c.closes <= 1
    BY DEF CloseOnce
  <2>2. OnceFits(c) BY <2>1 DEF EndInv, EndFits, Quiet
  <2> QED BY <2>2 DEF OnceFits
<1> QED BY <1>1, InvCorrect, EndInvCorrect, PTL
=============================================================================
