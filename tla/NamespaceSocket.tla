--------------------------- MODULE NamespaceSocket ---------------------------
(***************************************************************************)
(* One Socket.IO namespace socket (socket.io-client/socket.ts).             *)
(*                                                                          *)
(* The program runs as Luau coroutines: code between two yields is atomic.  *)
(* Two things break a handler in the middle, and both are in the model.     *)
(*                                                                          *)
(*  - A handler that emits an event calls user listeners, which may call    *)
(*    the socket again before the handler goes on.  `stack' holds the       *)
(*    continuations of the handlers that are inside such a call; while it   *)
(*    is not empty only the user's calls and the topmost continuation run.  *)
(*                                                                          *)
(*  - Closing an engine that is open performs an HTTP request and yields.   *)
(*    `suspended' holds the callers of destroy() waiting for that request;  *)
(*    everything else goes on meanwhile.                                    *)
(*                                                                          *)
(* The manager and the engine appear as far as the socket sees them (`io',  *)
(* `eng', `writable', `reconnecting'); the server is an environment.        *)
(* Messages are numbered in the order the user emits them.                  *)
(***************************************************************************)
EXTENDS Integers, Sequences, FiniteSets

CONSTANTS
  Retries,          \* SocketOptions.retries; 0 when the option is not set
  AckTimeout,       \* whether SocketOptions.ackTimeout is set
  AckKinds,         \* the kinds of acknowledgement the user passes to emit
  Modifiers,        \* the modifiers (volatile, timeout) the user chains
  ServerPids,       \* what the server may send as pid in its CONNECT packet
  AckSizes,         \* how many values the server's acknowledgements carry
  MaxEmits,         \* bound: messages emitted by the user
  MaxEngines,       \* bound: engines created by the manager
  MaxServerEvents,  \* bound: events emitted by the server
  MaxWire, MaxIds   \* bounds: packets on the wire and ids used when connect() asks for
                    \* the namespace

NoPid   == "undefined"   \* a CONNECT packet without pid
NewPid  == ""            \* the initial value of _pid
Pids    == ServerPids \cup {NoPid, NewPid}

ASSUME RetriesAssumption   == Retries \in Nat /\ AckTimeout \in BOOLEAN
ASSUME AckKindsAssumption  == AckKinds \subseteq {"none", "fn", "table"}
ASSUME AckSizesAssumption  == AckSizes \subseteq Nat
ASSUME ModifiersAssumption == Modifiers \subseteq {"volatile", "timeout"}
ASSUME BoundsAssumption    ==
  /\ MaxEmits \in Nat
  /\ MaxEngines \in Nat
  /\ MaxServerEvents \in Nat
  /\ MaxWire \in Nat /\ MaxIds \in Nat

VARIABLES
  connected, subs,          \* connected; whether subs is set
  pid, recovered,           \* _pid; recovered
  flags,                    \* the modifiers in force for the next emission
  ids,                      \* the next acknowledgement id
  acks, timers,             \* registered handlers; timers of timed handlers
  sendBuffer, receiveBuffer, queue,
  stack, suspended,
  io, eng, engines, writable, reconnecting,
  out, inb, srv,            \* packets to and from the server, server session
  emitted, mode, outcomes,  \* history: emissions, how each was made, callbacks
  received, delivered,      \* history: what the server and the user received
  serverEvents, toAck       \* events sent by the server, ack callbacks handed out

socketVars == <<connected, subs, pid, recovered, flags, ids, acks, timers,
                sendBuffer, receiveBuffer, queue>>
ackVars    == <<ids, acks, timers>>
ioVars     == <<io, eng, engines, writable, reconnecting, suspended>>
serverVars == <<inb, srv, received, serverEvents>>
userVars   == <<emitted, mode, outcomes, delivered, toAck>>
vars       == <<socketVars, ioVars, stack, out, serverVars, userVars>>

(***************************************************************************)
(* Packets and handlers                                                     *)
(***************************************************************************)
Messages == 1 .. MaxEmits
NoId     == -1

(* A packet of either direction: its type, acknowledgement id, the number  *)
(* of the message or server event it carries, a pid (CONNECT only), and    *)
(* how many values an ACK has as its data.                                  *)
Packet == [type : {"CONNECT", "EVENT", "ACK", "DISCONNECT", "CONNECT_ERROR"},
           id : Int, m : Nat, pid : Pids, values : Nat]

PacketOf(type, id, m, values) ==
  [type |-> type, id |-> id, m |-> m, pid |-> NewPid, values |-> values]
Control(type)      == PacketOf(type, NoId, 0, 0)
EventPacket(id, m) == PacketOf("EVENT", id, m, 0)
AckPacket(id, n)   == PacketOf("ACK", id, 0, n)

(* A handler in `acks': "plain" is a function; "timed" is the table made   *)
(* by _registerAckCallback around a timer; "promise" is the table made by  *)
(* emitWithAck.  `queued' marks the closure made by _addToQueue.           *)
Handler == [id : Nat, m : Messages,
            kind : {"plain", "timed", "promise"}, queued : BOOLEAN]

QueueEntry == [m : Messages, tryCount : Nat, pending : BOOLEAN,
               timeout : BOOLEAN, ack : BOOLEAN]

NoFlags == {}

RemoveAt(s, i) == SubSeq(s, 1, i - 1) \o SubSeq(s, i + 1, Len(s))

(***************************************************************************)
(* Writing to the engine                                                    *)
(***************************************************************************)
(* Manager._packet and the engine's write: a closing engine drops packets. *)
Accepts      == eng \in {"opening", "open"}
Write(pkts)  == out' = IF Accepts THEN out \o pkts ELSE out

(***************************************************************************)
(* Acknowledgement handlers                                                 *)
(***************************************************************************)
(* onack tests the type of the handler before it calls it. *)
IsFunction(h) == h.kind = "plain"
WithError(h)  == h.kind # "plain"

(* Comparison of Luau values: values of different types are never equal. *)
LuauNumber(n)    == [type |-> "number", value |-> n]
ToString(n)      == [type |-> "string", value |-> n]
LuauEqual(a, b)  == a.type = b.type /\ a.value = b.value

(* The test of _clearAcks; the keys of acks are numbers. *)
IsBuffered(h) == \E i \in DOMAIN sendBuffer :
                    LuauEqual(ToString(sendBuffer[i].id), LuauNumber(h.id))

Told(f, m, outcome) == [f EXCEPT ![m] = Append(@, outcome)]

(* Operators named Fault... are not part of the model: each is a plausible *)
(* bug, which a mutated run puts in the place of the definition after it.  *)
FaultSameId == ids
NextId == ids + 1

(* _registerAckCallback for a new id. *)
Register(a, t, h) ==
  /\ acks' = a \cup {h}
  /\ timers' = IF h.kind = "timed" THEN t \cup {h} ELSE t
  /\ ids' = NextId

(***************************************************************************)
(* The retry queue                                                          *)
(***************************************************************************)
(* Whether _drainQueue sends the head of queue q. *)
FaultNeverForced(q, force) == connected /\ q # <<>> /\ ~Head(q).pending
SendsHead(q, force) == connected /\ q # <<>> /\ (force \/ ~Head(q).pending)

Tried(e) == LET sent == [e EXCEPT !.pending = TRUE]
            IN  [sent EXCEPT !.tryCount = @ + 1]

HeadHandler(e) ==
  [id |-> ids, m |-> e.m, queued |-> TRUE,
   kind |-> IF e.timeout \/ AckTimeout THEN "timed" ELSE "plain"]

(* _drainQueue on queue q, handlers a and timers t: the head is emitted    *)
(* again, with the flags kept in its entry, which emit then resets.        *)
DrainQueue(q, a, t, force) ==
  IF SendsHead(q, force)
  THEN /\ queue' = <<Tried(Head(q))>> \o Tail(q)
       /\ Register(a, t, HeadHandler(Head(q)))
       /\ Write(<<EventPacket(ids, Head(q).m)>>)
       /\ flags' = NoFlags
  ELSE /\ queue' = q
       /\ acks' = a
       /\ timers' = t
       /\ UNCHANGED <<ids, out, flags>>

(* The callback _addToQueue appends to the arguments of a queued message.  *)
FaultAnyHead(m) == queue # <<>>
IsHead(m)       == queue # <<>> /\ Head(queue).m = m
Settles(m, err) == IsHead(m) /\ (err => Head(queue).tryCount > Retries)
FaultRetryLast(m, err) ==
  IF Settles(m, err) THEN Tail(queue)
  ELSE Append(Tail(queue), [Head(queue) EXCEPT !.pending = FALSE])
AfterCallback(m, err) ==
  IF Settles(m, err) THEN Tail(queue)
  ELSE <<[Head(queue) EXCEPT !.pending = FALSE]>> \o Tail(queue)

QueueCallback(m, err, a, t) ==
  /\ IF IsHead(m)
     THEN DrainQueue(AfterCallback(m, err), a, t, FALSE)
     ELSE /\ acks' = a
          /\ timers' = t
          /\ UNCHANGED <<queue, ids, out, flags>>
  /\ outcomes' = IF Settles(m, err) /\ Head(queue).ack
                 THEN Told(outcomes, m, IF err THEN "err" ELSE "ok")
                 ELSE outcomes

(***************************************************************************)
(* emit                                                                     *)
(***************************************************************************)
UsesQueue(fl) == Retries > 0 /\ "volatile" \notin fl
InReplay == \E i \in DOMAIN stack : stack[i] = "replay"
ModeOf(fl) == IF "volatile" \in fl THEN "volatile"
              ELSE IF InReplay THEN "replay" ELSE "plain"

NextMessage(fl) ==
  /\ emitted < MaxEmits
  /\ emitted' = emitted + 1
  /\ mode' = [mode EXCEPT ![emitted + 1] = ModeOf(fl)]
  /\ UNCHANGED <<outcomes, delivered, toAck, stack, ioVars, serverVars>>

NewHandler(fl, kind) ==
  [id |-> ids, m |-> emitted + 1, queued |-> FALSE,
   kind |-> IF "timeout" \in fl \/ AckTimeout THEN "timed"
            ELSE IF kind = "fn" THEN "plain" ELSE "promise"]

(* Where the packet goes: it is discarded, written or buffered.            *)
(* transport.writable is read from whatever engine the manager last made.  *)
Route(fl, p) ==
  IF "volatile" \in fl /\ ~writable THEN UNCHANGED <<out, sendBuffer>>
  ELSE IF connected THEN Write(<<p>>) /\ UNCHANGED sendBuffer
  ELSE sendBuffer' = Append(sendBuffer, p) /\ UNCHANGED out

(* socket.<mods>.emit(...): the message is sent at once. *)
EmitDirect(mods, kind) ==
  LET fl == flags \cup mods
      id == IF kind = "none" THEN NoId ELSE ids
  IN  /\ ~UsesQueue(fl)
      /\ NextMessage(fl)
      /\ IF kind = "none" THEN UNCHANGED ackVars
                          ELSE Register(acks, timers, NewHandler(fl, kind))
      /\ Route(fl, EventPacket(id, emitted + 1))
      /\ flags' = NoFlags
      /\ UNCHANGED <<connected, subs, pid, recovered, receiveBuffer, queue>>

(* socket.<mods>.emit(...) with retries: _addToQueue.  The flags set by    *)
(* the modifiers are reset only if the message is sent at once.            *)
NewEntry(fl, kind) ==
  [m |-> emitted + 1, tryCount |-> 0, pending |-> FALSE,
   timeout |-> "timeout" \in fl, ack |-> kind = "fn"]

EmitQueued(mods, kind) ==
  LET fl == flags \cup mods
      q  == Append(queue, NewEntry(fl, kind))
  IN  /\ UsesQueue(fl)
      /\ NextMessage(fl)
      /\ IF SendsHead(q, FALSE)
         THEN DrainQueue(q, acks, timers, FALSE)
         ELSE /\ queue' = q
              /\ flags' = fl
              /\ UNCHANGED <<ackVars, out>>
      /\ UNCHANGED <<connected, subs, pid, recovered, sendBuffer, receiveBuffer>>

Emit == \E mods \in SUBSET Modifiers, kind \in AckKinds :
           EmitDirect(mods, kind) \/ EmitQueued(mods, kind)

(* The timer of _registerAckCallback. *)
FaultKeepHandler(h) == acks
Unbuffer(id) ==
  LET Is(i) == sendBuffer[i].id = id
  IN  IF \E i \in DOMAIN sendBuffer : Is(i)
      THEN RemoveAt(sendBuffer, CHOOSE i \in DOMAIN sendBuffer : Is(i))
      ELSE sendBuffer
Without(h) == {g \in acks : g.id # h.id}

TimerFires(h) ==
  LET a == Without(h)
      t == timers \ {h}
  IN  /\ stack = <<>>
      /\ h \in timers
      /\ sendBuffer' = Unbuffer(h.id)
      /\ IF h.queued
         THEN QueueCallback(h.m, TRUE, a, t)
         ELSE /\ acks' = a
              /\ timers' = t
              /\ outcomes' = Told(outcomes, h.m, "err")
              /\ UNCHANGED <<queue, ids, out, flags>>
      /\ UNCHANGED <<connected, subs, pid, recovered, receiveBuffer, stack,
                     ioVars, serverVars, emitted, mode, delivered, toAck>>

(***************************************************************************)
(* Connection: the user's side                                              *)
(***************************************************************************)
(* Manager.open when the manager is closed. *)
NewEngine ==
  /\ engines < MaxEngines
  /\ engines' = engines + 1
  /\ io' = "opening"
  /\ eng' = "opening"
  /\ writable' = FALSE
  /\ out' = <<>>
  /\ inb' = <<>>
  /\ srv' = "none"

(* connect(): subscribes to the manager, opens it unless it is about to    *)
(* reconnect, and asks for the namespace if the manager is open.           *)
Connect ==
  /\ ~connected
  /\ subs' = TRUE
  /\ \/ /\ ~reconnecting /\ io = "closed"
        /\ NewEngine
     \/ /\ io = "open" /\ Len(out) + Len(inb) < MaxWire /\ ids < MaxIds
        /\ Write(<<Control("CONNECT")>>)
        /\ UNCHANGED <<io, eng, engines, writable, inb, srv>>
     \/ /\ io = "opening" \/ (io = "closed" /\ reconnecting)
        /\ UNCHANGED <<io, eng, engines, writable, out, inb, srv>>
  /\ UNCHANGED <<connected, pid, recovered, flags, ackVars, sendBuffer,
                 receiveBuffer, queue, stack, suspended, reconnecting,
                 received, serverEvents, userVars>>

(* onclose: the "disconnect" listeners run, _clearAcks follows. *)
OnClose(times) ==
  /\ connected' = (connected /\ times = 0)
  /\ stack' = stack \o [i \in 1 .. times |-> "disconnect"]

(* destroy() when this is the last active socket (`last') or not.  Manager *)
(* ._close closes the engine: `yields' tells whether that needs a request. *)
(* caller names the code to resume when it does; fires is how often        *)
(* that code calls onclose.                                                *)
MayYield(yields) == IF yields THEN eng \in {"opening", "open"} ELSE eng # "open"

Destroy(last, yields, caller, fires) ==
  /\ subs' = FALSE
  /\ IF ~last
     THEN OnClose(fires) /\ UNCHANGED <<ioVars, inb>>
     ELSE /\ MayYield(yields)
          /\ reconnecting' = FALSE
          /\ inb' = <<>>
          /\ IF yields
             THEN /\ eng' = "closing"
                  /\ suspended' = Append(suspended, caller)
                  /\ UNCHANGED <<io, connected, stack>>
             ELSE /\ io' = "closed"
                  /\ eng' = IF eng = "opening" THEN "none" ELSE eng
                  /\ OnClose(fires)
                  /\ UNCHANGED suspended
          /\ UNCHANGED <<engines, writable>>

(* disconnect() *)
Disconnect ==
  /\ \E last, yields \in BOOLEAN :
        Destroy(last, yields, "client", IF connected THEN 1 ELSE 0)
  /\ IF connected THEN Write(<<Control("DISCONNECT")>>) ELSE UNCHANGED out
  /\ UNCHANGED <<pid, recovered, flags, ackVars, sendBuffer, receiveBuffer,
                 queue, srv, received, serverEvents, userVars>>

(* The engine is closed: the rest of Manager.onclose runs, then the rest   *)
(* of the caller of destroy().  The manager's "close" event reaches the    *)
(* socket only if it has subscribed again in the meantime.                 *)
CloseFires(caller) ==
  (IF subs THEN 1 ELSE 0)
  + (CASE caller = "client" -> IF connected /\ ~subs THEN 1 ELSE 0
       [] caller = "server" -> 1
       [] OTHER             -> 0)

CloseReturns(i) ==
  /\ stack = <<>>
  /\ i \in DOMAIN suspended
  /\ suspended' = RemoveAt(suspended, i)
  /\ io' = "closed"
  /\ IF eng = "closing"
     THEN eng' = "none" /\ out' = <<>> /\ srv' = "none" /\ UNCHANGED reconnecting
     ELSE UNCHANGED <<eng, out, srv>> /\ reconnecting' \in {TRUE, reconnecting}
  /\ OnClose(CloseFires(suspended[i]))
  /\ UNCHANGED <<subs, pid, recovered, flags, ackVars, sendBuffer, receiveBuffer,
                 queue, engines, writable, inb, received, serverEvents, userVars>>

(***************************************************************************)
(* Connection: the manager's events                                         *)
(***************************************************************************)
(* The engine opens; a subscribed socket asks for its namespace. *)
EngineOpens ==
  /\ stack = <<>>
  /\ eng = "opening"
  /\ io' = "open"
  /\ eng' = "open"
  /\ writable' = TRUE
  /\ reconnecting' = FALSE
  /\ IF subs THEN Write(<<Control("CONNECT")>>) ELSE UNCHANGED out
  /\ UNCHANGED <<socketVars, stack, suspended, engines, serverVars, userVars>>

(* The engine fails to open (error or timeout); the manager may retry.     *)
(* The socket's onerror only emits "connect_error".                        *)
EngineFails ==
  /\ stack = <<>>
  /\ eng = "opening"
  /\ io' = "closed"
  /\ eng' = "none"
  /\ reconnecting' \in BOOLEAN
  /\ UNCHANGED <<socketVars, stack, suspended, engines, writable, out,
                 serverVars, userVars>>

(* The reconnection timer of the manager. *)
ManagerReconnects ==
  /\ stack = <<>>
  /\ reconnecting
  /\ io = "closed"
  /\ NewEngine
  /\ UNCHANGED <<socketVars, stack, suspended, reconnecting, received,
                 serverEvents, userVars>>

(* An engine that failed (error, ping timeout) is closing: its transport   *)
(* sends a last request before "close" is emitted.                         *)
EngineStalls ==
  /\ stack = <<>>
  /\ eng = "open"
  /\ eng' = "closing"
  /\ inb' = <<>>
  /\ UNCHANGED <<socketVars, stack, suspended, io, engines, writable,
                 reconnecting, out, srv, received, serverEvents, userVars>>

(* The manager's "close" event after the engine was lost. *)
EngineLost ==
  /\ stack = <<>>
  /\ io = "open"
  /\ suspended = <<>>
  /\ eng \in {"open", "closing"}
  /\ io' = "closed"
  /\ eng' = "none"
  /\ out' = <<>>
  /\ inb' = <<>>
  /\ srv' = "none"
  /\ reconnecting' \in BOOLEAN
  /\ OnClose(IF subs THEN 1 ELSE 0)
  /\ UNCHANGED <<subs, pid, recovered, flags, ackVars, sendBuffer, receiveBuffer,
                 queue, suspended, engines, writable, received, serverEvents,
                 userVars>>

(***************************************************************************)
(* onpacket                                                                 *)
(***************************************************************************)
Arrives(type) ==
  /\ stack = <<>>
  /\ eng = "open"
  /\ inb # <<>>
  /\ Head(inb).type = type
  /\ subs

Consume == inb' = Tail(inb)

(* The user gets the events of s, and an ack callback for those with an id. *)
FaultIds(s) == [i \in 1 .. Len(s) |-> s[i].id]
EventNumbers(s) == [i \in 1 .. Len(s) |-> s[i].m]
Deliver(s) ==
  /\ delivered' = delivered \o EventNumbers(s)
  /\ toAck' = toAck \cup {s[i].m : i \in {j \in DOMAIN s : s[j].id # NoId}}

(* emitBuffered after the buffered events, then the "connect" listeners. *)
FaultKeepSendBuffer == Write(sendBuffer) /\ UNCHANGED sendBuffer
FaultFlushBackwards ==
  /\ Write([i \in DOMAIN sendBuffer |-> sendBuffer[Len(sendBuffer) + 1 - i]])
  /\ sendBuffer' = <<>>
FaultFlushShort ==
  /\ Write(SubSeq(sendBuffer, 1, Len(sendBuffer) - 1))
  /\ sendBuffer' = <<>>
FlushSendBuffer == Write(sendBuffer) /\ sendBuffer' = <<>>

(* onconnect: the listeners of the buffered events run first. *)
OnConnect ==
  /\ Arrives("CONNECT")
  /\ Consume
  /\ recovered' = (Head(inb).pid # NewPid /\ pid = Head(inb).pid)
  /\ pid' = Head(inb).pid
  /\ connected' = TRUE
  /\ Deliver(receiveBuffer)
  /\ IF receiveBuffer = <<>>
     THEN FlushSendBuffer /\ stack' = <<"connect">>
     ELSE stack' = <<"replay">> /\ UNCHANGED <<out, sendBuffer>>
  /\ UNCHANGED <<subs, flags, ackVars, receiveBuffer, queue, ioVars, srv, received,
                 serverEvents, emitted, mode, outcomes>>

Top == stack[Len(stack)]
Below == SubSeq(stack, 1, Len(stack) - 1)

FaultKeepReceiveBuffer == UNCHANGED receiveBuffer
EmptyReceiveBuffer == receiveBuffer' = <<>>

(* The listeners of the buffered events have returned. *)
ReplayReturns ==
  /\ stack # <<>> /\ Top = "replay"
  /\ stack' = Append(Below, "connect")
  /\ EmptyReceiveBuffer
  /\ FlushSendBuffer
  /\ UNCHANGED <<connected, subs, pid, recovered, flags, ackVars, queue, ioVars,
                 serverVars, userVars>>

(* The "connect" listeners have returned: _drainQueue(true). *)
ConnectReturns ==
  /\ stack # <<>> /\ Top = "connect"
  /\ stack' = Below
  /\ DrainQueue(queue, acks, timers, TRUE)
  /\ UNCHANGED <<connected, subs, pid, recovered, sendBuffer, receiveBuffer, ioVars,
                 serverVars, userVars>>

(* onevent *)
OnEvent ==
  /\ Arrives("EVENT")
  /\ Consume
  /\ IF connected
     THEN Deliver(<<Head(inb)>>) /\ UNCHANGED receiveBuffer
     ELSE receiveBuffer' = Append(receiveBuffer, Head(inb)) /\ UNCHANGED <<delivered, toAck>>
  /\ UNCHANGED <<connected, subs, pid, recovered, flags, ackVars, sendBuffer, queue,
                 ioVars, stack, out, srv, received, serverEvents, emitted, mode, outcomes>>

(* The callback made by ack(): it answers an event once. *)
UserAcks(n) ==
  /\ n \in toAck
  /\ toAck' = toAck \ {n}
  /\ Write(<<AckPacket(n, 0)>>)
  /\ UNCHANGED <<socketVars, ioVars, stack, serverVars, emitted, mode, outcomes,
                 delivered>>

(* ack(...data): the queue's callback takes the first value of the answer   *)
(* for an error.  An answer whose first value is null counts as empty.      *)
TakenForError(p) == p.values > 0

(* onack: an acknowledgement whose handler is not a function is ignored. *)
OnAck ==
  /\ Arrives("ACK")
  /\ Consume
  /\ \/ \E h \in acks :
          /\ h.id = Head(inb).id /\ IsFunction(h)
          /\ IF h.queued
             THEN QueueCallback(h.m, TakenForError(Head(inb)), acks \ {h}, timers)
             ELSE /\ acks' = acks \ {h}
                  /\ outcomes' = Told(outcomes, h.m, "ok")
                  /\ UNCHANGED <<timers, queue, ids, out, flags>>
     \/ /\ ~\E h \in acks : h.id = Head(inb).id /\ IsFunction(h)
        /\ UNCHANGED <<acks, timers, queue, ids, out, flags, outcomes>>
  /\ UNCHANGED <<connected, subs, pid, recovered, sendBuffer, receiveBuffer, stack,
                 ioVars, srv, received, serverEvents, emitted, mode, delivered, toAck>>

(* ondisconnect and the CONNECT_ERROR case both destroy the socket first. *)
OnRefused(type, caller, fires) ==
  /\ Arrives(type)
  /\ \/ /\ Destroy(TRUE, TRUE, caller, fires)
     \/ /\ subs' = FALSE
        /\ OnClose(fires)
        /\ Consume
        /\ UNCHANGED ioVars
  /\ UNCHANGED <<pid, recovered, flags, ackVars, sendBuffer, receiveBuffer, queue, out,
                 srv, received, serverEvents, userVars>>

OnDisconnect   == OnRefused("DISCONNECT", "server", 1)
OnConnectError == OnRefused("CONNECT_ERROR", "error", 0)

(* A packet for a socket that has no subscription is not seen by it. *)
Unheard ==
  /\ stack = <<>> /\ eng = "open" /\ inb # <<>> /\ ~subs
  /\ Consume
  /\ UNCHANGED <<socketVars, ioVars, stack, out, srv, received, serverEvents, userVars>>

(* The "disconnect" listeners have returned: _clearAcks.                   *)
Dropped == {h \in acks : ~IsBuffered(h)}
Failed  == {h \in Dropped : WithError(h)}
FaultKeepTimers == timers
Cleared == timers \ Failed
HeadFails == \E h \in Failed : h.queued /\ IsHead(h.m)

DisconnectReturns ==
  /\ stack # <<>> /\ Top = "disconnect"
  /\ stack' = Below
  /\ acks' = acks \ Dropped
  /\ timers' = Cleared
  /\ queue' = IF HeadFails THEN AfterCallback(Head(queue).m, TRUE) ELSE queue
  /\ outcomes' = [m \in Messages |->
        IF \/ \E h \in Failed : h.m = m /\ ~h.queued
           \/ HeadFails /\ Settles(m, TRUE) /\ Head(queue).ack
        THEN Append(outcomes[m], "err") ELSE outcomes[m]]
  /\ UNCHANGED <<connected, subs, pid, recovered, flags, ids, sendBuffer, receiveBuffer,
                 ioVars, out, serverVars, emitted, mode, delivered, toAck>>

(***************************************************************************)
(* The server (external)                                                    *)
(***************************************************************************)
ServerUp == stack = <<>> /\ eng \in {"open", "closing"}

(* The engine no longer reads while it is closing. *)
Reply(pkts) == inb' = IF eng = "open" THEN inb \o pkts ELSE inb

ServerTakes ==
  /\ ServerUp
  /\ out # <<>>
  /\ out' = Tail(out)
  /\ LET p == Head(out) IN
     \/ /\ p.type = "CONNECT"
        /\ \/ srv' = "joined" /\ \E q \in ServerPids : Reply(<<[p EXCEPT !.pid = q]>>)
           \/ Reply(<<Control("CONNECT_ERROR")>>) /\ UNCHANGED srv
        /\ UNCHANGED received
     \/ /\ p.type = "EVENT" /\ srv = "joined"
        /\ received' = Append(received, p.m)
        /\ \/ p.id # NoId /\ \E n \in AckSizes : Reply(<<AckPacket(p.id, n)>>)
           \/ UNCHANGED inb
        /\ UNCHANGED srv
     \/ /\ p.type = "DISCONNECT"
        /\ srv' = "none"
        /\ UNCHANGED <<inb, received>>
     \/ /\ p.type = "ACK" \/ (p.type = "EVENT" /\ srv = "none")
        /\ UNCHANGED <<inb, srv, received>>
  /\ UNCHANGED <<socketVars, ioVars, stack, serverEvents, userVars>>

(* The server asks for an acknowledgement of every other event. *)
ServerEmits ==
  /\ ServerUp /\ srv = "joined" /\ serverEvents < MaxServerEvents
  /\ serverEvents' = serverEvents + 1
  /\ LET n == serverEvents + 1
     IN  Reply(<<EventPacket(IF n % 2 = 0 THEN n ELSE NoId, n)>>)
  /\ UNCHANGED <<socketVars, ioVars, stack, out, srv, received, userVars>>

ServerDisconnects ==
  /\ ServerUp /\ srv = "joined"
  /\ srv' = "none"
  /\ Reply(<<Control("DISCONNECT")>>)
  /\ UNCHANGED <<socketVars, ioVars, stack, out, received, serverEvents, userVars>>

(***************************************************************************)
(* The specification                                                        *)
(***************************************************************************)
Init ==
  /\ connected = FALSE /\ subs = FALSE
  /\ pid = NewPid /\ recovered = FALSE
  /\ flags = NoFlags
  /\ ids = 0 /\ acks = {} /\ timers = {}
  /\ sendBuffer = <<>> /\ receiveBuffer = <<>> /\ queue = <<>>
  /\ stack = <<>> /\ suspended = <<>>
  /\ io = "closed" /\ eng = "none" /\ engines = 0
  /\ writable = FALSE /\ reconnecting = FALSE
  /\ out = <<>> /\ inb = <<>> /\ srv = "none"
  /\ emitted = 0
  /\ mode = [m \in Messages |-> "unsent"]
  /\ outcomes = [m \in Messages |-> <<>>]
  /\ received = <<>> /\ delivered = <<>>
  /\ serverEvents = 0 /\ toAck = {}

User    == Emit \/ Connect \/ Disconnect \/ (\E n \in toAck : UserAcks(n))
Returns == ReplayReturns \/ ConnectReturns \/ DisconnectReturns
Timers  == \E h \in timers : TimerFires(h)
Io      == \/ EngineOpens \/ EngineFails \/ EngineStalls \/ EngineLost
           \/ ManagerReconnects
           \/ \E i \in DOMAIN suspended : CloseReturns(i)
OnPacket == \/ OnConnect \/ OnEvent \/ OnAck \/ OnDisconnect \/ OnConnectError
            \/ Unheard
Server  == ServerTakes \/ ServerEmits \/ ServerDisconnects

Next == User \/ Returns \/ Timers \/ Io \/ OnPacket \/ Server

Spec == Init /\ [][Next]_vars


(***************************************************************************)
(* Properties                                                               *)
(***************************************************************************)
Frames == {"replay", "connect", "disconnect"}

SocketTypeOK ==
  /\ connected \in BOOLEAN /\ subs \in BOOLEAN
  /\ pid \in Pids /\ recovered \in BOOLEAN
  /\ flags \subseteq {"volatile", "timeout"}
  /\ sendBuffer \in Seq(Packet) /\ receiveBuffer \in Seq(Packet)
  /\ stack \in Seq(Frames)

QueueTypeOK ==
  /\ ids \in Nat /\ acks \subseteq Handler /\ timers \subseteq Handler
  /\ queue \in Seq(QueueEntry)

ManagerTypeOK ==
  /\ io \in {"closed", "opening", "open"}
  /\ eng \in {"none", "opening", "open", "closing"} /\ engines \in Nat
  /\ writable \in BOOLEAN /\ reconnecting \in BOOLEAN
  /\ suspended \in Seq({"client", "server", "error"})

WireTypeOK ==
  /\ out \in Seq(Packet) /\ inb \in Seq(Packet)
  /\ srv \in {"none", "joined"}
  /\ received \in Seq(Nat) /\ serverEvents \in Nat

HistoryTypeOK ==
  /\ emitted \in 0 .. MaxEmits
  /\ mode \in [Messages -> {"unsent", "plain", "volatile", "replay"}]
  /\ outcomes \in [Messages -> Seq({"ok", "err"})]
  /\ delivered \in Seq(Nat) /\ toAck \subseteq Nat

\* Every variable of the socket and of its environment keeps its type,
\* whichever handlers and callbacks run (socket.ts:157-281).
TypeOK == SocketTypeOK /\ QueueTypeOK /\ ManagerTypeOK /\ WireTypeOK /\ HistoryTypeOK

Count(s, m) == Cardinality({i \in DOMAIN s : s[i] = m})
EventsIn(s) == {i \in DOMAIN s : s[i].type = "EVENT"}
Copies(s, m) == Cardinality({i \in EventsIn(s) : s[i].m = m})

\* Without retries a message is transmitted at most once, whatever
\* disconnections, timeouts and reconnections it meets (socket.ts:61,
\* "at-most-once by default"): it is never both buffered and in flight.
AtMostOnce ==
  Retries = 0 =>
    \A m \in Messages : Copies(sendBuffer, m) + Copies(out, m) + Count(received, m) <= 1

\* The acknowledgement callback of a message is called at most once, by the
\* server's answer, the timer or the disconnection, whichever comes first.
CallbackOnce == \A m \in Messages : Len(outcomes[m]) <= 1

\* A callback that reports success belongs to a message the server received.
SuccessMeansReceived ==
  \A m \in Messages : (\E i \in DOMAIN outcomes[m] : outcomes[m][i] = "ok")
                        => \E j \in DOMAIN received : received[j] = m

FirstAt(m, i) == received[i] = m /\ \A j \in 1 .. i - 1 : received[j] # m

\* Messages reach the server in the order they were emitted, across buffers,
\* queue and reconnections.  Volatile messages are exempt, and so are those
\* emitted by a listener that emitBuffered runs: they overtake the buffer.
InOrder ==
  \A i, j \in DOMAIN received :
     (/\ FirstAt(received[i], i) /\ FirstAt(received[j], j) /\ i < j
      /\ mode[received[i]] = "plain" /\ mode[received[j]] = "plain")
     => received[i] < received[j]

\* Events of the server reach the user once and in order, also those that
\* came before CONNECT and waited in receiveBuffer.
DeliveredInOrder ==
  \A i, j \in DOMAIN delivered : i < j => delivered[i] < delivered[j]

\* A connected socket strands nothing in its buffers: they are empty unless
\* the listeners of the buffered events are still running.
NothingStranded ==
  connected /\ ~InReplay => sendBuffer = <<>> /\ receiveBuffer = <<>>

\* A packet leaves sendBuffer only for the wire of the connection, or when
\* its timer runs out (emitBuffered, _registerAckCallback).  The exception is
\* a socket that a listener of a replayed event disconnects: emitBuffered goes
\* on and empties the buffer into a manager that is closed or closing.
NoBufferLoss ==
  [][ connected' /\ subs =>
        \A m \in Messages : Copies(sendBuffer', m) < Copies(sendBuffer, m)
          => \/ Copies(out', m) > Copies(out, m)
             \/ Len(outcomes'[m]) > Len(outcomes[m]) ]_vars

\* The timers that run are those of the timed handlers still registered: a
\* settled message has no timer left, and a timed handler never lacks one.
TimersMatchHandlers == timers = {h \in acks : h.kind = "timed"}

\* The retry queue never stalls: with the socket connected and no handler
\* running, its head has been sent and a handler waits for the answer.
QueueAdvances ==
  connected /\ stack = <<>> /\ queue # <<>> =>
     Head(queue).pending /\ \E h \in acks : h.queued /\ h.m = Head(queue).m

\* A message leaves the retry queue only when the server has received it or
\* its tries are used up: a late or repeated answer never discards another.
Queued(q, m) == \E i \in DOMAIN q : q[i].m = m
NoSilentLoss ==
  [][ \A i \in DOMAIN queue :
        \/ Queued(queue', queue[i].m)
        \/ \E j \in DOMAIN received : received[j] = queue[i].m
        \/ queue[i].tryCount > Retries ]_vars

\* The queue sends one message at a time: those behind the head are untried.
OnlyHeadTried ==
  \A i \in 2 .. Len(queue) : queue[i].tryCount = 0 /\ ~queue[i].pending

(***************************************************************************)
(* What the comments of the code promise and the code does not do           *)
(***************************************************************************)
\* socket.ts:519: the promise of emitWithAck "will be fulfilled when the
\* server acknowledges the event": an ACK for a registered handler settles it.
AckSettles ==
  [][ OnAck => \A h \in acks : h.id = Head(inb).id /\ ~h.queued
                 => outcomes'[h.m] = Append(outcomes[h.m], "ok") ]_vars

\* socket.ts:680: handlers are cleared "since the client will never receive
\* an acknowledgement"; a packet that is still buffered keeps its handler.
BufferedKeepHandler ==
  \A i \in DOMAIN sendBuffer :
     sendBuffer[i].id # NoId => \E h \in acks : h.id = sendBuffer[i].id

\* socket.ts:236: "Packets are sent one by one, each waiting for the server
\* acknowledgement": one connection never carries a message twice.
OneByOne == Retries > 0 => \A m \in Messages : Copies(out, m) <= 1
==============================================================================
