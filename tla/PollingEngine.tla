----------------------------- MODULE PollingEngine -----------------------------
(***************************************************************************)
(* One Engine.IO socket with its Roblox polling transport                   *)
(* (engine.io-client/socket.ts, transport.ts, transports/polling.ts and     *)
(* polling-roblox.ts), against a server that keeps one session.             *)
(*                                                                          *)
(* The whole client is one record, because its handlers call one another:   *)
(* an operator maps the record to what a call leaves of it.  A handler runs *)
(* until it yields, and it yields only in an HTTP request.  `posts' holds   *)
(* the POST requests in flight, each with the thread that waits for it:     *)
(*   loop       the send loop of the transport                              *)
(*   closing    _onClose, inside transport.close()                          *)
(*   timer      the same, when the ping timer called it                     *)
(*   forced     the same, when close() called it                            *)
(*   last       a thread that does nothing more for the engine              *)
(*   cancelled  a thread that was cancelled while it waited                 *)
(* A listener of an engine event may call the engine: user calls interleave *)
(* with the packets of a payload, no other handler does.                    *)
(***************************************************************************)
EXTENDS Naturals, Sequences, SequencesExt

CONSTANTS
  FastRequests, \* may a request be answered before a task.delay(0) fires?
  MaxWrites,    \* bound: messages the client writes
  MaxMessages,  \* bound: messages the server sends
  MaxPings      \* bound: pings the server sends

ASSUME EngineAssumption == FastRequests \in BOOLEAN
ASSUME EngineBounds == MaxWrites \in Nat /\ MaxMessages \in Nat /\ MaxPings \in Nat

VARIABLES
  c,            \* the client: engine and transport
  session,      \* the server's session for this engine
  outbox,       \* packets the server has not handed out
  served,       \* what the server has sent: messages and pings
  inbox,        \* messages the server has received
  faulted,      \* history: a request has failed or a session has been lost
  expired       \* history: the ping timer has run out on a closed transport

serverVars == <<session, outbox, served, inbox>>
history == <<faulted, expired>>
vars == <<c, serverVars, history>>

Packet(type, data) == [type |-> type, data |-> data]
Message(n)  == Packet("message", n)
ClosePacket == Packet("close", 0)
Owners == {"loop", "closing", "timer", "forced", "last", "cancelled"}

Post(owner, packets, sid) == [owner |-> owner, packets |-> packets, sid |-> sid]

(* The engine as its constructor leaves it: the transport exists, and the  *)
(* call of its open() is scheduled.                                         *)
New ==
  [readyState |-> "opening", writeBuffer |-> <<>>, sid |-> FALSE,
   ping |-> FALSE, drainClose |-> FALSE, listeners |-> "none",
   transport |-> "open", boot |-> "new", writable |-> FALSE,
   attached |-> TRUE, closeListener |-> TRUE,
   sendQueue |-> <<>>, running |-> TRUE, posts |-> <<>>, polls |-> 0,
   reading |-> FALSE, payload |-> <<>>,
   written |-> 0, got |-> <<>>, closes |-> 0]

(***************************************************************************)
(* Sending                                                                  *)
(***************************************************************************)
Moved(e) == [e EXCEPT !.sendQueue = @ \o e.writeBuffer, !.writeBuffer = <<>>]

FaultFlushEarly(e) ==
  IF e.readyState = "closed" THEN e
  ELSE IF e.transport = "open" THEN Moved(e)
  ELSE [e EXCEPT !.writeBuffer = <<>>]
(* flush() of the engine: transport.send() drops the packets when the      *)
(* transport is not open, and packets.clear() empties writeBuffer anyway.   *)
EngineFlush(e) ==
  IF e.readyState = "closed" \/ ~e.writable THEN e
  ELSE IF e.transport = "open" THEN Moved(e)
  ELSE [e EXCEPT !.writeBuffer = <<>>]

SendPacket(e, p) ==
  IF e.readyState \in {"closing", "closed"} THEN e
  ELSE EngineFlush([e EXCEPT !.writeBuffer = Append(@, p)])

(* flush() of the transport, called by the thread `owner'.                  *)
TransportFlush(e, owner) ==
  IF e.sendQueue = <<>> THEN e
  ELSE [e EXCEPT !.sendQueue = <<>>,
                 !.posts = Append(@, Post(owner, e.sendQueue, e.sid))]

(***************************************************************************)
(* Closing                                                                  *)
(***************************************************************************)
Live(e) == e.readyState \in {"opening", "open", "closing"}

(* clearTimeoutFn(_pingTimeoutTimer): a timer that has fired and waits in   *)
(* its close request is cancelled like one that has not.                    *)
ClearPing(e) ==
  [e EXCEPT !.ping = FALSE,
            !.posts = [i \in DOMAIN @ |->
                         IF @[i].owner = "timer" THEN [@[i] EXCEPT !.owner = "cancelled"]
                                                 ELSE @[i]]]

FaultUnsetState(e) ==
  [e EXCEPT !.attached = FALSE, !.closeListener = FALSE,
            !.readyState = "idle", !.closes = @ + 1, !.writeBuffer = <<>>]
(* _onClose after transport.close(): ignore the transport, emit "close".   *)
Closed(e) ==
  [e EXCEPT !.attached = FALSE, !.closeListener = FALSE,
            !.readyState = "closed", !.closes = @ + 1, !.writeBuffer = <<>>]

(* onClose of the transport up to its flush: the engine may listen, and its *)
(* _onClose then finds the transport closed.                                *)
ShutTransport(e) ==
  LET d == [e EXCEPT !.transport = "closed"]
  IN IF d.closeListener /\ Live(d) THEN Closed(ClearPing(d)) ELSE d

FaultOnlyOpen(e, owner) ==
  IF e.transport = "open"
  THEN TransportFlush(ShutTransport([e EXCEPT !.sendQueue = Append(@, ClosePacket)]), owner)
  ELSE e
FaultSilentClose(e, owner) ==
  IF e.transport = "closed" THEN e
  ELSE [TransportFlush(ShutTransport(e), owner) EXCEPT !.running = FALSE]
(* transport.close() up to its request, if it makes one: a close packet    *)
(* goes out from an open transport only; the listener that doClose()        *)
(* registers on an opening one never runs.                                  *)
CloseTransport(e, owner) ==
  CASE e.transport = "open" ->
         TransportFlush(ShutTransport([e EXCEPT !.sendQueue = Append(@, ClosePacket)]), owner)
    [] e.transport = "opening" ->
         [TransportFlush(ShutTransport(e), owner) EXCEPT !.running = FALSE]
    [] e.transport = "closed" -> e

FaultKeepCloseListener(e, owner) ==
  IF ~Live(e) THEN e
  ELSE LET d == ClearPing(e)
           s == CloseTransport(d, owner)
       IN IF Len(s.posts) > Len(d.posts) THEN s ELSE Closed(s)
(* _onClose: it waits in transport.close() if that sends anything.          *)
EngineClose(e, owner) ==
  IF ~Live(e) THEN e
  ELSE LET d == [ClearPing(e) EXCEPT !.closeListener = FALSE]
           s == CloseTransport(d, owner)
       IN IF Len(s.posts) > Len(d.posts) THEN s ELSE Closed(s)

(* The close() inside close(): _onClose, then transport.close() again.      *)
ForcedClose(e) ==
  LET s == EngineClose(e, "forced")
  IN IF Len(s.posts) > Len(e.posts) THEN s ELSE CloseTransport(s, "last")

(* What the thread `owner' does once its request has returned.              *)
Resume(e, owner) ==
  CASE owner \in {"closing", "timer"} -> Closed([e EXCEPT !.running = FALSE])
    [] owner = "forced" -> CloseTransport(Closed([e EXCEPT !.running = FALSE]), "last")
    [] owner = "last"   -> [e EXCEPT !.running = FALSE]
    [] OTHER            -> e

(* onError of the transport, then _onError of the engine.                   *)
TransportError(e) == IF e.attached THEN EngineClose(e, "closing") ELSE e

FaultFlushOnly(e) ==
  LET d == [e EXCEPT !.writable = TRUE] IN IF e.attached THEN EngineFlush(d) ELSE d
(* The callback of doWrite, "drain" and _onDrain; a close() that waits for *)
(* the drain stays registered after it has run (Emitter.once).              *)
Drained(e) ==
  LET d == [e EXCEPT !.writable = TRUE]
  IN CASE ~e.attached           -> d
       [] e.writeBuffer # <<>>  -> EngineFlush(d)
       [] OTHER                 -> IF e.drainClose THEN ForcedClose(d) ELSE d

(***************************************************************************)
(* Receiving                                                                *)
(***************************************************************************)
FaultClearOnly(e) == ClearPing(e)
ResetPing(e) == [ClearPing(e) EXCEPT !.ping = TRUE]

(* _onPacket up to the listeners of "open" (onHandshake) or of "ping".      *)
OnPacket(e, p) ==
  IF ~e.attached \/ ~Live(e) THEN e
  ELSE CASE p.type = "open"    -> [e EXCEPT !.sid = TRUE, !.readyState = "open", !.listeners = "open"]
         [] p.type = "ping"    -> [SendPacket(e, Packet("pong", 0)) EXCEPT !.listeners = "ping"]
         [] p.type = "error"   -> EngineClose(e, "closing")
         [] p.type = "message" -> [e EXCEPT !.got = Append(@, p.data)]
         [] OTHER              -> e

(* The callback of onData for a close packet: onClose of the transport.     *)
ServerClosed(e) ==
  LET s == ShutTransport(e)
      f == TransportFlush(s, "last")
  IN IF Len(f.posts) > Len(s.posts) THEN f ELSE [f EXCEPT !.running = FALSE]

OnData(e, p) ==
  IF p.type = "close" THEN ServerClosed(e)
  ELSE LET d == IF e.transport = "opening" /\ p.type = "open"
                THEN [e EXCEPT !.transport = "open", !.writable = TRUE] ELSE e
       IN OnPacket(d, p)

(***************************************************************************)
(* The steps of the client                                                  *)
(***************************************************************************)
Idle == ~c.reading

(* transport.open(), scheduled by _open().                                  *)
OpenTransport ==
  /\ Idle /\ c.boot = "new"
  /\ c' = [c EXCEPT !.transport = "opening", !.boot = "opening"]
  /\ UNCHANGED <<serverVars, history>>

(* doOpen(), scheduled by transport.open().                                 *)
StartPolling ==
  /\ Idle /\ c.boot = "opening"
  /\ c' = [c EXCEPT !.boot = "polling", !.polls = @ + 1]
  /\ UNCHANGED <<serverVars, history>>

(* write() by the user.                                                     *)
Write ==
  /\ c.written < MaxWrites
  /\ c.readyState \in {"opening", "open"}
  /\ c' = SendPacket([c EXCEPT !.written = @ + 1], Message(c.written + 1))
  /\ UNCHANGED <<serverVars, history>>

(* close() by the user or the manager.                                      *)
Close ==
  /\ c.readyState \in {"opening", "open"}
  /\ LET d == [c EXCEPT !.readyState = "closing"]
     IN c' = IF d.writeBuffer # <<>> THEN [d EXCEPT !.drainClose = TRUE] ELSE ForcedClose(d)
  /\ UNCHANGED <<serverVars, history>>

(* One round of the send loop that finds something to send.                 *)
Loop ==
  /\ Idle /\ c.boot # "new" /\ c.running /\ c.sendQueue # <<>>
  /\ \A i \in DOMAIN c.posts : c.posts[i].owner # "loop"
  /\ c' = TransportFlush(c, "loop")
  /\ UNCHANGED <<serverVars, history>>

PingTimeout ==
  /\ Idle /\ c.ping
  /\ c' = EngineClose([c EXCEPT !.ping = FALSE], "timer")
  /\ expired' = (expired \/ c.transport = "closed")
  /\ UNCHANGED <<serverVars, faulted>>

(* The next packet of the payload that onData decodes.                      *)
ReadPacket ==
  /\ c.reading /\ c.listeners = "none" /\ c.payload # <<>>
  /\ c' = OnData([c EXCEPT !.payload = Tail(@)], Head(c.payload))
  /\ UNCHANGED <<serverVars, history>>

(* onOpen and onHandshake after the listeners of "open".                    *)
Opened ==
  /\ c.listeners = "open"
  /\ LET d == EngineFlush([c EXCEPT !.listeners = "none"])
     IN c' = IF d.readyState = "closed" THEN d ELSE ResetPing(d)
  /\ UNCHANGED <<serverVars, history>>

(* _onPacket after the listeners of "ping".                                 *)
Pinged ==
  /\ c.listeners = "ping"
  /\ c' = ResetPing([c EXCEPT !.listeners = "none"])
  /\ UNCHANGED <<serverVars, history>>

FaultPollAnyway(e) == [e EXCEPT !.polls = @ + 1]
PollAgain(e) == IF e.transport = "open" THEN [e EXCEPT !.polls = @ + 1] ELSE e

(* The end of onData.                                                       *)
ReadEnds ==
  /\ c.reading /\ c.listeners = "none" /\ c.payload = <<>>
  /\ c' = PollAgain([c EXCEPT !.reading = FALSE])
  /\ UNCHANGED <<serverVars, history>>

(***************************************************************************)
(* Requests and their answers                                               *)
(***************************************************************************)
Settles == Idle /\ (FastRequests \/ c.boot # "new")

Without(i) == [c EXCEPT !.posts = RemoveAt(@, i)]

(* A thread that was cancelled sees nothing of the answer.                  *)
PostOk(i) ==
  IF c.posts[i].owner = "cancelled" THEN Without(i)
  ELSE Resume(Drained(Without(i)), c.posts[i].owner)
PostError(i) ==
  IF c.posts[i].owner = "cancelled" THEN Without(i)
  ELSE Resume(TransportError(Without(i)), c.posts[i].owner)

Messages(packets) == SelectSeq(packets, LAMBDA p : p.type = "message")

(* What the server does with a payload.                                     *)
Receives(packets) ==
  LET new == Messages(packets)
  IN /\ inbox' = inbox \o [i \in DOMAIN new |-> new[i].data]
     /\ session' = IF ClosePacket \in ToSet(packets) THEN "closed" ELSE session

PostAccepted(i) ==
  /\ Settles /\ c.posts[i].sid /\ session = "open"
  /\ Receives(c.posts[i].packets)
  /\ c' = PostOk(i)
  /\ UNCHANGED <<outbox, served, history>>

(* The server has no session for the request.                               *)
PostRefused(i) ==
  /\ Settles /\ ~(c.posts[i].sid /\ session = "open")
  /\ c' = PostError(i)
  /\ faulted' = TRUE
  /\ UNCHANGED <<serverVars, expired>>

(* The request, or the answer to it, is lost.                               *)
PostLost(i) ==
  /\ Settles
  /\ \/ UNCHANGED <<session, inbox>>
     \/ c.posts[i].sid /\ session = "open" /\ Receives(c.posts[i].packets)
  /\ c' = PostError(i)
  /\ faulted' = TRUE
  /\ UNCHANGED <<outbox, served, expired>>

FaultPollEarly(payload) == [c EXCEPT !.reading = TRUE, !.payload = payload]
Reading(payload) == [c EXCEPT !.polls = @ - 1, !.reading = TRUE, !.payload = payload]

Handshake ==
  /\ Settles /\ c.polls > 0 /\ ~c.sid /\ session = "none"
  /\ session' = "open"
  /\ c' = Reading(<<Packet("open", 0)>>)
  /\ UNCHANGED <<outbox, served, inbox, history>>

PollAnswered ==
  /\ Settles /\ c.polls > 0 /\ c.sid /\ outbox # <<>>
  /\ outbox' = <<>>
  /\ c' = Reading(outbox)
  /\ UNCHANGED <<session, served, inbox, history>>

(* The last poll of a session, when the client has closed it.               *)
PollReleased ==
  /\ Settles /\ c.polls > 0 /\ c.sid /\ outbox = <<>> /\ session = "closed"
  /\ c.transport = "closed"
  /\ c' = Reading(<<Packet("noop", 0)>>)
  /\ UNCHANGED <<serverVars, history>>

(* An answer that decodes to an error packet.                               *)
PollGarbled ==
  /\ Settles /\ c.polls > 0 /\ c.sid /\ outbox # <<>>
  /\ outbox' = <<>> /\ faulted' = TRUE
  /\ c' = Reading(<<Packet("error", 0)>>)
  /\ UNCHANGED <<session, served, inbox, expired>>

(* The poll is refused or fails, with or without what the server had for it. *)
PollLost ==
  /\ Settles /\ c.polls > 0
  /\ outbox' \in {outbox, <<>>} /\ faulted' = TRUE
  /\ c' = TransportError([c EXCEPT !.polls = @ - 1])
  /\ UNCHANGED <<session, served, inbox, expired>>

(***************************************************************************)
(* The server                                                               *)
(***************************************************************************)
ServerSends ==
  /\ session = "open" /\ served.messages < MaxMessages
  /\ served' = [served EXCEPT !.messages = @ + 1]
  /\ outbox' = Append(outbox, Message(served.messages + 1))
  /\ UNCHANGED <<c, session, inbox, history>>

ServerPings ==
  /\ session = "open" /\ served.pings < MaxPings
  /\ served' = [served EXCEPT !.pings = @ + 1]
  /\ outbox' = Append(outbox, Packet("ping", 0))
  /\ UNCHANGED <<c, session, inbox, history>>

ServerCloses ==
  /\ session = "open"
  /\ session' = "closed"
  /\ outbox' = Append(outbox, ClosePacket)
  /\ UNCHANGED <<c, served, inbox, history>>

(* The server drops the session without a word: its own ping timeout.       *)
ServerForgets ==
  /\ session = "open"
  /\ session' = "closed" /\ outbox' = <<>> /\ faulted' = TRUE
  /\ UNCHANGED <<c, served, inbox, expired>>

Init ==
  /\ c = New
  /\ session = "none" /\ outbox = <<>> /\ inbox = <<>>
  /\ served = [messages |-> 0, pings |-> 0]
  /\ faulted = FALSE /\ expired = FALSE

PostEnds(i) == PostAccepted(i) \/ PostRefused(i) \/ PostLost(i)
PollEnds == Handshake \/ PollAnswered \/ PollReleased \/ PollGarbled \/ PollLost

Next ==
  \/ OpenTransport \/ StartPolling \/ Write \/ Close \/ Loop \/ PingTimeout
  \/ ReadPacket \/ Opened \/ Pinged \/ ReadEnds
  \/ \E i \in DOMAIN c.posts : PostEnds(i)
  \/ PollEnds
  \/ ServerSends \/ ServerPings \/ ServerCloses \/ ServerForgets

(* The scheduler resumes every thread it owes a turn to, the send loop      *)
(* never stops while it runs, a POST is answered or fails, and so is a poll *)
(* that the server has something for.  A ping timer need not run out while  *)
(* the transport is open: the server pings.                                 *)
Fairness ==
  /\ WF_vars(OpenTransport) /\ WF_vars(StartPolling) /\ WF_vars(Loop)
  /\ WF_vars(ReadPacket) /\ WF_vars(Opened) /\ WF_vars(Pinged) /\ WF_vars(ReadEnds)
  /\ WF_vars(PingTimeout /\ c.transport = "closed")
  /\ WF_vars(\E i \in DOMAIN c.posts : PostEnds(i))
  /\ WF_vars(Handshake \/ PollAnswered \/ PollReleased \/ (PollLost /\ session = "closed"))

Spec == Init /\ [][Next]_vars /\ Fairness

(***************************************************************************)
(* Properties                                                               *)
(***************************************************************************)
(* The state is well formed. *)
TypeOK ==
  /\ c.readyState \in {"opening", "open", "closing", "closed"}
  /\ c.transport \in {"opening", "open", "closed"}
  /\ c.boot \in {"new", "opening", "polling"}
  /\ c.listeners \in {"none", "open", "ping"}
  /\ \A i \in DOMAIN c.posts : c.posts[i].owner \in Owners
  /\ \A b \in {c.sid, c.ping, c.drainClose, c.writable, c.attached,
               c.closeListener, c.running, c.reading, faulted, expired} : b \in BOOLEAN
  /\ session \in {"none", "open", "closed"}
  /\ c.polls \in Nat /\ c.closes \in Nat /\ c.written \in 0 .. MaxWrites

(* At most one poll request is in flight, and none while a payload is read *)
(* (_poll, onData): two polls could return their payloads out of order.     *)
OnePoll == c.polls + (IF c.reading THEN 1 ELSE 0) <= 1

Waiting == {c.posts[i].owner : i \in DOMAIN c.posts}

(* A closed engine has closed its transport for good ("ensure transport    *)
(* won't stay open", _onClose).                                             *)
StaysShut ==
  c.readyState = "closed" /\ Waiting \cap {"closing", "timer", "forced"} = {}
    => c.transport = "closed"

(* When a handshaken engine has closed and its requests are over, the       *)
(* server knows, unless something was lost (doClose, flush in onClose).     *)
CloseIsTold ==
  c.readyState = "closed" /\ c.sid /\ c.posts = <<>> /\ ~faulted => session = "closed"

(* An engine that is open and not closing is watched by a ping timer        *)
(* (onHandshake, _resetPingTimeout): a silent server cannot hold it open.   *)
PingWatched ==
  c.readyState = "open" /\ c.transport = "open" /\ c.listeners = "none" => c.ping

(* The engine emits "close" once (_onClose), with three exceptions: a      *)
(* request failed, close() waited for a drain, or the ping timer, which     *)
(* onHandshake sets even after an "open" listener has closed the engine,    *)
(* ran out while the close request was in flight.                           *)
CloseOnce == ~faulted /\ ~c.drainClose /\ ~expired => c.closes <= 1

(* A closed engine stays closed and hears nothing, and no answer makes it   *)
(* poll again (_onPacket, onHandshake and onData after removeAllListeners). *)
(* It may make its first poll: open() of the transport only schedules       *)
(* doOpen(), which looks at no state, so an engine that closes in between   *)
(* still opens with one poll, that of c.boot = "opening".                   *)
ClosedIsFinal ==
  [][c.readyState = "closed"
       => /\ c'.readyState = "closed" /\ c'.got = c.got
          /\ c'.polls > c.polls => c.boot = "opening"]_vars

(* What was written is received, or the engine closes (the send loop).      *)
EventuallySent ==
  \A n \in 1 .. MaxWrites :
    c.written >= n ~> n \in ToSet(inbox) \/ c.readyState = "closed"

(***************************************************************************)
(* The abstract engine                                                      *)
(***************************************************************************)
(* For its user an engine is closing from the call of close(), and when its *)
(* transport is closed or a thread closes it: readyState says so late, and  *)
(* a handshake may set it back to "open".                                   *)
Closing ==
  \/ c.readyState = "closing" \/ c.drainClose \/ c.transport = "closed"
  \/ Waiting \cap {"closing", "timer", "forced"} # {}
LifeState == IF c.readyState # "closed" /\ Closing THEN "closing" ELSE c.readyState

Lifecycle == INSTANCE EngineLifecycle WITH
  state <- LifeState, written <- c.written, arrived <- inbox,
  served <- served.messages, heard <- c.got

(* The engine with its two request loops, its two queues and its listeners  *)
(* is an engine as EngineLifecycle describes it: it never comes back from   *)
(* a close, both streams keep their order, and its end comes when it is due.*)
Implements == Lifecycle!Spec
=============================================================================
