# A verification project for the Roblox Socket.IO client

The repository is a port of `socket.io-client` and `engine.io-client` to
roblox-ts (`src/src`). It has no tests and one document, `src/README.MD`; its
code is upstream's with changes marked `ROBLOXPATCH`. These modules model what
the client does as a concurrent program. Line numbers refer to
`src/src/...`: SOCK is `socket.io-client/socket.ts`, MGR
`socket.io-client/manager.ts`, ENG `engine.io-client/socket.ts`, TRN
`engine.io-client/transport.ts`, POL and ROB `transports/polling.ts` and
`transports/polling-roblox.ts` there, EMI `component-emitter.ts`.

## The runtime

The program runs as Luau coroutines on one scheduler. A thread runs until it
yields, and it yields at few places: an HTTP request (`RequestAsync` in
ROB:86-115), the waits of the send loop and of the request limiter, and the
user's listeners. Three facts shape every model.

1. **Listeners re-enter.** `emitReserved` (EMI:189-208) runs all listeners of an
   event in one new thread before the emitting handler goes on. A listener may
   call the library, so a handler is atomic only up to the event it emits. If
   a listener yields, the handler goes on and the rest of the listeners run later.
2. **Closing yields.** An engine that is open sends a close packet, and
   `transport.close()` waits for that request (ROB:57-61). Whoever called it,
   `_onClose` of the engine, `onclose` of the manager, `disconnect()` of the
   socket, is suspended in the middle, and everything else goes on.
3. **Once listeners stay.** `emitReserved` calls the function of a once listener
   directly (EMI:199-201), so that its `off` never runs.

## Inventory

| Component | State | Operations | Talks to |
|---|---|---|---|
| Namespace socket (SOCK) | `connected`, `subs`, `id`, `_pid`, `recovered`, `sendBuffer`, `receiveBuffer`, `_queue`, `acks`, `ids`, `flags` | `connect`, `emit`, `emitWithAck`, `volatile`, `timeout`, `disconnect`; handlers of the packets of the server | the manager (`_packet`, `open`, `_destroy`; its `open`, `packet`, `error`, `close` events) and the user's listeners |
| Manager (MGR) | `_readyState`, `engine`, `subs`, `_reconnecting`, `skipReconnect`, `_reconnection`, `backoff`, `nsps` | `open`, `socket`, `_destroy`, `_close`, `reconnection(v)`; `onopen`, `ondata`, `onclose`, `reconnect` | the engine (`write`, `close`; its events), the decoder, the sockets |
| Engine socket (ENG) | `readyState`, `writeBuffer`, the ping timer, the session id | `write`, `close`; `onHandshake`, `_onPacket`, `_onDrain`, `_onClose`, `_onError` | the transport (`open`, `send`, `close`; its events) |
| Polling transport (TRN, POL, ROB) | `readyState`, `writable`, `sendQueue`, `running` | `open`, `send`, `close`; the poll loop, the send loop | HTTP requests to the server |
| Request limiter (ROB:9-41) | `requestTimes`, `resetTime`, shared by all transports | `increment`, `waitCanSend` | all transports |
| Event emitter (EMI) | the lists of listeners | `on`, `once`, `off`, `emit`, `emitReserved` | everything |
| Parsers (`engine.io-parser`, `socket.io-parser`) | none | `encode`, `add`; `encodePayload`, `decodePayload` | manager, transport |
| Connection cache (`socket.io-client/index.ts`, `url.ts`) | `cache`, the options and query tables of the user | `lookup` | manager, engine |
| Backoff (`contrib/backo2.ts`) | `attempts` | `duration`, `reset` | manager |
| URL and query parsers, shims | none | conversions | lookup, engine |

What is hard, and what makes each component correct:

* **Namespace socket.** Five ways to settle an acknowledgement (ACK, timer,
  disconnection, retry, discard) race; buffers are emptied after the listeners that may
  fill or use them; the retry queue must neither stall, skip nor repeat.
  Correct: at most one outcome per emission, success only for what the server
  got, order of messages both ways, nothing left behind in a buffer, no silent
  loss from the queue.
* **Manager.** Reconnection is a loop through timers, listeners and callbacks of
  `open`, broken by the user at any point. Correct: one timer, no more attempts
  than allowed, no engine that nobody wants or knows, never idle while a
  socket is active.
* **Engine and transport.** Two loops, two queues, and closings that overlap
  with everything. Correct: messages in order both ways whatever is lost,
  one poll at a time, closing final, told to the server and carried through.
* **Limiter.** Threads pass the gate before any of them is counted. Correct: a
  bound on the requests of an interval, and nobody waits for ever.
* **Emitter.** Listeners change the list they are called from. Correct: the order of
  registration, no call after `off`, none skipped without a removal.
* **Cache, tables, parsers.** `io()` shares managers by an id and tables by
  reference, and one connection carries several namespaces. Correct: every
  socket reaches the place its call named, every engine uses its own session, and every
  packet the namespace it was written for.
* **Backoff.** A delay that stays a number.

`PROJECT.json` lists every component, and every hazard at its line.

## Modules

### NamespaceSocket

One socket with its manager and engine as far as it sees them, and a server.
Variables have the names of the fields. The conventions:

* `acks` is a set of handlers `[id, m, kind, queued]`; `timers` the timed ones
  whose timer runs; `m` numbers the emissions in the order of the user's calls.
* `stack` holds the handlers that are inside a call of user listeners: `replay`
  (emitBuffered, SOCK:855), `connect` (onconnect, SOCK:845) and `disconnect`
  (onclose, SOCK:674). While it is not empty only user calls and the topmost
  handler run.
* `suspended` holds the calls of `disconnect()` that wait for a close request.
* A packet is a type, an id, the number of its message, and for an acknowledgement how
  many values it carries (`values`, from `AckSizes`): the callback of the retry queue
  takes the first of them for an error (SOCK:555, 826), so `OnAck` is a success of the
  queue only if there is none (`TakenForError`). One whose first value is null counts as empty.
* `io`, `eng`, `engines`, `writable`, `reconnecting` are the manager and its
  engine; `out`, `inb` and `srv` the wire and the server's session.
* `outcomes`, `received`, `delivered`, `emitted`, `mode` are history variables.

Actions are the user's calls (`Emit`, `Connect`, `Disconnect`, `UserAcks`), the
packets (`OnConnect`, `OnEvent`, `OnAck`, `OnDisconnect`, `OnConnectError`), timers
(`TimerFires`), continuations (`ReplayReturns`, `ConnectReturns`,
`DisconnectReturns`, `CloseReturns`), the engine's events and the server.

### Manager

The reconnection loop and the subscriptions. Engines are numbered as they are
made; the last is `this.engine`. `subs` records what `cleanup()` would cancel.
`stack` and `suspended` are as above, for the listeners of the manager's events and for
`onclose` waiting in `engine.close()` (MGR:561).

Most invariants speak of a *patient* user: one who calls `open()` and `connect()` only
when no transition is under way (or when the call opens nothing), and switches
reconnection off only on a manager that is closed and settled. Without patience TLC finds,
in a few steps each, two reconnection timers, three attempts where two are
allowed, and an engine that polls on with nobody listening: all of them start
with a call made while `onclose` is suspended. `NoUnwantedEngine` needs no patience.

### PollingEngine

One engine and its transport as one record `c`, because their handlers call one
another through events: an operator (`EngineClose`, `CloseTransport`,
`Drained`, `OnData`, ...) maps the record to what a call leaves of it. `posts`
are the POST requests in flight with the thread that waits for each, `polls`
the GET in flight; `reading` and `payload` the answer that `onData` is working
through, between whose packets the user may call; `listeners` the event ("open",
"ping") in the middle of which a handler is. `boot` stages the two
`task.delay(0)` between the constructor and the first poll. Cancelling a timer
that has fired and waits in its own close request cancels that thread
(`ClearPing`).

The environment loses requests and answers, garbles payloads, closes or forgets
the session, and answers two posts in flight in either order. With
`FastRequests = FALSE` a request is never answered before a `task.delay(0)`
that was scheduled in the same frame; with `TRUE` `StaysShut` fails in four
states (a closed engine whose transport is opened afterwards), which the code does not
exclude and only timing prevents.

### EngineLifecycle

What an engine promises its manager, as an abstract specification: a life that only goes
forward, two numbered streams, of which the server's may end with a gap but never
go on after one, and an end that comes once it is due. `PollingEngine` implements it
(`Implements`); its refinement mapping reads an engine whose `close()` waits for a
drain as closing although `readyState` may still say "open". `CloseComes` and
`LossNoticed` are conditions of the abstract specification, which the detailed one
derives from its own fairness.

### Emitter

One event of an Emitter. An array of listeners is an object: an emission runs
over the array it began with, `off(ev, l)` splices it under a running emission (and makes the map
forget it if it is empty then, also when it found no `l`),
`off(ev)` empties it in place, and `off()` makes the map forget it. `heap` holds
all arrays, `callbacks` the one of the map. Registrations are numbered, so that
the order of calls can be compared with that of `on()`. Every listener may call
any operation, wait, or throw, which ends the thread of the emission.

### RateLimiter

`RobloxGlobalConfig` and the threads it holds back, over all transports. A thread
that passes `waitCanSend` sends in the same step; `increment` comes when its
request returns, never when it throws. A transport that closes before its scheduled `doOpen()` has
run ("early") still makes its first poll. One `Frame` is one Heartbeat: the handler
and the threads that wait run in either order.

### PacketCodec and Multiplexing

`PacketCodec` has both encodings as operators. A text is a sequence of characters
and JSON an opaque value between brackets; the loops that cut out namespace and
id keep the positions they have in the code. It is all operators, so
`Multiplexing` checks it in use rather than by itself.

`Multiplexing` is what calls of `io()` share. `heap.tables` are the query tables as
objects, `heap.query` the one that each options table of the user refers to: the
engine assigns to it, `lookup` lends it the query of the URL, and `onHandshake` writes the
session id into it. A manager has its registry `nsps`, an engine what was
written to it and what no poll has fetched; all that is written goes through
`EncodePayload` and `DecodePayload`. `heard` and `got` hold what the last step made
the sockets and the server read. What an engine does in detail is `PollingEngine`'s.

## Runs

| Run | Question | Bounds |
|---|---|---|
| `socket_direct` | Messages, events and buffers without retries, over reconnections | 2 emissions, 2 engines, 2 server events: two of each are enough for every reordering and for one message on each side of a reconnection (1.6 million states) |
| `socket_retry` | The retry queue beside volatile and timed emissions | 1 retry (2 tries), 2 emissions, acknowledgements with a value and without: a head and a successor, a try that is left over when the next begins (2.8 million states) |
| `manager` | Reconnection under a user who calls at any time | 2 namespaces, 2 attempts, 5 calls, 7 engines (`Room` keeps a whole reconnection possible; 370 thousand states) |
| `engine` | One engine from its constructor to its end | 2 messages each way, 1 ping: a successor in either direction shows a gap or a swap, and the ping re-arms the timer once (270 thousand states) |
| `emitter` | Emissions over a list that changes | 2 listeners, 4 registrations, 2 emissions: the same function registered twice, two removals under one emission, a forgotten array beside the current one (1.8 million states) |
| `limiter` | The request counter under all transports | 2 transports (6 threads), a limit of 6, an interval of 2 frames: the limit is reached while threads are in flight, and equals the number of threads, the least for which `EveryoneServed` holds (300 thousand states) |
| `multiplex` | Who connects where, with which session, and who hears what | 2 calls of `io()` out of 7 (shared manager, own manager, another port, same namespace, query with and without user info, options and query tables given or shared), 3 engines, 2 waiting packets, ids of one and two digits (1.5 million states) |
| `socket_promise`, `socket_buffered`, `socket_onebyone`, `manager_eager`, `multiplex_url` | Where code and comments disagree, below | the smallest that show it |

`MaxWire` and `MaxIds` bound `NamespaceSocket` through the guard of `connect()`
only, so that no handler is blocked in the middle by a bound. Deadlock is not
checked in `manager`, `emitter`, `multiplex` and `engine`: a closed engine, and
a manager or an emitter whose user makes no more calls, really stop.

### What they show

* `AtMostOnce`, `InOrder`, `DeliveredInOrder`: without retries a message is on at most one
  of the buffer, the wire and the server, and both directions keep their order.
  Emissions from a listener of a replayed event are exempt: they overtake the buffer.
* `CallbackOnce`, `SuccessMeansReceived`, `TimersMatchHandlers`: a callback
  hears one outcome, success is never reported for what the server did not get, and
  no timer survives its handler.
* `QueueAdvances`, `OnlyHeadTried`, `NoSilentLoss`: the retry queue does not stall,
  tries its head only, and drops nothing that was neither received nor out of tries. In
  `socket_retry` the server's acknowledgements carry a value or none, so that a try ends by a
  success, by a timer, by an answer taken for an error (which sends the head again or
  discards it) or with the connection.
* `NothingStranded`, `NoBufferLoss`: connecting leaves nothing in the buffers, and what
  was buffered goes to the wire of the new connection. The exception is a socket
  that a listener of a replayed event disconnects: `emitBuffered` goes on, writes
  to a manager that is closed and forgets the buffer.
* `OneTimer`, `AttemptsBounded`, `NoLeakedEngine`, `NeverIdle`,
  `NoUnwantedEngine`, `ReconnectionEnds`: the manager's promises listed above.
* `Implements`, `OnePoll`: the two request loops keep order, lose nothing in the
  middle while the session lives, and repeat nothing; a close is carried through.
  A post of `close()` that overtakes one of the send loop loses the older messages,
  but it also ends the session, so that the server never sees a gap in a live session.
* `StaysShut`, `CloseIsTold`, `ClosedIsFinal`, `EventuallySent`,
  `PingWatched`: the engine's life ends properly. A closed engine stays closed, hears
  nothing and does not go on polling, but it may make its *first* poll: `open()` of the
  transport only schedules `doOpen()` (TRN:84), which looks at no state, so an
  engine that closes in between polls once all the same (`c.boot = "opening"` in
  `ClosedIsFinal`, the state "early" in `RateLimiter`). What comes back is ignored.
* `CloseOnce`: "close" is emitted once, except when a request fails, when
  `close()` waited for a drain (its once listener stays and runs a second time when the
  close request itself drains), or when a ping timer runs out during the close
  request: `onHandshake` sets one after a listener of "open" has closed the engine,
  because it tests only for "closed" (ENG:502).

* `InRegistrationOrder`, `MissedByRemoval`, `NoneOrphaned`, `OffIsFinal`: an emission
  keeps the order of registration and calls nobody twice; a listener is passed over
  only when one that was called before has been removed; registering never ends up
  in a forgotten array; what `off(ev, ...)` removed is not called any more, not even by an
  emission that is running. The first exception bites in this code: a namespace socket
  that disconnects in its "disconnect" listener removes its subscription to the
  manager's "close", and the next socket of the manager does not hear that event.
* `Overshoot`: an interval sees at most the limit less one, and besides one request
  for each thread of a gate, each flush of a close and each request that threw.
  `EveryoneServed`: a thread that waits gets through, also if it always
  wakes before the reset, provided that the limit is not below the number of threads.
* `OwnSession`: an engine polls without a session until it has its own, and with its
  own from then on. The exceptions are a query table of the user and an options table
  that several calls share with a URL that has user info; without either
  exception TLC finds a poll with the session of another engine.
* `RightPlace`: through cache and tables a socket reaches the scheme, host and path that
  its own call named, over a manager whose URL names the same port, and with the query of
  its call. Which port the engine connects to, and the query of a URL without user info,
  are not part of it: there the code fails (`OwnUrl` below).
* `Routed`: packets of both directions keep namespace, id and data through both encodings
  and reach the sockets of their namespace only. A binary event, which this port no
  longer supports, is heard by "/" as an event without data, and its attachment
  closes the engine with what follows it in the payload.

### Where code and comments disagree

* `socket_promise`: an ACK for `emitWithAck()` or `timeout()` is thrown away, because
  `onack` (SOCK:816) calls functions only and those handlers are tables.
* `socket_buffered`: handlers of buffered packets are dropped at a disconnection,
  because `_clearAcks` compares a string with a number (SOCK:688).
* `socket_onebyone`: with retries, what a "connect" listener emits is sent twice (SOCK:845-846).
* `manager_eager`: `connect()` while the close request is in flight is lost, and
  the manager ends up idle with an active socket (MGR:561, SOCK:369).
* `multiplex_url`: neither port nor query of `io("http://host:3000/?q=...")` arrive. The port
  of a URL is never used, because `opts.port || this.secure ? "443" : "80"` (ENG:295) groups
  as `(opts.port || this.secure) ? ...`: `io("http://localhost:3000")` asks port 443. And
  `parse()` decodes a query only after user info (`contrib/parseuri.ts:101`); without it
  the engine sends neither the query of the URL nor that of the options.

Divergences that passing runs contain, with the property that holds in spite of them or
exempts them:

* With retries, an acknowledgement that carries a value is an error to the queue, because
  `onack` calls `ack(...data)` and the queue's callback takes its first argument for
  `err` (SOCK:826, 555-560): the head is sent again, or discarded with that value as the
  error, although the server has it. Only an empty acknowledgement succeeds
  (`TakenForError`; `NoSilentLoss` and the other properties of the queue hold nevertheless).
* Closing during the handshake leaves a session behind on the server: the close packet is
  deferred to an "open" event that never comes (POL:138-142; `CloseIsTold` speaks
  of handshaken engines).
* A query table given by the user keeps the session id of a dead engine (ENG:496), and
  the next engine polls with it (`OwnSession`).
* A once listener stays (EMI:200), so that `close()` may emit "close" twice (`CloseOnce`).
* "Max request per minute" (ROB:11) is exceeded (`Overshoot`).

Other divergences the models contain and no run is devoted to are in the
hazards of `PROJECT.json`: `recovered` with a server that sends no pid,
modifiers that leak from a queued emission, ACKs before CONNECT, the double
"disconnect" event, `_reconnecting` left set when the user opens the manager
during a pending reconnection.

## Fairness

`NamespaceSocket` has no fairness: its properties are safety. `Manager`:
handlers go on after their listeners, requests end, timers fire (the scheduler
guarantees it); of the server only that an attempt without a timeout ends.
`PollingEngine`: scheduled threads run, the send loop turns, a POST is answered
or fails (HTTP requests time out), and so does a poll the server has an answer
for. A poll without an answer may wait for ever. A ping timer is fair only when the
transport has closed: while it is open the server may reset it each time.
`RateLimiter` assumes that frames go on (Heartbeat fires for ever) and nothing of requests:
one may be in flight for ever. `Emitter` and `Multiplexing` have none, their
properties are safety. Nothing is assumed of the user.

## Proofs

`NamespaceSocket_proofs` proves, for every value of the constants that satisfies the
named assumptions (any number of messages, engines, retries, any kinds of handlers):

* `TypeCorrect`: `Spec => []TypeOK`.
* `CallbackOnceCorrect`: `Spec => []CallbackOnce`.
* `TimersMatchCorrect`: `Spec => []TimersMatchHandlers`.

`CallbackOnce` is not inductive: a message would get a second outcome if a handler that
may report one were still registered after the first. The invariant is `CallbackInv`:

* `HandlersOK`: an id belongs to one handler and is below `ids`; a handler that
  the retry queue did not make is the only one of its message, which has no
  outcome yet; `timers` are the timed handlers.
* `QueueOK`: the messages of the queue are emitted, distinct and without an outcome,
  and every handler of one of them was made by the queue.
* `OutcomesOK`: a message has at most one outcome, and none before it is emitted.

Handlers of an old try stay registered in `acks` after the message has left the
queue, and they do get called: the closure then finds that its message is not
the head (SOCK:557) and stops. That is why the invariant speaks of the queue as
well. One lemma per action shows that it keeps `TypeOK`, and one that it keeps the
rest; lemmas on sequences (removal, extension) and on the shared operators
(`DrainQueue`, `QueueCallback`, `OnClose`, `Destroy`) are stated once.

`NamespaceQueue_proofs` goes on with the retry queue:

* `OnlyHeadTriedCorrect`, `QueueAdvancesCorrect`, `SuccessCorrect`.
* `NoSilentLossCorrect`: `Spec => NoSilentLoss`, an action property.

All of them hold for any `AckSizes`: an acknowledgement calls the callback of the queue with
an error or without one (`AckedCallback`), and the lemmas on that callback are about both.

`QueueAdvances` speaks of moments when no handler runs. In between, what makes it come
true again is the continuation on the stack, so `StackFits` says which there may be: while
the socket is connected there is one, "connect" or "replay", and the drain at its end
sends the head. For success to mean reception, an id must lead from an answer to the
message it answers. `WireFits` says so of each place where an id is: a packet of wire or
buffer carries the number of the handler registered under its id, an ACK under way is for a
message that was received, no id still to come has been used, and no message of the
queue is in the buffer. With it, an answer that takes a message out of the queue is
an answer to that message.

`NamespaceOrder_proofs` proves what is left of the properties of the module:

* `NothingStrandedCorrect`, `InOrderCorrect`, `AtMostOnceCorrect`,
  `DeliveredInOrderCorrect`.
* `NoBufferLossCorrect`: `Spec => NoBufferLoss`, an action property.

The order of `received` is not inductive: what has yet to arrive must be in order too. A
message moves through three sequences, and `Chain(R, r, o, b)` says that whatever stands
earlier in r, then o, then b is related by R to what stands later. The lemmas on chains
(an element is sent or taken, the buffer is flushed, some are lost, one is
added at the end) hold for every R, and each property chooses its R:

| Property | R relates | r, o, b |
| --- | --- | --- |
| `InOrder` | plain messages in the order of emission, others any way | `received`, `out`, `sendBuffer` or, with retries, `queue` |
| `AtMostOnce` | numbers that differ | `received`, `out`, `sendBuffer` |
| `DeliveredInOrder` | increasing numbers | `delivered`, `receiveBuffer`, `inb` |

The relation of `InOrder` is reflexive, because a retry sends the head again (`ChainSend`),
and it ignores messages that bypass the line: volatile ones, and those that a listener of
a replayed event emits, which overtake the buffer (SOCK:858 flushes it after the
listeners). That a plain message finds the buffer empty when it is written at once is
`Stranded`. `receiveBuffer` is left out of the third line while its events are being
delivered (`Waiting`), since emitBuffered empties it only after the listeners
(SOCK:856); `StackFits` says that nothing arrives in the meantime. `NoBufferLoss` needs
`OpenFits` (the engine of a connected socket in a handler is open unless the user closes
it, who gives up the subscription first) and `WireFits`: the timer that runs out takes
out the packet of its own message. TLC checked the three invariants (`CallbackInv`,
`WireInv`, `DeliveryInv`) on the bounds of the runs, with and without retries, before they
were proved.

`RateLimiter_proofs` proves `TypeCorrect` and `OvershootCorrect` for any number of
transports (finitely many), any limit and any interval. `Overshoot` bounds what was
started, which no step compares with the limit: the code compares what was counted. The
invariant `LimitInv` joins the two: a request is counted, in flight or has thrown
(`Accounted`), and those counted or in flight fit the limit with one more for every
thread of a gate and for every close that flushed (`Room`). `Room` holds because a thread
has one request in flight at most (`NotBoth`), and `FlushesKnown` ties a close to its flush.
`Begun` says that the first poll of a transport is the first, closed or not.

`Emitter_proofs` proves, for any set of listeners and any number of registrations and
emissions:

* `TypeCorrect`: `Spec => []TypeOK`.
* `NoneOrphanedCorrect`: `Spec => []NoneOrphaned`, inductive with the types.
* `OrderCorrect`: `Spec => []InRegistrationOrder`.
* `OffIsFinalCorrect`: `Spec => OffIsFinal`, an action property.
* `MissedByRemovalCorrect`: `Spec => []MissedByRemoval`.

Order and finality rest on `ListInv`. `InRegistrationOrder` alone says nothing of what an
emission will call next; `Ahead` does: all that it called was registered before all that
lies ahead of it in its array. Removals keep that because they move entries towards the
emission and never past one another (`Sorted`), registrations because they get the
highest number. `Live` says that what was removed is in no array; off(ev, l) takes
out one entry, so it needs that a registration is in one place only (`Sorted` in an
array, `Distinct` between arrays: the map may have forgotten some that emissions still
run over).

`MissedByRemoval` compares what an emission passed over with the removals that moved
something towards it, and is not inductive: a removal may empty a place that a later
registration fills. `GapInv` counts every place that the emission is past and where it
called nothing that is there now, places past the end of the array included (`Gap`).
A splice before the place of the emission adds one such place at most
(`SplicedGap`, by an injection of the new places into the old), off(ev) one for each
listener that it takes from there (`EmptiedGap`), and nothing else adds any. TLC checked
the three invariants on the bounds of the run.

`Manager_proofs` proves, for any sets of namespaces, any number of attempts, engines and
calls, with and without a timeout of the attempts:

* `TypeCorrect`: `Spec => []TypeOK`.
* `NoUnwantedCorrect`: `Spec => NoUnwantedEngine`, an action property.
* `OneTimerCorrect`, `AttemptsBoundedCorrect`, `NoLeakCorrect`, `NeverIdleCorrect`.

`TypeInv` adds to the types where subscriptions, suspended closes and handlers may point
(`Linked`). `WantedInv` says why no engine is made that nobody wants: while `wanted` is
false either reconnection is skipped or nothing is left that could open one. The other four
are conjuncts of what a patient user's manager looks like (`PatientInv`), and none is
inductive alone: a second timer is excluded by what may be on the stack (`StackInv`),
the attempts are counted only while the loop lives (`LoopInv`), the engine in use is
the last one only if those before it have been closed or suspended (`EnginesInv`), and
`NeverIdle` needs to know who must have given up (`GiveUpInv`). One lemma per
action shows that it keeps them.

`PollingEngine_proofs` proves, for any number of messages and pings each way:

* `TypeCorrect`, `OnePollCorrect`, `PingWatchedCorrect`, `CloseIsToldCorrect`,
  `CloseOnceCorrect`, whether or not a request may be answered before a deferred task.
* `StaysShutCorrect` and `ClosedIsFinalCorrect` (with its exemption of the first poll)
  under `~FastRequests`, which is the value of the run. The hypothesis is needed: with `TRUE` TLC refutes `StaysShut`.

The handlers are maps on the record `c`, so the proof has two layers: a lemma per map
(what it changes, what it leaves alone, and that it keeps what is wired up), and one per
action built from those. `Wired` relates the life of engine and transport, the stage of
the handshake, the send loop and its post, the poll and the payload, and the ping timer;
`Early` is the case in which a fast answer has come before the deferred task.
`CloseIsTold` and `CloseOnce` need `EndFits` on top: who still has a close packet to send
when the engine is not told (`ToldFits`), and who may still emit "close" a second
time (`OnceFits`). TLC checked the invariants of both modules on their runs, that of
`PollingEngine` with `FastRequests` both ways, before they were proved.

`Multiplexing_proofs` proves, for any calls of `io()`, any finite set of options tables
and any number of sockets and engines:

* `TypeCorrect`, `OwnSessionCorrect`, `RightPlaceCorrect`.

All three say where references lead, and those are set in one place and followed in
another. `PlaceInv` holds without the tables: a socket is in the registry of its manager
and every manager was made for some socket (`Registered`), `calls` counts the sockets of
an options table (`Counted`), a cached manager has the id that a socket was looked up
with (`Identified`), and a manager has its engine to itself (`Owned`). `HeapInv` says
what a table holds: an options table refers to one because the user gave it or a
call had user info (`Told`), an engine refers to the table of some options only if its
manager has those (`Referred`), and the query of a call that is the only one with
its options is there, as the code makes it of the URL (`Keyed`). From both follows that managers which are not exempt
from `OwnSession` do not share a table (`Alone`), hence that no other engine's handshake
writes a session where they read theirs (`SessionKnown`).

Each step does one of few things to the sockets (`SameSockets`, `Joins`) and one to the
engines (`EnginesMove`, `Opening`, `Opened`), so each part is proved once for each
of those. A new engine sees the tables after `lookup` may have lent one: `Ready`
says what holds in between. TLC checked all parts on the bounds of `multiplex`
before they were proved.

Only model-checked: `Routed`, whose encoders recurse over texts, the refinement of
`EngineLifecycle`, and all liveness (the prover does not handle fairness or ENABLED).
What `Decimal`, the folds of `PacketCodec` and the SelectSeq of the refinement
mapping compute for every input would need induction over data, which is out of its
reach too.

## Abstractions

Payloads, names and reasons of events are left out; a message is its number. HTTP
requests succeed, fail before or after the server acted, or are answered late.
Catch-all listeners, the auth payload and compression do not touch the state above.
The limiter delays the steps of `PollingEngine` and does not order them, so it
is a module of its own. In `Multiplexing` an answer is handled in one step, because
what handlers do in the middle of one is the subject of the other modules, and
characters of hosts, paths and values are left out; those of namespaces, ids and
separators are not. The stale-connection check of `emit` is taken as the code
computes it: never true, because it compares seconds with milliseconds (ENG:617).

Not modelled: `SocketWithUpgrade` (with polling as the only transport nothing is
probed) and `pause()`; `autoConnect = false` and `io()` without a URL; the delay of
the backoff (floating-point numbers and a random part; its counter is in `Manager`); the
string patterns of the URL parser; the setters of delays and attempts; the
wrappers of HttpService.

## Plan

Done: `NamespaceSocket`, `Manager`, `PollingEngine`, `RateLimiter`, `Emitter` and
`Multiplexing`, with the safety properties of their passing runs proved (all but
`Routed`), the refinement of `EngineLifecycle`, and `PacketCodec`. Left, in order:

1. The refinement of `EngineLifecycle`, as far as steps go.
2. Hazards without a property: modifiers that leak (SOCK:429), `recovered` without a pid
   (SOCK:841), two "disconnect" events (SOCK:871).
