----------------------------- MODULE Multiplexing -----------------------------
(***************************************************************************)
(* What io(url, options) shares: the cache of managers, the options and     *)
(* query tables that managers and engines take by reference, and one        *)
(* connection for the packets of several namespaces.                        *)
(*                                                                          *)
(* Tables are objects.  An options table and an engine refer to a query     *)
(* table by its number, 0 for undefined; whatever the code assigns to it is *)
(* seen through every reference.                                            *)
(*                                                                          *)
(* When a manager reconnects is the subject of Manager, how an engine polls *)
(* that of PollingEngine, what a socket does with a packet that of          *)
(* NamespaceSocket: here an engine opens, answers and ends, and an answer   *)
(* is handled in one step.                                                  *)
(***************************************************************************)
EXTENDS PacketCodec

CONSTANTS
  Calls,      \* the calls of io(): a URL and an options table
  Given,      \* what each options table of the user holds at first
  Outgoing,   \* packets of a socket, without their namespace
  Incoming,   \* packets of the server, without their namespace
  MaxSockets, \* bound: calls of io()
  MaxEngines, \* bound: engines
  MaxPackets  \* bound: packets that wait for a request

(* A URL is its protocol, userInfo (whether it has some), host, port, ""    *)
(* for none, path and query, a set of names.  The options give a path, ""   *)
(* for none, forceNew, multiplex and a query, its names as keys of a table  *)
(* or of a text.  parse() throws at user info without a query, where        *)
(* decode("") meets a name that has no value.                               *)
Urls == {c[1] : c \in Calls}
Options == DOMAIN Given

ASSUME CallsAssumption ==
  /\ IsFiniteSet(Options) /\ \A c \in Calls : c[2] \in Options
  /\ \A o \in Options : /\ Given[o].forceNew \in BOOLEAN
                        /\ Given[o].multiplex \in BOOLEAN
                        /\ Given[o].text \in BOOLEAN
  /\ \A u \in Urls : u.userInfo => u.query # {}

VARIABLES
  cache,    \* the shared manager of each id, 0 for none
  managers, \* url, opts, nsps: the socket of each namespace, 0 for none
  current,  \* the engine of each manager
  sockets,  \* io, nsp, active; history: url, opts
  engines,  \* see Engine
  heap,     \* query: the table each options table refers to; tables: all
  calls,    \* history: to how many calls of io() each options table went
  heard,    \* what this step made the sockets hear, <<>> if nothing
  got       \* what this step made the server read, <<>> if nothing

vars == <<cache, managers, current, sockets, engines, heap, calls, heard, got>>

(***************************************************************************)
(* URLs                                                                     *)
(***************************************************************************)
(* parse(): it returns before the query is decoded if there is no user info *)
QueryKey(u) == IF u.userInfo THEN u.query ELSE {}

(* "make sure we treat `localhost:80` and `localhost` equally" *)
Port(u) ==
  IF u.port # "" THEN u.port
  ELSE CASE u.protocol \in {"http", "ws"}   -> "80"
         [] u.protocol \in {"https", "wss"} -> "443"

Nsp(u) == IF u.path = <<>> THEN Root ELSE u.path
Path(o) == IF Given[o].path = "" THEN "/socket.io" ELSE Given[o].path

FaultId(u, o) == <<u.protocol, u.host, Port(u), "/socket.io">>
Id(u, o) == <<u.protocol, u.host, Port(u), Path(o)>>
Ids == {Id(c[1], c[2]) : c \in Calls}
Namespaces == {Nsp(u) : u \in Urls}

(***************************************************************************)
(* Engines                                                                  *)
(***************************************************************************)
Table(keys) == [text |-> FALSE, keys |-> keys, sid |-> 0]
AddTable(h, keys) == [h EXCEPT !.tables = Append(@, Table(keys))]

(* The engine assigns the decoded query of a URL that has one to the        *)
(* options it was given, even when it was not decoded.                      *)
FromUrl(h, u, o) ==
  IF u.query = {} THEN h
  ELSE IF QueryKey(u) = {} THEN [h EXCEPT !.query[o] = 0]
  ELSE [AddTable(h, QueryKey(u)) EXCEPT !.query[o] = Len(h.tables) + 1]

(* this.opts is a copy, but one that refers to the same query table; text   *)
(* is decoded to a new table, and so is a query that is missing.            *)
IsTable(h, o) == h.query[o] # 0 /\ ~h.tables[h.query[o]].text
QueryFound(h, o) ==
  IF IsTable(h, o) THEN h
  ELSE AddTable(h, IF h.query[o] = 0 THEN {} ELSE h.tables[h.query[o]].keys)
FaultQueryOf(before, h, o) == IF IsTable(before, o) THEN before.query[o] ELSE 1
QueryOf(before, h, o) == IF IsTable(before, o) THEN before.query[o] ELSE Len(h.tables)

Secure(u) == u.protocol \in {"https", "wss"}

(* this.port and _port(): "443" whatever the URL says, which a secure       *)
(* connection leaves out.                                                   *)
AskedPort(u) == IF Secure(u) THEN "" ELSE "443"

Engine(u, o, query) ==
  [scheme |-> IF Secure(u) THEN "https" ELSE "http",
   host |-> u.host, port |-> AskedPort(u), path |-> Path(o),
   query   |-> query,     \* its query table
   state   |-> "opening",
   polling |-> FALSE,
   asked   |-> 0,         \* the session that its poll names, 0 for none
   out     |-> <<>>,      \* packets written to it
   served  |-> <<>>]      \* packets of the server that no poll has fetched

(* new Engine(uri, opts), with the tables as they are in h. *)
NewEngine(h, u, o) ==
  LET given == FromUrl(h, u, o)
      found == QueryFound(given, o)
  IN /\ Len(engines) < MaxEngines
     /\ heap' = found
     /\ engines' = Append(engines, Engine(u, o, QueryOf(given, found, o)))

(* _onClose() forgets what was not sent; nobody listens to a last answer.   *)
Closed(engine) ==
  [engine EXCEPT !.state = "closed", !.polling = FALSE, !.asked = 0,
                 !.out = <<>>, !.served = <<>>]

Ended(e) == engines[e].state \in {"closing", "closed"}
Open(e) == engines[e].state = "open"

(***************************************************************************)
(* io()                                                                     *)
(***************************************************************************)
NewSocket(u, o, m) ==
  [io |-> m, nsp |-> Nsp(u), active |-> TRUE, url |-> u, opts |-> o]

FaultSameNamespace(id, nsp) == FALSE
SameNamespace(id, nsp) == cache[id] # 0 /\ managers[cache[id]].nsps[nsp] # 0
NewConnection(u, o) ==
  Given[o].forceNew \/ ~Given[o].multiplex \/ SameNamespace(Id(u, o), Nsp(u))

Active(m) == {s \in DOMAIN sockets : sockets[s].io = m /\ sockets[s].active}

Packet(nsp, p) == [type |-> p.type, nsp |-> nsp, id |-> p.id, data |-> p.data]
ConnectPacket == [type |-> CONNECT, id |-> Undefined, data |-> Undefined]
DisconnectPacket == [type |-> DISCONNECT, id |-> Undefined, data |-> Undefined]

(* Manager and engine are new; the socket finds the manager opening.        *)
Io(u, o) ==
  LET new == Len(managers) + 1
      s   == Len(sockets) + 1
  IN /\ s <= MaxSockets
     /\ NewConnection(u, o) \/ cache[Id(u, o)] = 0
     /\ cache' = IF NewConnection(u, o) THEN cache ELSE [cache EXCEPT ![Id(u, o)] = new]
     /\ NewEngine(heap, u, o)
     /\ managers' = Append(managers,
          [url |-> u, opts |-> o, nsps |-> [n \in Namespaces |-> IF n = Nsp(u) THEN s ELSE 0]])
     /\ current' = Append(current, Len(engines) + 1)
     /\ sockets' = Append(sockets, NewSocket(u, o, new))
     /\ calls' = [calls EXCEPT ![o] = @ + 1]

(* lookup() gives the decoded query of the URL to options that have none.   *)
Lent(u, o) ==
  IF QueryKey(u) # {} /\ heap.query[o] = 0
  THEN [AddTable(heap, QueryKey(u)) EXCEPT !.query[o] = Len(heap.tables) + 1]
  ELSE heap

Opens(h, m) ==
  /\ NewEngine(h, managers[m].url, managers[m].opts)
  /\ current' = [current EXCEPT ![m] = Len(engines) + 1]

(* connect() of a socket: a manager that was closed is opened, one that     *)
(* reconnects is left to it, and an open one asks for the namespace at once.*)
Connects(h, m, nsp) ==
  LET e == current[m]
      closed == Ended(e) /\ Active(m) = {}
  IN \/ closed /\ Opens(h, m)
     \/ /\ ~closed
        /\ engines' = IF Open(e)
                      THEN [engines EXCEPT ![e].out = Append(@, Packet(nsp, ConnectPacket))]
                      ELSE engines
        /\ heap' = h
        /\ UNCHANGED current

(* A cached manager gets one socket more. *)
IoShared(u, o) ==
  LET m == cache[Id(u, o)]
      s == Len(sockets) + 1
  IN /\ s <= MaxSockets
     /\ m # 0 /\ ~NewConnection(u, o)
     /\ Connects(Lent(u, o), m, Nsp(u))
     /\ managers' = [managers EXCEPT ![m].nsps[Nsp(u)] = s]
     /\ sockets' = Append(sockets, NewSocket(u, o, m))
     /\ calls' = [calls EXCEPT ![o] = @ + 1]
     /\ UNCHANGED cache

Waiting(e) == Len(engines[e].out) + Len(engines[e].served)
Room == FoldSet(LAMBDA e, n : n + Waiting(e), 0, DOMAIN engines) < MaxPackets

UserConnects(s) ==
  /\ ~sockets[s].active
  /\ Room
  /\ Connects(heap, sockets[s].io, sockets[s].nsp)
  /\ sockets' = [sockets EXCEPT ![s].active = TRUE]
  /\ UNCHANGED <<cache, managers, calls>>

(* disconnect(): the server is told when the socket is connected, and the   *)
(* last active socket closes the manager, whose engine sends what it has    *)
(* before it ends.                                                          *)
UserDisconnects(s, connected) ==
  LET m == sockets[s].io
      e == current[m]
      last == Active(m) = {s}
  IN /\ sockets[s].active
     /\ connected => Open(e)
     /\ sockets' = [sockets EXCEPT ![s].active = FALSE]
     /\ LET out == IF connected
                   THEN Append(engines[e].out, Packet(sockets[s].nsp, DisconnectPacket))
                   ELSE engines[e].out
        IN engines' = [engines EXCEPT ![e] =
             IF ~last THEN [@ EXCEPT !.out = out]
             ELSE IF Open(e) /\ out # <<>> THEN [@ EXCEPT !.out = out, !.state = "closing"]
             ELSE Closed(@)]
     /\ UNCHANGED <<cache, managers, current, heap, calls>>

(* emit(), and the acknowledgement of an event. *)
Emit(s, p) ==
  LET e == current[sockets[s].io]
  IN /\ sockets[s].active /\ Open(e)
     /\ Room
     /\ engines' = [engines EXCEPT ![e].out = Append(@, Packet(sockets[s].nsp, p))]
     /\ UNCHANGED <<cache, managers, current, sockets, heap, calls>>

(***************************************************************************)
(* Requests                                                                 *)
(***************************************************************************)
(* The session in the URL of a request that is built now: transport.query   *)
(* is the engine's query table.                                             *)
Named(h, e) == h.tables[engines[e].query].sid
Engines(new) == engines' = new /\ UNCHANGED <<cache, managers, current, calls>>

(* The first poll is built after two delays. *)
Poll(e) ==
  /\ engines[e].state = "opening" /\ ~engines[e].polling
  /\ Engines([engines EXCEPT ![e].polling = TRUE, ![e].asked = Named(heap, e)])
  /\ UNCHANGED <<sockets, heap>>

(* The server opens a session for a poll that names none, here with the     *)
(* number of the engine.  Every active socket asks for its namespace, and   *)
(* the next poll is made.                                                   *)
Handshake(e) ==
  LET m   == CHOOSE n \in DOMAIN current : current[n] = e
      asking == SetToSortSeq(Active(m), <)
  IN /\ engines[e].state = "opening" /\ engines[e].polling /\ engines[e].asked = 0
     /\ heap' = [heap EXCEPT !.tables[engines[e].query].sid = e]
     /\ Engines([engines EXCEPT
          ![e].state = "open", ![e].asked = Named(heap', e),
          ![e].out = [i \in DOMAIN asking |-> Packet(sockets[asking[i]].nsp, ConnectPacket)]])
     /\ UNCHANGED sockets

(* A message of the server: a binary event is a text with the number of its *)
(* attachments, which the client does not know, and the attachments.        *)
Frames(p) ==
  IF p.type = BINARY_EVENT
  THEN <<[type |-> MESSAGE,
          data |-> <<p.type, "1", "-">> \o NamespaceText(p.nsp) \o Stringify(p.data[1])],
         [type |-> "b", data |-> <<p.data[1]>>]>>
  ELSE <<[type |-> MESSAGE, data |-> Encode(p)]>>

(* What a payload holds: the packets that a Socket.IO decoder makes of its  *)
(* messages.                                                                *)
Packets(payload) ==
  LET messages == SelectSeq(DecodePayload(payload), LAMBDA p : p.type = MESSAGE)
  IN FlattenSeq([i \in DOMAIN messages |-> Decode(messages[i].data)])

Payload(packets) ==
  EncodePayload(FlattenSeq([i \in DOMAIN packets |-> Frames(packets[i])]))

Garbled(payload) == ErrorPacket \in Range(DecodePayload(payload))

(* An answer of the poll.  A packet is heard by the active sockets of the   *)
(* manager that have its namespace, an error packet ends the engine, and    *)
(* the next poll is made.                                                   *)
PollAnswered(e) ==
  LET payload == Payload(engines[e].served)
      Hears(s) == sockets[s].active /\ current[sockets[s].io] = e
      next == [engines[e] EXCEPT !.served = <<>>, !.asked = Named(heap, e)]
  IN /\ Open(e) /\ engines[e].asked = e
     /\ engines[e].served # <<>>
     /\ heard' = [s \in DOMAIN sockets |->
          SelectSeq(Packets(payload), LAMBDA p : Hears(s) /\ p.nsp = sockets[s].nsp)]
     /\ got' = <<>>
     /\ Engines([engines EXCEPT ![e] = IF Garbled(payload) THEN Closed(next) ELSE next])
     /\ UNCHANGED <<sockets, heap>>

(* flush(): one request for all that is written.  The server refuses it     *)
(* when it does not name the session of this engine.                        *)
Post(e) ==
  LET accepted == Named(heap, e) = e
  IN /\ engines[e].state \in {"open", "closing"} /\ engines[e].out # <<>>
     /\ got' = IF accepted THEN Packets(Payload(engines[e].out)) ELSE <<>>
     /\ heard' = <<>>
     /\ Engines([engines EXCEPT ![e] = IF accepted /\ Open(e) THEN [@ EXCEPT !.out = <<>>]
                                                              ELSE Closed(@)])
     /\ UNCHANGED <<sockets, heap>>

(* A poll that names the session of another engine is refused; and at any   *)
(* time a request may fail, or the server give up the session.              *)
Lost(e) ==
  /\ engines[e].state # "closed"
  /\ Engines([engines EXCEPT ![e] = Closed(@)])
  /\ UNCHANGED <<sockets, heap>>

(* A manager with an active socket reconnects. *)
Reconnect(m) ==
  /\ engines[current[m]].state = "closed" /\ Active(m) # {}
  /\ Opens(heap, m)
  /\ UNCHANGED <<cache, managers, sockets, calls>>

ServerSends(e, nsp, p) ==
  /\ Open(e)
  /\ Room
  /\ Engines([engines EXCEPT ![e].served = Append(@, Packet(nsp, p))])
  /\ UNCHANGED <<sockets, heap>>

(***************************************************************************)
(* The specification                                                        *)
(***************************************************************************)
(* The query tables of the user come first. *)
WithQuery == SetToSeq({o \in Options : Given[o].keys # {}})
Init ==
  /\ cache = [id \in Ids |-> 0]
  /\ managers = <<>> /\ current = <<>> /\ sockets = <<>> /\ engines = <<>>
  /\ heap = [tables |-> [i \in DOMAIN WithQuery |->
                           [Table(Given[WithQuery[i]].keys) EXCEPT
                              !.text = Given[WithQuery[i]].text]],
             query |-> [o \in Options |->
                          IF Given[o].keys = {} THEN 0
                          ELSE CHOOSE i \in DOMAIN WithQuery : WithQuery[i] = o]]
  /\ calls = [o \in Options |-> 0]
  /\ heard = <<>> /\ got = <<>>

Step ==
  \/ \E c \in Calls : Io(c[1], c[2]) \/ IoShared(c[1], c[2])
  \/ \E s \in DOMAIN sockets :
       \/ UserConnects(s)
       \/ \E connected \in BOOLEAN : UserDisconnects(s, connected)
       \/ \E p \in Outgoing : Emit(s, p)
  \/ \E e \in DOMAIN engines :
       \/ Poll(e) \/ Handshake(e) \/ Lost(e)
       \/ \E nsp \in Namespaces, p \in Incoming : ServerSends(e, nsp, p)
  \/ \E m \in DOMAIN managers : Reconnect(m)

Next ==
  \/ Step /\ heard' = <<>> /\ got' = <<>>
  \/ \E e \in DOMAIN engines : PollAnswered(e) \/ Post(e)

Spec == Init /\ [][Next]_vars

(***************************************************************************)
(* Properties                                                               *)
(***************************************************************************)
(* Every reference leads to what it should: the cache to managers, a        *)
(* manager to an engine of its own and to the one socket that it has for a  *)
(* namespace, an engine and options to a table (lookup, Manager.socket).    *)
TypeOK ==
  /\ cache \in [Ids -> 0 .. Len(managers)]
  /\ DOMAIN current = DOMAIN managers
  /\ IsInjective(current) /\ Range(current) \subseteq DOMAIN engines
  /\ \A s \in DOMAIN sockets : managers[sockets[s].io].nsps[sockets[s].nsp] = s
  /\ \A e \in DOMAIN engines : engines[e].query \in DOMAIN heap.tables
  /\ \A o \in Options : heap.query[o] \in 0 .. Len(heap.tables)

(* The packets of the server up to the first that is binary. *)
IsBinary(p) == p.type = BINARY_EVENT
Plain(packets) ==
  SelectSeq(Through(packets, {i \in DOMAIN packets : IsBinary(packets[i])}),
            LAMBDA p : ~IsBinary(p))

(* However many namespaces and messages share a connection and a payload,   *)
(* what the server sends to a namespace is heard by the sockets of that     *)
(* namespace on that connection and by no other, in order and with id and   *)
(* data intact; and so does the server get what is written (Encoder,        *)
(* Decoder, encodePayload, decodePayload, onpacket).  A binary event, which *)
(* this client cannot read, ends the connection: what follows it is lost,   *)
(* and the socket of "/" hears it as an event without data, whatever its    *)
(* namespace is.                                                            *)
Fetched(e) == engines[e].served # <<>> /\ engines'[e].served = <<>> /\ heard' # <<>>
Share(s) ==
  LET e == current[sockets[s].io]
  IN IF sockets[s].active /\ Fetched(e)
     THEN SelectSeq(Plain(engines[e].served), LAMBDA p : p.nsp = sockets[s].nsp)
     ELSE <<>>
Routed ==
  [][/\ \A s \in DOMAIN heard' :
          /\ SelectSeq(heard'[s], LAMBDA p : ~IsBinary(p)) = Share(s)
          /\ \A i \in DOMAIN heard'[s] :
               IsBinary(heard'[s][i])
                 => sockets[s].nsp = Root /\ heard'[s][i].data = <<"false">>
     /\ got' # <<>> => \E e \in DOMAIN engines :
          engines'[e].out = <<>> /\ got' = engines[e].out]_vars

(* Two engines refer to one query table if the user gave it, or gave one    *)
(* options table to several calls and a URL that has user info.             *)
MayShare(m) ==
  LET o == managers[m].opts
  IN \/ Given[o].keys # {} /\ ~Given[o].text /\ managers[m].url.query = {}
     \/ calls[o] > 1 /\ \E s \in DOMAIN sockets :
                           sockets[s].opts = o /\ sockets[s].url.userInfo

(* "session id if we already have one": an engine polls without a session   *)
(* until it has its own, and from then on with its own, over any number of  *)
(* reconnections (createTransport, onHandshake, uri).  The exception is an  *)
(* engine whose query table another one may have written its session to.    *)
OwnSession ==
  \A m \in DOMAIN managers :
    LET e == current[m]
    IN engines[e].polling /\ ~MayShare(m) =>
         engines[e].asked \in CASE engines[e].state = "opening" -> {0}
                                [] OTHER -> {e}

(* The query that one call named, in its URL or in its options. *)
NamedQuery(u, o) == IF u.query = {} THEN Given[o].keys ELSE u.query

(* "We reuse the existing instance based on same scheme/port/host": through *)
(* the cache and through options tables that engines write to, a socket is  *)
(* connected to the scheme, host and path that its own call named, over a   *)
(* manager whose URL names the same port, and sends the query of its call   *)
(* (lookup, url, the constructors of Manager and engine, createUri).  What  *)
(* this leaves to OwnUrl: which port the engine connects to, and the query  *)
(* of a URL without user info.  The query of options that went to several   *)
(* calls, or not to the call that made the manager, is whatever the last    *)
(* engine wrote.                                                            *)
RightPlace ==
  \A s \in DOMAIN sockets :
    LET m == sockets[s].io
        u == sockets[s].url
        o == sockets[s].opts
        e == engines[current[m]]
    IN /\ e.scheme = (IF Secure(u) THEN "https" ELSE "http")
       /\ e.host = u.host /\ e.path = Path(o)
       /\ Port(managers[m].url) = Port(u)
       /\ calls[o] = 1 /\ managers[m].opts = o /\ (u.query = {} \/ u.userInfo)
            => heap.tables[e.query].keys = NamedQuery(u, o)

(* What the code says and does not do: port and query are "Set from the URI *)
(* passed when connecting".  An engine reaches the port that the URL names, *)
(* or else the default of its scheme, and sends the query of the URL when   *)
(* its options went to no other call (the constructor of the engine, parse, *)
(* _port).  A request without a port goes to the default of its scheme.     *)
Reached(e) ==
  IF e.port # "" THEN e.port ELSE IF e.scheme = "https" THEN "443" ELSE "80"
OwnUrl ==
  \A m \in DOMAIN managers :
    LET u == managers[m].url
        e == engines[current[m]]
    IN /\ Reached(e) = Port(u)
       /\ calls[managers[m].opts] = 1 /\ u.query # {}
            => heap.tables[e.query].keys = u.query
=============================================================================
