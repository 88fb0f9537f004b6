-------------------------- MODULE Multiplexing_proofs --------------------------
(***************************************************************************)
(* Proofs about Multiplexing: where the references lead, with which session *)
(* an engine polls, and where a socket is connected, for any calls of io(), *)
(* any options tables and any number of sockets and engines.                *)
(***************************************************************************)
EXTENDS Multiplexing, SequenceTheorems, FiniteSetTheorems, TLAPS

(***************************************************************************)
(* The invariant                                                            *)
(***************************************************************************)
(* A manager, a socket, and a query table. *)
ManagerType == [url : Urls, opts : Options, nsps : [Namespaces -> Nat]]
SocketType ==
  [io : Nat, nsp : Namespaces, active : BOOLEAN, url : Urls, opts : Options]
KeySets == {Given[o].keys : o \in Options} \cup {u.query : u \in Urls} \cup {{}}
TableType == [text : BOOLEAN, keys : KeySets, sid : Nat]
HeapType == [tables : Seq(TableType), query : [Options -> Nat]]

(* An engine has these fields; what it has written is of no concern here.   *)
Fields == {"scheme", "host", "port", "path", "query", "state", "polling",
           "asked", "out", "served"}
EnginesTyped ==
  /\ engines \in Seq(Range(engines))
  /\ \A e \in DOMAIN engines : DOMAIN engines[e] = Fields

Typed ==
  /\ managers \in Seq(ManagerType) /\ sockets \in Seq(SocketType)
  /\ calls \in [Options -> Nat] /\ current \in Seq(Nat)
  /\ cache \in [Ids -> 0 .. Len(managers)]
  /\ EnginesTyped

(* A socket is in the registry of its manager, and some socket made it.     *)
Registered ==
  /\ \A s \in DOMAIN sockets : /\ sockets[s].io \in DOMAIN managers
                               /\ managers[sockets[s].io].nsps[sockets[s].nsp] = s
  /\ \A m \in DOMAIN managers : \E s \in DOMAIN sockets :
       /\ sockets[s].io = m
       /\ sockets[s].url = managers[m].url /\ sockets[s].opts = managers[m].opts

(* Every socket stands for a call. *)
Counted ==
  /\ \A s \in DOMAIN sockets : calls[sockets[s].opts] >= 1
  /\ \A s, t \in DOMAIN sockets :
       s # t /\ sockets[s].opts = sockets[t].opts => calls[sockets[s].opts] > 1

(* A manager has the id under which it is shared. *)
IdOf(x) == Id(x.url, x.opts)
Identified ==
  /\ \A id \in Ids : cache[id] # 0 => IdOf(managers[cache[id]]) = id
  /\ \A s \in DOMAIN sockets : IdOf(sockets[s]) = IdOf(managers[sockets[s].io])

(* A manager has an engine of its own, which leads where the manager does;  *)
(* one that no manager has any more has ended or ends.                      *)
LeadsTo(engine, u, o) ==
  /\ engine.scheme = (IF Secure(u) THEN "https" ELSE "http")
  /\ engine.host = u.host /\ engine.path = Path(o) /\ engine.port = AskedPort(u)
Owned ==
  /\ DOMAIN current = DOMAIN managers
  /\ \A m \in DOMAIN managers :
       /\ current[m] \in DOMAIN engines
       /\ LeadsTo(engines[current[m]], managers[m].url, managers[m].opts)
       /\ \A n \in DOMAIN managers : current[m] = current[n] => m = n
  /\ \A e \in DOMAIN engines :
       Ended(e) \/ \E m \in DOMAIN managers : current[m] = e

(* Options refer to tables, each to its own. *)
WellFormed(h) ==
  /\ h \in HeapType
  /\ \A o \in Options : h.query[o] \in 0 .. Len(h.tables)
  /\ \A o, p \in Options : o # p /\ h.query[o] = h.query[p] => h.query[o] = 0

(* The options table o holds a table because the user gave it, or since a   *)
(* call with a URL that has user info; and without a URL that has a query   *)
(* it holds what the user gave. *)
GivenTable(o) == Given[o].keys # {} /\ ~Given[o].text
Told(h, s, o) ==
  /\ IsTable(h, o) => GivenTable(o) \/ \E i \in DOMAIN s : s[i].opts = o /\ s[i].url.userInfo
  /\ (\A i \in DOMAIN s : s[i].opts = o => s[i].url.query = {}) =>
       IF h.query[o] = 0 THEN Given[o].keys = {}
       ELSE h.tables[h.query[o]].keys = Given[o].keys

(* The engine of a manager refers to the table of an options table only if  *)
(* that is the manager's own. *)
Referred(h) ==
  \A m \in DOMAIN managers : LET q == engines[current[m]].query IN
    /\ q \in DOMAIN h.tables
    /\ \A o \in Options : q = h.query[o] =>
         /\ managers[m].opts = o
         /\ managers[m].url.query = {} \/ managers[m].url.userInfo

(* The only call with some options finds the query that the code makes of   *)
(* what it named, which drops the query of a URL without user info.         *)
CodeQuery(u, o) == IF u.query = {} THEN Given[o].keys ELSE QueryKey(u)
Keyed(h) ==
  \A m \in DOMAIN managers : LET u == managers[m].url
                                 o == managers[m].opts IN
    calls[o] = 1 => h.tables[engines[current[m]].query].keys = CodeQuery(u, o)

HeapInv ==
  /\ WellFormed(heap) /\ \A o \in Options : Told(heap, sockets, o)
  /\ Referred(heap) /\ Keyed(heap)
  /\ \A e \in DOMAIN engines : engines[e].query \in DOMAIN heap.tables

(* An engine that nobody shares a table with finds its own session there.   *)
Alone ==
  \A m, n \in DOMAIN managers :
    m # n /\ ~MayShare(m) => engines[current[n]].query # engines[current[m]].query
SessionKnown ==
  \A m \in DOMAIN managers : LET e == current[m] IN
    ~MayShare(m) =>
      /\ engines[e].state = "opening" => Named(heap, e) = 0
      /\ engines[e].state \in {"open", "closing"} => Named(heap, e) = e

PlaceInv == Typed /\ Registered /\ Counted /\ Identified /\ Owned
TableInv == PlaceInv /\ HeapInv
SessionInv == TableInv /\ Alone /\ SessionKnown /\ OwnSession

(***************************************************************************)
(* Sequences                                                                *)
(***************************************************************************)
(* A push adds one element at the end. *)
LEMMA Pushed ==
  ASSUME NEW S, NEW s \in Seq(S), NEW x \in S
  PROVE  /\ Append(s, x) \in Seq(S) /\ Len(s) \in Nat
         /\ DOMAIN s = 1 .. Len(s)
         /\ Len(Append(s, x)) = Len(s) + 1
         /\ DOMAIN Append(s, x) = 1 .. Len(s) + 1
         /\ \A i \in 1 .. Len(s) : Append(s, x)[i] = s[i]
         /\ Append(s, x)[Len(s) + 1] = x
BY AppendProperties, LenProperties

(* The same, for a sequence of anything. *)
LEMMA PushedAny ==
  ASSUME NEW s, s \in Seq(Range(s)), NEW x
  PROVE  /\ Append(s, x) \in Seq(Range(Append(s, x))) /\ Len(s) \in Nat
         /\ DOMAIN s = 1 .. Len(s)
         /\ Len(Append(s, x)) = Len(s) + 1
         /\ DOMAIN Append(s, x) = 1 .. Len(s) + 1
         /\ \A i \in 1 .. Len(s) : Append(s, x)[i] = s[i]
         /\ Append(s, x)[Len(s) + 1] = x
<1> DEFINE S == Range(s) \cup {x}
           t == Append(s, x)
<1>1. s \in Seq(S) BY SeqMonotonic
<1>2. x \in S OBVIOUS
<1> HIDE DEF S
<1>3. /\ t \in Seq(S) /\ Len(s) \in Nat
      /\ DOMAIN s = 1 .. Len(s)
      /\ Len(t) = Len(s) + 1 /\ DOMAIN t = 1 .. Len(s) + 1
      /\ \A i \in 1 .. Len(s) : t[i] = s[i]
      /\ t[Len(s) + 1] = x
  BY <1>1, <1>2, Pushed
<1>4. t \in [1 .. Len(t) -> S] BY <1>3, LenProperties
<1> HIDE DEF t
<1>5. t \in [1 .. Len(t) -> Range(t)] BY <1>4 DEF Range
<1>6. t \in Seq(Range(t)) BY <1>3, <1>5, SeqDef
<1> QED BY <1>3, <1>6 DEF t

(* A function on the places of a sequence is one. *)
LEMMA SameLength ==
  ASSUME NEW s, s \in Seq(Range(s)), NEW t, t = [i \in DOMAIN s |-> t[i]]
  PROVE  /\ t \in Seq(Range(t)) /\ DOMAIN t = DOMAIN s /\ Len(t) = Len(s)
         /\ Len(s) \in Nat /\ DOMAIN s = 1 .. Len(s)
<1>1. Len(s) \in Nat /\ DOMAIN s = 1 .. Len(s) BY LenProperties
<1>2. DOMAIN t = 1 .. Len(s) BY <1>1
<1>3. t \in [1 .. Len(s) -> Range(t)] BY <1>1, <1>2 DEF Range
<1>4. t \in Seq(Range(t)) BY <1>1, <1>3, SeqDef
<1>5. Len(t) = Len(s)
  <2>1. Len(t) \in Nat /\ DOMAIN t = 1 .. Len(t) BY <1>4, LenProperties
  <2>2. 1 .. Len(t) = 1 .. Len(s) BY <1>2, <2>1
  <2> QED BY <1>1, <2>1, <2>2
<1> QED BY <1>1, <1>2, <1>4, <1>5

(***************************************************************************)
(* Query tables                                                             *)
(***************************************************************************)
(* The calls are made with URLs and options tables of the constants.        *)
LEMMA CallTypes ==
  ASSUME NEW c \in Calls
  PROVE  /\ c[1] \in Urls /\ c[2] \in Options
         /\ Id(c[1], c[2]) \in Ids /\ Nsp(c[1]) \in Namespaces
BY CallsAssumption DEF Urls, Ids, Namespaces

(* Only a URL with user info has a query that is decoded, and that has some.*)
LEMMA QueryKeys ==
  ASSUME NEW u \in Urls
  PROVE  /\ QueryKey(u) \in KeySets
         /\ QueryKey(u) # {} => u.userInfo /\ QueryKey(u) = u.query
         /\ u.query # {} /\ QueryKey(u) = {} => ~u.userInfo
         /\ u.userInfo => u.query # {} /\ QueryKey(u) = u.query
BY CallsAssumption DEF QueryKey, KeySets

(* A new table comes after the others. *)
LEMMA TableAdded ==
  ASSUME NEW h \in HeapType, NEW keys \in KeySets
  PROVE  LET new == AddTable(h, keys)
             n   == Len(h.tables) + 1
         IN /\ new \in HeapType /\ new.query = h.query
            /\ Len(h.tables) \in Nat /\ DOMAIN h.tables = 1 .. Len(h.tables)
            /\ Len(new.tables) = n /\ DOMAIN new.tables = 1 .. n
            /\ \A i \in DOMAIN h.tables : new.tables[i] = h.tables[i]
            /\ new.tables[n] = [text |-> FALSE, keys |-> keys, sid |-> 0]
<1> DEFINE t == [text |-> FALSE, keys |-> keys, sid |-> 0]
<1>1. t \in TableType /\ t = Table(keys) BY DEF TableType, Table
<1>2. h.tables \in Seq(TableType) BY DEF HeapType
<1> HIDE DEF t
<1>3. /\ Append(h.tables, t) \in Seq(TableType) /\ Len(h.tables) \in Nat
      /\ DOMAIN h.tables = 1 .. Len(h.tables)
      /\ Len(Append(h.tables, t)) = Len(h.tables) + 1
      /\ DOMAIN Append(h.tables, t) = 1 .. Len(h.tables) + 1
      /\ \A i \in 1 .. Len(h.tables) : Append(h.tables, t)[i] = h.tables[i]
      /\ Append(h.tables, t)[Len(h.tables) + 1] = t
  BY <1>1, <1>2, Pushed
<1> DEFINE ts == Append(h.tables, t)
<1>4. AddTable(h, keys) = [h EXCEPT !.tables = ts] BY <1>1 DEF AddTable
<1> HIDE DEF ts
<1>5. ts \in Seq(TableType) BY <1>3 DEF ts
<1>6. /\ AddTable(h, keys) \in HeapType /\ AddTable(h, keys).query = h.query
      /\ AddTable(h, keys).tables = ts
  BY <1>4, <1>5 DEF HeapType
<1> QED BY <1>3, <1>6 DEF ts, t

(* What may become of the tables when an engine or lookup() sees options o: *)
(* the new ones come after the others, and only o may refer to another.     *)
Grown(h, new) ==
  /\ new \in HeapType /\ Len(h.tables) <= Len(new.tables)
  /\ Len(h.tables) \in Nat /\ DOMAIN h.tables = 1 .. Len(h.tables)
  /\ Len(new.tables) \in Nat /\ DOMAIN new.tables = 1 .. Len(new.tables)
  /\ \A i \in DOMAIN h.tables : new.tables[i] = h.tables[i]

(* lookup(): options without a query get that of the URL. *)
LEMMA LentTables ==
  ASSUME NEW u \in Urls, NEW o \in Options, WellFormed(heap)
  PROVE  LET h == Lent(u, o)
             q == Len(heap.tables) + 1
         IN /\ Grown(heap, h)
            /\ \/ h = heap
               \/ /\ u.userInfo /\ heap.query[o] = 0
                  /\ Len(h.tables) = q
                  /\ h.query = [heap.query EXCEPT ![o] = q]
                  /\ h.tables[q].keys = u.query
<1>1. heap \in HeapType BY DEF WellFormed
<1>2. Len(heap.tables) \in Nat /\ DOMAIN heap.tables = 1 .. Len(heap.tables)
  <2>1. heap.tables \in Seq(TableType) BY <1>1 DEF HeapType
  <2> QED BY <2>1, LenProperties
<1>3. CASE ~(QueryKey(u) # {} /\ heap.query[o] = 0)
  <2>1. Lent(u, o) = heap BY <1>3 DEF Lent
  <2>2. Grown(heap, heap) BY <1>1, <1>2 DEF Grown
  <2> QED BY <2>1, <2>2
<1>4. CASE QueryKey(u) # {} /\ heap.query[o] = 0
  <2> DEFINE new == AddTable(heap, QueryKey(u))
             q   == Len(heap.tables) + 1
  <2>1. /\ new \in HeapType /\ new.query = heap.query
        /\ Len(new.tables) = q /\ DOMAIN new.tables = 1 .. q
        /\ \A i \in DOMAIN heap.tables : new.tables[i] = heap.tables[i]
        /\ new.tables[q] = [text |-> FALSE, keys |-> QueryKey(u), sid |-> 0]
    BY <1>1, TableAdded, QueryKeys
  <2>2. Lent(u, o) = [new EXCEPT !.query[o] = q] BY <1>4 DEF Lent
  <2> HIDE DEF new
  <2>3. q \in Nat BY <1>2
  <2>4. /\ Lent(u, o) \in HeapType /\ Lent(u, o).tables = new.tables
        /\ Lent(u, o).query = [heap.query EXCEPT ![o] = q]
    <3>1. /\ new = [tables |-> new.tables, query |-> new.query]
          /\ new.tables \in Seq(TableType) /\ new.query \in [Options -> Nat]
      BY <2>1 DEF HeapType
    <3> DEFINE query == [heap.query EXCEPT ![o] = q]
    <3>2. query \in [Options -> Nat] BY <2>1, <2>3, <3>1
    <3>3. Lent(u, o) = [tables |-> new.tables, query |-> query] BY <2>1, <2>2, <3>1
    <3> HIDE DEF query
    <3>4. Lent(u, o) \in HeapType BY <3>1, <3>2, <3>3 DEF HeapType
    <3>5. Lent(u, o).tables = new.tables /\ Lent(u, o).query = query BY <3>3
    <3> QED BY <3>4, <3>5 DEF query
  <2>5. Grown(heap, Lent(u, o)) BY <1>2, <2>1, <2>3, <2>4 DEF Grown
  <2>6. new.tables[q].keys = u.query /\ u.userInfo BY <1>4, <2>1, QueryKeys
  <2> QED BY <1>4, <2>1, <2>4, <2>5, <2>6
<1> QED BY <1>3, <1>4

(* What is missing, or text, becomes a table of its own. *)
LEMMA QueryAdded ==
  ASSUME NEW g, g \in HeapType, NEW o \in Options, ~IsTable(g, o),
         g.query[o] \in 0 .. Len(g.tables)
  PROVE  LET found == QueryFound(g, o)
             n     == Len(g.tables) + 1
         IN /\ found \in HeapType /\ found.query = g.query
            /\ Len(found.tables) = n /\ DOMAIN found.tables = 1 .. n
            /\ \A i \in DOMAIN g.tables : found.tables[i] = g.tables[i]
            /\ found.tables[n].text = FALSE /\ found.tables[n].sid = 0
            /\ found.tables[n].keys = IF g.query[o] = 0 THEN {}
                                      ELSE g.tables[g.query[o]].keys
            /\ QueryOf(g, found, o) = n
<1> DEFINE keys == IF g.query[o] = 0 THEN {} ELSE g.tables[g.query[o]].keys
           found == QueryFound(g, o)
           n == Len(g.tables) + 1
<1>1. keys \in KeySets
  <2>1. CASE g.query[o] = 0 BY <2>1 DEF KeySets
  <2>2. CASE g.query[o] # 0
    <3>1. g.tables \in Seq(TableType) BY DEF HeapType
    <3>2. Len(g.tables) \in Nat BY <3>1, LenProperties
    <3>3. g.query[o] \in 1 .. Len(g.tables) BY <2>2, <3>2
    <3>4. g.tables[g.query[o]] \in TableType BY <3>1, <3>3, ElementOfSeq
    <3> QED BY <2>2, <3>4 DEF TableType
  <2> QED BY <2>1, <2>2
<1>2. found = AddTable(g, keys) BY DEF QueryFound
<1> HIDE DEF keys
<1>3. /\ AddTable(g, keys) \in HeapType /\ AddTable(g, keys).query = g.query
      /\ Len(AddTable(g, keys).tables) = n /\ DOMAIN AddTable(g, keys).tables = 1 .. n
      /\ \A i \in DOMAIN g.tables : AddTable(g, keys).tables[i] = g.tables[i]
      /\ AddTable(g, keys).tables[n] = [text |-> FALSE, keys |-> keys, sid |-> 0]
  BY <1>1, TableAdded
<1> HIDE DEF found
<1>4. QueryOf(g, found, o) = n BY <1>2, <1>3 DEF QueryOf
<1>5. /\ AddTable(g, keys).tables[n].text = FALSE /\ AddTable(g, keys).tables[n].sid = 0
      /\ AddTable(g, keys).tables[n].keys = keys
  BY <1>3
<1>6. /\ found \in HeapType /\ found.query = g.query
      /\ Len(found.tables) = n /\ DOMAIN found.tables = 1 .. n
      /\ \A i \in DOMAIN g.tables : found.tables[i] = g.tables[i]
      /\ found.tables[n].text = FALSE /\ found.tables[n].sid = 0
      /\ found.tables[n].keys = keys
  BY <1>2, <1>3, <1>5
<1> QED BY <1>4, <1>6, Zenon DEF found, keys

(* What becomes of the tables h when an engine for the URL u and the        *)
(* options o finds its table, of number q. *)
Finds(h, new, u, o, q) ==
  /\ Grown(h, new) /\ q \in DOMAIN new.tables
  /\ \/ /\ u.query = {} /\ IsTable(h, o) /\ q = h.query[o] /\ new = h
     \/ /\ q = Len(h.tables) + 1 /\ Len(new.tables) = q
        /\ new.tables[q].sid = 0 /\ new.tables[q].text = FALSE
        /\ \/ /\ u.query = {} /\ new.query = h.query
              /\ ~IsTable(h, o)
              /\ new.tables[q].keys = IF h.query[o] = 0 THEN {}
                                      ELSE h.tables[h.query[o]].keys
           \/ /\ u.query # {} /\ ~u.userInfo
              /\ new.query = [h.query EXCEPT ![o] = 0]
              /\ new.tables[q].keys = {}
           \/ /\ u.query # {} /\ u.userInfo
              /\ new.query = [h.query EXCEPT ![o] = q]
              /\ new.tables[q].keys = u.query

(* An engine refers to the table of its options, or to a new one.           *)
LEMMA EngineTables ==
  ASSUME NEW h, WellFormed(h), NEW u \in Urls, NEW o \in Options, NewEngine(h, u, o)
  PROVE  \E q \in Nat : /\ engines' = Append(engines, Engine(u, o, q))
                        /\ Finds(h, heap', u, o, q)
<1> USE DEF Finds
<1> DEFINE given == FromUrl(h, u, o)
           found == QueryFound(given, o)
           n == Len(h.tables) + 1
<1>1. heap' = found /\ engines' = Append(engines, Engine(u, o, QueryOf(given, found, o)))
  BY DEF NewEngine
<1>2. h \in HeapType /\ h.query[o] \in 0 .. Len(h.tables) BY DEF WellFormed
<1>3. Len(h.tables) \in Nat /\ DOMAIN h.tables = 1 .. Len(h.tables) /\ n \in Nat
  <2>1. h.tables \in Seq(TableType) BY <1>2 DEF HeapType
  <2> QED BY <2>1, LenProperties
<1>5. CASE u.query = {}
  <2>1. given = h BY <1>5 DEF FromUrl
  <2>2. CASE IsTable(h, o)
    <3>1. found = h /\ QueryOf(given, found, o) = h.query[o]
      BY <2>1, <2>2 DEF QueryFound, QueryOf
    <3>2. h.query[o] # 0 BY <2>2 DEF IsTable
    <3>3. h.query[o] \in DOMAIN h.tables /\ h.query[o] \in Nat BY <1>2, <1>3, <3>2
    <3>4. Grown(h, h) BY <1>2, <1>3 DEF Grown
    <3> QED BY <1>1, <1>5, <2>2, <3>1, <3>3, <3>4
  <2>3. CASE ~IsTable(h, o)
    <3> DEFINE x == QueryFound(h, o)
    <3>1. /\ x \in HeapType /\ x.query = h.query
          /\ Len(x.tables) = n /\ DOMAIN x.tables = 1 .. n
          /\ \A i \in DOMAIN h.tables : x.tables[i] = h.tables[i]
          /\ x.tables[n].text = FALSE /\ x.tables[n].sid = 0
          /\ x.tables[n].keys = IF h.query[o] = 0 THEN {} ELSE h.tables[h.query[o]].keys
          /\ QueryOf(h, x, o) = n
      BY <1>2, <2>3, QueryAdded, ZenonT(60)
    <3>5. heap' = x /\ engines' = Append(engines, Engine(u, o, n)) BY <1>1, <2>1, <3>1
    <3> HIDE DEF x
    <3>2. Grown(h, heap') /\ n \in DOMAIN heap'.tables BY <1>3, <3>1, <3>5 DEF Grown
    <3>4. /\ n \in Nat /\ n = Len(h.tables) + 1 /\ Len(heap'.tables) = n /\ heap'.query = h.query
          /\ heap'.tables[n].sid = 0 /\ heap'.tables[n].text = FALSE
          /\ heap'.tables[n].keys = IF h.query[o] = 0 THEN {} ELSE h.tables[h.query[o]].keys
      BY <1>3, <3>1, <3>5
    <3> HIDE DEF n
    <3> QED BY <1>5, <2>3, <3>2, <3>4, <3>5
  <2> QED BY <2>2, <2>3
<1>6. CASE u.query # {} /\ QueryKey(u) = {}
  <2> DEFINE g == [h EXCEPT !.query[o] = 0]
  <2>1. given = g BY <1>6 DEF FromUrl
  <2>2. /\ g \in HeapType /\ g.tables = h.tables /\ g.query[o] = 0
        /\ g.query = [h.query EXCEPT ![o] = 0]
    BY <1>2 DEF HeapType
  <2> HIDE DEF g
  <2>3. ~IsTable(g, o) BY <2>2 DEF IsTable
  <2>4. /\ QueryFound(g, o) \in HeapType /\ QueryFound(g, o).query = g.query
        /\ Len(QueryFound(g, o).tables) = n /\ DOMAIN QueryFound(g, o).tables = 1 .. n
        /\ \A i \in DOMAIN h.tables : QueryFound(g, o).tables[i] = h.tables[i]
        /\ QueryFound(g, o).tables[n].text = FALSE /\ QueryFound(g, o).tables[n].sid = 0
        /\ QueryFound(g, o).tables[n].keys = {}
        /\ QueryOf(g, QueryFound(g, o), o) = n
    <3>1. g.query[o] \in 0 .. Len(g.tables) BY <1>3, <2>2
    <3>2. n = Len(g.tables) + 1 BY <2>2
    <3> DEFINE x == QueryFound(g, o)
    <3>3. /\ x \in HeapType /\ x.query = g.query
          /\ Len(x.tables) = n /\ DOMAIN x.tables = 1 .. n
          /\ \A i \in DOMAIN g.tables : x.tables[i] = g.tables[i]
          /\ x.tables[n].text = FALSE /\ x.tables[n].sid = 0
          /\ x.tables[n].keys = IF g.query[o] = 0 THEN {} ELSE g.tables[g.query[o]].keys
          /\ QueryOf(g, x, o) = n
      BY <2>2, <2>3, <3>1, <3>2, QueryAdded, ZenonT(60)
    <3> QED BY <2>2, <3>3
  <2>7. found = QueryFound(g, o) /\ heap' = QueryFound(g, o) BY <1>1, <2>1
  <2> HIDE DEF given, found
  <2>5. Grown(h, heap') /\ n \in DOMAIN heap'.tables BY <1>3, <2>4, <2>7 DEF Grown
  <2>6. ~u.userInfo BY <1>6, QueryKeys
  <2> QED BY <1>1, <1>3, <1>6, <2>1, <2>2, <2>4, <2>5, <2>6, <2>7
<1>7. CASE u.query # {} /\ QueryKey(u) # {}
  <2> DEFINE new == AddTable(h, QueryKey(u))
             g == [new EXCEPT !.query[o] = n]
  <2>1. /\ new \in HeapType /\ new.query = h.query
        /\ Len(new.tables) = n /\ DOMAIN new.tables = 1 .. n
        /\ \A i \in DOMAIN h.tables : new.tables[i] = h.tables[i]
        /\ new.tables[n] = [text |-> FALSE, keys |-> QueryKey(u), sid |-> 0]
    BY <1>2, TableAdded, QueryKeys
  <2>2. given = g BY <1>7 DEF FromUrl
  <2> HIDE DEF new
  <2>3. /\ g \in HeapType /\ g.tables = new.tables /\ g.query[o] = n
        /\ g.query = [h.query EXCEPT ![o] = n]
    BY <1>3, <2>1 DEF HeapType
  <2> HIDE DEF g
  <2>4. IsTable(g, o) BY <1>3, <2>1, <2>3 DEF IsTable
  <2>5. found = g /\ QueryOf(given, found, o) = n
    BY <2>2, <2>3, <2>4 DEF QueryFound, QueryOf
  <2>6. Grown(h, g) /\ n \in DOMAIN g.tables BY <1>3, <2>1, <2>3 DEF Grown
  <2>7. u.userInfo /\ QueryKey(u) = u.query BY <1>7, QueryKeys
  <2> QED BY <1>1, <1>3, <1>7, <2>1, <2>3, <2>5, <2>6, <2>7
<1> QED BY <1>5, <1>6, <1>7

(***************************************************************************)
(* What a step does to the references                                       *)
(***************************************************************************)
(* The elements of the state. *)
LEMMA Parts ==
  ASSUME Typed
  PROVE  /\ Len(managers) \in Nat /\ DOMAIN managers = 1 .. Len(managers)
         /\ \A m \in DOMAIN managers :
              /\ managers[m] \in ManagerType
              /\ managers[m].url \in Urls /\ managers[m].opts \in Options
         /\ Len(sockets) \in Nat /\ DOMAIN sockets = 1 .. Len(sockets)
         /\ \A s \in DOMAIN sockets :
              /\ sockets[s] \in SocketType
              /\ sockets[s].nsp \in Namespaces
              /\ sockets[s].url \in Urls /\ sockets[s].opts \in Options
         /\ Len(current) \in Nat /\ DOMAIN current = 1 .. Len(current)
         /\ Len(engines) \in Nat /\ DOMAIN engines = 1 .. Len(engines)
         /\ \A o \in Options : calls[o] \in Nat
<1>1. /\ Len(managers) \in Nat /\ DOMAIN managers = 1 .. Len(managers)
      /\ Len(sockets) \in Nat /\ DOMAIN sockets = 1 .. Len(sockets)
      /\ Len(current) \in Nat /\ DOMAIN current = 1 .. Len(current)
      /\ Len(engines) \in Nat /\ DOMAIN engines = 1 .. Len(engines)
  BY LenProperties DEF Typed, EnginesTyped
<1>2. ASSUME NEW m \in DOMAIN managers
      PROVE  /\ managers[m] \in ManagerType
             /\ managers[m].url \in Urls /\ managers[m].opts \in Options
  <2>1. managers[m] \in ManagerType BY <1>1, ElementOfSeq DEF Typed
  <2> QED BY <2>1 DEF ManagerType
<1>3. ASSUME NEW s \in DOMAIN sockets
      PROVE  /\ sockets[s] \in SocketType
             /\ sockets[s].nsp \in Namespaces
             /\ sockets[s].url \in Urls /\ sockets[s].opts \in Options
  <2>1. sockets[s] \in SocketType BY <1>1, ElementOfSeq DEF Typed
  <2> QED BY <2>1 DEF SocketType
<1> QED BY <1>1, <1>2, <1>3 DEF Typed

(* No socket, no manager and no call is new. *)
SameSockets ==
  /\ sockets' \in Seq(SocketType) /\ DOMAIN sockets' = DOMAIN sockets
  /\ \A s \in DOMAIN sockets :
       /\ sockets'[s].io = sockets[s].io /\ sockets'[s].nsp = sockets[s].nsp
       /\ sockets'[s].url = sockets[s].url /\ sockets'[s].opts = sockets[s].opts
  /\ UNCHANGED <<calls, managers, cache>>

(* Managers, sockets and calls stay, and there may be more of them.         *)
Grow ==
  /\ \A m \in DOMAIN managers :
       /\ m \in DOMAIN managers'
       /\ managers'[m].url = managers[m].url /\ managers'[m].opts = managers[m].opts
  /\ \A s \in DOMAIN sockets :
       /\ s \in DOMAIN sockets'
       /\ sockets'[s].url = sockets[s].url /\ sockets'[s].opts = sockets[s].opts
  /\ \A o \in Options : calls'[o] \in Nat /\ calls'[o] >= calls[o]

(* What an engine keeps for life, and what may become of it when its query  *)
(* table names the session sid. *)
Keeps(x, y) ==
  /\ DOMAIN y = Fields
  /\ y.scheme = x.scheme /\ y.host = x.host /\ y.port = x.port /\ y.path = x.path
  /\ y.query = x.query
Life(x, y, sid) ==
  \/ y.state = x.state /\ y.polling = x.polling /\ y.asked = x.asked
  \/ y.state = "closed" /\ y.polling = FALSE
  \/ /\ x.state = "open" /\ y.state = "closing"
     /\ y.polling = x.polling /\ y.asked = x.asked
  \/ x.state = "opening" /\ y.state = "opening" /\ y.asked = sid
  \/ /\ x.state = "open" /\ y.state = "open"
     /\ y.polling = x.polling /\ y.asked = sid

(* No engine is new, and none gets a session. *)
EnginesMove ==
  /\ engines' \in Seq(Range(engines'))
  /\ DOMAIN engines' = DOMAIN engines /\ current' = current
  /\ \A e \in DOMAIN engines :
       Keeps(engines[e], engines'[e]) /\ Life(engines[e], engines'[e], Named(heap, e))

(* The manager n opens an engine with the tables as they are in h.          *)
Opened(h, n) ==
  /\ NewEngine(h, managers'[n].url, managers'[n].opts)
  /\ current' \in Seq(Nat)
  /\ DOMAIN managers' = DOMAIN managers \cup {n} /\ DOMAIN current' = DOMAIN managers'
  /\ current'[n] = Len(engines) + 1
  /\ \A m \in DOMAIN managers : m # n => current'[m] = current[m]
  /\ n \in DOMAIN managers => Ended(current[n])

(* One engine moves. *)
LEMMA OneMoves ==
  ASSUME Typed, NEW e \in DOMAIN engines, NEW y, engines' = [engines EXCEPT ![e] = y],
         current' = current, Keeps(engines[e], y), Life(engines[e], y, Named(heap, e))
  PROVE  EnginesMove
<1>1. engines \in Seq(Range(engines)) /\ \A f \in DOMAIN engines : DOMAIN engines[f] = Fields
  BY DEF Typed, EnginesTyped
<1>2. engines' = [i \in DOMAIN engines |-> engines'[i]] /\ DOMAIN engines' = DOMAIN engines
      /\ engines'[e] = y /\ \A f \in DOMAIN engines : f # e => engines'[f] = engines[f]
  OBVIOUS
<1>3. engines' \in Seq(Range(engines')) BY <1>1, <1>2, SameLength
<1>4. ASSUME NEW f \in DOMAIN engines
      PROVE  Keeps(engines[f], engines'[f]) /\ Life(engines[f], engines'[f], Named(heap, f))
  <2>1. CASE f = e BY <1>2, <2>1
  <2>2. CASE f # e BY <1>1, <1>2, <2>2 DEF Keeps, Life
  <2> QED BY <2>1, <2>2
<1> QED BY <1>2, <1>3, <1>4 DEF EnginesMove

(* An engine that is closed is one that moves. *)
LEMMA ClosedMoves ==
  ASSUME NEW x, DOMAIN x = Fields, NEW sid
  PROVE  Keeps(x, Closed(x)) /\ Life(x, Closed(x), sid)
BY DEF Fields, Closed, Keeps, Life

(* What is written changes no more than that. *)
LEMMA OutMoves ==
  ASSUME NEW x, DOMAIN x = Fields, NEW sid, NEW out
  PROVE  /\ Keeps(x, [x EXCEPT !.out = out]) /\ Life(x, [x EXCEPT !.out = out], sid)
         /\ Keeps(x, [x EXCEPT !.served = out]) /\ Life(x, [x EXCEPT !.served = out], sid)
         /\ DOMAIN [x EXCEPT !.out = out] = Fields
         /\ DOMAIN [x EXCEPT !.served = out] = Fields
         /\ [x EXCEPT !.out = out].state = x.state
BY DEF Fields, Keeps, Life

(* Nothing happens to sockets, or one of them becomes active or inactive.   *)
LEMMA SocketsStay ==
  ASSUME Typed, UNCHANGED <<calls, managers, cache>>,
         \/ sockets' = sockets
         \/ \E s \in DOMAIN sockets, b \in BOOLEAN :
              sockets' = [sockets EXCEPT ![s].active = b]
  PROVE  SameSockets
<1>1. /\ sockets \in Seq(SocketType) /\ DOMAIN sockets = 1 .. Len(sockets)
      /\ \A s \in DOMAIN sockets : sockets[s] \in SocketType
  BY Parts DEF Typed
<1>2. CASE sockets' = sockets BY <1>1, <1>2 DEF SameSockets
<1>3. ASSUME NEW s \in DOMAIN sockets, NEW b \in BOOLEAN,
             sockets' = [sockets EXCEPT ![s].active = b]
      PROVE  SameSockets
  <2> DEFINE y == [sockets[s] EXCEPT !.active = b]
  <2>1. sockets' = [sockets EXCEPT ![s] = y] BY <1>3
  <2>2. /\ y \in SocketType /\ y.io = sockets[s].io /\ y.nsp = sockets[s].nsp
        /\ y.url = sockets[s].url /\ y.opts = sockets[s].opts
    BY <1>1 DEF SocketType
  <2> HIDE DEF y
  <2>3. /\ sockets' \in Seq(SocketType) /\ DOMAIN sockets' = DOMAIN sockets
        /\ \A i \in 1 .. Len(sockets) : sockets'[i] = IF i = s THEN y ELSE sockets[i]
    BY <1>1, <2>1, <2>2, ExceptSeq
  <2> QED BY <1>1, <2>2, <2>3 DEF SameSockets
<1> QED BY <1>2, <1>3

(* The engine of a manager, and that of a socket. *)
LEMMA EngineOf ==
  ASSUME PlaceInv
  PROVE  /\ \A m \in DOMAIN managers : current[m] \in DOMAIN engines
         /\ \A s \in DOMAIN sockets : /\ sockets[s].io \in DOMAIN managers
                                      /\ current[sockets[s].io] \in DOMAIN engines
         /\ \A e \in DOMAIN engines : DOMAIN engines[e] = Fields
BY DEF PlaceInv, Registered, Owned, Typed, EnginesTyped

(* A request of an engine, its answer, or its end. *)
LEMMA RequestMoves ==
  ASSUME PlaceInv, NEW e \in DOMAIN engines,
         Poll(e) \/ Lost(e) \/ PollAnswered(e) \/ Post(e)
  PROVE  EnginesMove /\ SameSockets /\ heap' = heap
<1> DEFINE x == engines[e]
           sid == Named(heap, e)
<1>1. DOMAIN x = Fields BY EngineOf
<1>2. /\ UNCHANGED <<cache, managers, current, calls, sockets, heap>>
  BY DEF Poll, Lost, PollAnswered, Post, Engines
<1>3. SameSockets BY <1>2, SocketsStay DEF PlaceInv
<1>4. CASE Poll(e)
  <2> DEFINE y == [x EXCEPT !.polling = TRUE, !.asked = sid]
  <2>1. engines' = [engines EXCEPT ![e] = y] /\ x.state = "opening"
    BY <1>4 DEF Poll, Engines
  <2>2. Keeps(x, y) /\ Life(x, y, sid) BY <1>1, <2>1 DEF Fields, Keeps, Life
  <2> HIDE DEF y
  <2> QED BY <1>2, <1>3, <2>1, <2>2, OneMoves DEF PlaceInv
<1>5. CASE Lost(e)
  <2>1. engines' = [engines EXCEPT ![e] = Closed(x)] BY <1>5 DEF Lost, Engines
  <2> QED BY <1>1, <1>2, <1>3, <2>1, ClosedMoves, OneMoves DEF PlaceInv
<1>6. CASE PollAnswered(e)
  <2> DEFINE next == [x EXCEPT !.served = <<>>, !.asked = sid]
  <2>1. engines' = [engines EXCEPT ![e] = Closed(next)] \/ engines' = [engines EXCEPT ![e] = next]
    BY <1>6 DEF PollAnswered, Engines
  <2>2. x.state = "open" BY <1>6 DEF PollAnswered, Open
  <2>3. Keeps(x, next) /\ Life(x, next, sid) /\ DOMAIN next = Fields
    BY <1>1, <2>2 DEF Fields, Keeps, Life
  <2>4. Keeps(x, Closed(next)) /\ Life(x, Closed(next), sid)
    <3> HIDE DEF next
    <3>1. Keeps(next, Closed(next)) BY <2>3, ClosedMoves
    <3>2. Closed(next).state = "closed" /\ Closed(next).polling = FALSE
      BY <2>3 DEF Closed, Fields
    <3> QED BY <2>3, <3>1, <3>2 DEF Keeps, Life
  <2> HIDE DEF next
  <2> QED BY <1>2, <1>3, <2>1, <2>3, <2>4, OneMoves DEF PlaceInv
<1>7. CASE Post(e)
  <2> DEFINE y == [x EXCEPT !.out = <<>>]
  <2>1. engines' = [engines EXCEPT ![e] = Closed(x)] \/ engines' = [engines EXCEPT ![e] = y]
    BY <1>7 DEF Post, Engines
  <2>2. Keeps(x, y) /\ Life(x, y, sid) BY <1>1, OutMoves
  <2>3. Keeps(x, Closed(x)) /\ Life(x, Closed(x), sid) BY <1>1, ClosedMoves
  <2> HIDE DEF y
  <2> QED BY <1>2, <1>3, <2>1, <2>2, <2>3, OneMoves DEF PlaceInv
<1> QED BY <1>4, <1>5, <1>6, <1>7

(* Packets are written, by a socket or by the server. *)
LEMMA PacketMoves ==
  ASSUME PlaceInv,
         \/ \E s \in DOMAIN sockets, p \in Outgoing : Emit(s, p)
         \/ \E e \in DOMAIN engines, nsp \in Namespaces, p \in Incoming : ServerSends(e, nsp, p)
  PROVE  EnginesMove /\ SameSockets /\ heap' = heap
<1>1. UNCHANGED <<cache, managers, current, calls, sockets, heap>>
  BY DEF Emit, ServerSends, Engines
<1>2. SameSockets BY <1>1, SocketsStay DEF PlaceInv
<1>3. ASSUME NEW s \in DOMAIN sockets, NEW p \in Outgoing, Emit(s, p) PROVE EnginesMove
  <2> DEFINE e == current[sockets[s].io]
             out == Append(engines[e].out, Packet(sockets[s].nsp, p))
             y == [engines[e] EXCEPT !.out = out]
  <2>1. engines' = [engines EXCEPT ![e] = y] BY <1>3 DEF Emit
  <2>2. e \in DOMAIN engines /\ DOMAIN engines[e] = Fields BY EngineOf
  <2> HIDE DEF e, out
  <2>3. Keeps(engines[e], y) /\ Life(engines[e], y, Named(heap, e)) BY <2>2, OutMoves
  <2> HIDE DEF y
  <2> QED BY <1>1, <2>1, <2>2, <2>3, OneMoves DEF PlaceInv
<1>4. ASSUME NEW e \in DOMAIN engines, NEW nsp \in Namespaces, NEW p \in Incoming,
             ServerSends(e, nsp, p)
      PROVE  EnginesMove
  <2> DEFINE out == Append(engines[e].served, Packet(nsp, p))
             y == [engines[e] EXCEPT !.served = out]
  <2>1. engines' = [engines EXCEPT ![e] = y] BY <1>4 DEF ServerSends, Engines
  <2>2. DOMAIN engines[e] = Fields BY EngineOf
  <2> HIDE DEF out
  <2>3. Keeps(engines[e], y) /\ Life(engines[e], y, Named(heap, e)) BY <2>2, OutMoves
  <2> HIDE DEF y
  <2> QED BY <1>1, <2>1, <2>3, OneMoves DEF PlaceInv
<1> QED BY <1>1, <1>2, <1>3, <1>4

(* disconnect() writes, and closes the engine or lets it close. *)
LEMMA DisconnectMoves ==
  ASSUME PlaceInv, NEW s \in DOMAIN sockets, NEW connected \in BOOLEAN,
         UserDisconnects(s, connected)
  PROVE  EnginesMove /\ SameSockets /\ heap' = heap
<1> DEFINE e == current[sockets[s].io]
           x == engines[e]
           out == IF connected
                  THEN Append(engines[e].out, Packet(sockets[s].nsp, DisconnectPacket))
                  ELSE engines[e].out
<1>1. /\ UNCHANGED <<cache, managers, current, heap, calls>>
      /\ sockets' = [sockets EXCEPT ![s].active = FALSE]
  BY DEF UserDisconnects
<1>2. SameSockets BY <1>1, SocketsStay DEF PlaceInv
<1>3. e \in DOMAIN engines /\ DOMAIN x = Fields BY EngineOf
<1> DEFINE y == [x EXCEPT !.out = out]
           z == [x EXCEPT !.out = out, !.state = "closing"]
<1>4. \/ engines' = [engines EXCEPT ![e] = y]
      \/ engines' = [engines EXCEPT ![e] = z] /\ x.state = "open"
      \/ engines' = [engines EXCEPT ![e] = Closed(x)]
  BY DEF UserDisconnects, Open
<1> HIDE DEF out, e
<1>5. Keeps(x, y) /\ Life(x, y, Named(heap, e)) BY <1>3, OutMoves
<1>6. x.state = "open" => Keeps(x, z) /\ Life(x, z, Named(heap, e))
  BY <1>3 DEF Fields, Keeps, Life
<1>7. Keeps(x, Closed(x)) /\ Life(x, Closed(x), Named(heap, e)) BY <1>3, ClosedMoves
<1> HIDE DEF y, z
<1>8. EnginesMove BY <1>1, <1>3, <1>4, <1>5, <1>6, <1>7, OneMoves DEF PlaceInv
<1> QED BY <1>1, <1>2, <1>8

(* connect() opens the manager, or leaves it to its engine.                 *)
LEMMA ConnectMoves ==
  ASSUME PlaceInv, NEW h, NEW m \in DOMAIN managers, NEW nsp, Connects(h, m, nsp),
         DOMAIN managers' = DOMAIN managers,
         managers'[m].url = managers[m].url, managers'[m].opts = managers[m].opts
  PROVE  \/ EnginesMove /\ heap' = h
         \/ Opened(h, m)
<1> DEFINE e == current[m]
<1>1. e \in DOMAIN engines /\ DOMAIN engines[e] = Fields BY EngineOf
<1>2. CASE /\ engines' = IF Open(e)
                         THEN [engines EXCEPT ![e].out = Append(@, Packet(nsp, ConnectPacket))]
                         ELSE engines
           /\ heap' = h /\ current' = current
  <2> DEFINE out == Append(engines[e].out, Packet(nsp, ConnectPacket))
             y == [engines[e] EXCEPT !.out = out]
  <2>1. engines' = [engines EXCEPT ![e] = y] \/ engines' = engines BY <1>2
  <2> HIDE DEF out
  <2>2. Keeps(engines[e], y) /\ Life(engines[e], y, Named(heap, e)) BY <1>1, OutMoves
  <2>3. ASSUME engines' = engines PROVE EnginesMove
    BY <1>2, <2>3 DEF EnginesMove, Keeps, Life, PlaceInv, Typed, EnginesTyped
  <2> HIDE DEF y, e
  <2> QED BY <1>1, <1>2, <2>1, <2>2, <2>3, OneMoves DEF PlaceInv
<1>3. CASE Ended(e) /\ Opens(h, m)
  <2>1. /\ current \in Seq(Nat) /\ m \in 1 .. Len(current) /\ Len(engines) + 1 \in Nat
        /\ DOMAIN current = DOMAIN managers /\ DOMAIN current = 1 .. Len(current)
    BY Parts DEF PlaceInv, Owned, Typed
  <2>2. current' = [current EXCEPT ![m] = Len(engines) + 1] BY <1>3 DEF Opens
  <2>3. /\ current' \in Seq(Nat)
        /\ \A n \in 1 .. Len(current) :
             current'[n] = IF n = m THEN Len(engines) + 1 ELSE current[n]
    BY <2>1, <2>2, ExceptSeq
  <2>4. DOMAIN current' = DOMAIN current BY <2>2
  <2> QED BY <1>3, <2>1, <2>3, <2>4 DEF Opened, Opens
<1>4. \/ Ended(e) /\ Opens(h, m)
      \/ /\ engines' = IF Open(e)
                       THEN [engines EXCEPT ![e].out = Append(@, Packet(nsp, ConnectPacket))]
                       ELSE engines
         /\ heap' = h /\ current' = current
  BY DEF Connects
<1> QED BY <1>2, <1>3, <1>4

(* The engine that opens now, made by UserConnects or by a reconnection.    *)
LEMMA ReconnectMoves ==
  ASSUME PlaceInv, NEW m \in DOMAIN managers, Reconnect(m)
  PROVE  Opened(heap, m) /\ SameSockets
<1>1. UNCHANGED <<cache, managers, sockets, calls>> /\ Opens(heap, m) /\ Ended(current[m])
  BY DEF Reconnect, Ended
<1>2. SameSockets BY <1>1, SocketsStay DEF PlaceInv
<1>3. /\ current \in Seq(Nat) /\ m \in 1 .. Len(current) /\ Len(engines) + 1 \in Nat
      /\ DOMAIN current = DOMAIN managers /\ DOMAIN current = 1 .. Len(current)
  BY Parts DEF PlaceInv, Owned, Typed
<1>4. current' = [current EXCEPT ![m] = Len(engines) + 1] BY <1>1 DEF Opens
<1>5. /\ current' \in Seq(Nat)
      /\ \A n \in 1 .. Len(current) :
           current'[n] = IF n = m THEN Len(engines) + 1 ELSE current[n]
  BY <1>3, <1>4, ExceptSeq
<1>6. DOMAIN current' = DOMAIN current BY <1>4
<1> QED BY <1>1, <1>2, <1>3, <1>5, <1>6 DEF Opened, Opens

LEMMA UserConnectsMoves ==
  ASSUME PlaceInv, NEW s \in DOMAIN sockets, UserConnects(s)
  PROVE  /\ SameSockets
         /\ \/ EnginesMove /\ heap' = heap
            \/ \E m \in DOMAIN managers : Opened(heap, m)
<1>1. /\ UNCHANGED <<cache, managers, calls>>
      /\ sockets' = [sockets EXCEPT ![s].active = TRUE]
      /\ Connects(heap, sockets[s].io, sockets[s].nsp)
  BY DEF UserConnects
<1>2. SameSockets BY <1>1, SocketsStay DEF PlaceInv
<1>3. sockets[s].io \in DOMAIN managers BY EngineOf
<1> QED BY <1>1, <1>2, <1>3, ConnectMoves

(* io() makes the socket s of the manager m, which is new or has none yet   *)
(* for the namespace. *)
Joins(u, o, m) ==
  LET s == Len(sockets) + 1
  IN /\ sockets' \in Seq(SocketType) /\ DOMAIN sockets' = DOMAIN sockets \cup {s}
     /\ s \notin DOMAIN sockets
     /\ \A i \in DOMAIN sockets : sockets'[i] = sockets[i]
     /\ sockets'[s] = NewSocket(u, o, m)
     /\ calls' \in [Options -> Nat] /\ calls'[o] = calls[o] + 1
     /\ \A p \in Options : p # o => calls'[p] = calls[p]
     /\ managers' \in Seq(ManagerType) /\ DOMAIN managers' = DOMAIN managers \cup {m}
     /\ \A n \in DOMAIN managers :
          /\ managers'[n].url = managers[n].url /\ managers'[n].opts = managers[n].opts
          /\ \A nsp \in Namespaces :
               managers'[n].nsps[nsp] = managers[n].nsps[nsp] \/ managers[n].nsps[nsp] = 0
     /\ managers'[m].nsps[Nsp(u)] = s
     /\ m \notin DOMAIN managers => managers'[m].url = u /\ managers'[m].opts = o
     /\ IdOf(managers'[m]) = Id(u, o)
     /\ cache' \in [Ids -> 0 .. Len(managers')]
     /\ \A id \in Ids : cache'[id] = cache[id] \/ (id = Id(u, o) /\ cache'[id] = m)

(* What both io()s do. *)
LEMMA SocketPushed ==
  ASSUME Typed, NEW u \in Urls, NEW o \in Options, Nsp(u) \in Namespaces, NEW m \in Nat,
         sockets' = Append(sockets, NewSocket(u, o, m)),
         calls' = [calls EXCEPT ![o] = @ + 1]
  PROVE  LET s == Len(sockets) + 1
         IN /\ sockets' \in Seq(SocketType) /\ DOMAIN sockets' = DOMAIN sockets \cup {s}
            /\ s \notin DOMAIN sockets /\ s \in Nat
            /\ \A i \in DOMAIN sockets : sockets'[i] = sockets[i]
            /\ sockets'[s] = NewSocket(u, o, m)
            /\ calls' \in [Options -> Nat] /\ calls'[o] = calls[o] + 1
            /\ \A p \in Options : p # o => calls'[p] = calls[p]
<1> DEFINE x == NewSocket(u, o, m)
           s == Len(sockets) + 1
<1>1. x \in SocketType BY DEF NewSocket, SocketType
<1> HIDE DEF x
<1>2. /\ sockets' \in Seq(SocketType) /\ Len(sockets) \in Nat
      /\ DOMAIN sockets = 1 .. Len(sockets) /\ DOMAIN sockets' = 1 .. Len(sockets) + 1
      /\ \A i \in 1 .. Len(sockets) : sockets'[i] = sockets[i]
      /\ sockets'[s] = x
  <2>1. sockets \in Seq(SocketType) /\ sockets' = Append(sockets, x) BY DEF Typed, x
  <2> QED BY <1>1, <2>1, Pushed
<1>3. DOMAIN sockets' = DOMAIN sockets \cup {s} /\ s \notin DOMAIN sockets /\ s \in Nat
  BY <1>2
<1>4. calls' \in [Options -> Nat] /\ calls'[o] = calls[o] + 1
      /\ \A p \in Options : p # o => calls'[p] = calls[p]
  BY DEF Typed
<1> QED BY <1>2, <1>3, <1>4 DEF x

LEMMA IoJoins ==
  ASSUME PlaceInv, NEW u \in Urls, NEW o \in Options, Id(u, o) \in Ids, Nsp(u) \in Namespaces,
         Io(u, o)
  PROVE  Joins(u, o, Len(managers) + 1) /\ Opened(heap, Len(managers) + 1)
<1> DEFINE m == Len(managers) + 1
           s == Len(sockets) + 1
           x == [url |-> u, opts |-> o, nsps |-> [n \in Namespaces |-> IF n = Nsp(u) THEN s ELSE 0]]
<1>1. /\ cache' = IF NewConnection(u, o) THEN cache ELSE [cache EXCEPT ![Id(u, o)] = m]
      /\ NewEngine(heap, u, o)
      /\ managers' = Append(managers, x)
      /\ current' = Append(current, Len(engines) + 1)
      /\ sockets' = Append(sockets, NewSocket(u, o, m))
      /\ calls' = [calls EXCEPT ![o] = @ + 1]
  BY DEF Io
<1>2. Typed /\ managers \in Seq(ManagerType) /\ current \in Seq(Nat)
      /\ Len(managers) \in Nat /\ Len(sockets) \in Nat
      /\ DOMAIN managers = 1 .. Len(managers) /\ m \in Nat /\ s \in Nat
      /\ Len(engines) + 1 \in Nat /\ DOMAIN current = DOMAIN managers
      /\ DOMAIN current = 1 .. Len(current) /\ Len(current) \in Nat
  BY Parts DEF PlaceInv, Typed, Owned
<1>3. x \in ManagerType /\ x.url = u /\ x.opts = o /\ x.nsps[Nsp(u)] = s
  BY <1>2 DEF ManagerType
<1> HIDE DEF x
<1>4. /\ managers' \in Seq(ManagerType) /\ Len(managers') = m
      /\ DOMAIN managers' = 1 .. m
      /\ \A i \in 1 .. Len(managers) : managers'[i] = managers[i]
      /\ managers'[m] = x
  BY <1>1, <1>2, <1>3, Pushed
<1>5. DOMAIN managers' = DOMAIN managers \cup {m} /\ m \notin DOMAIN managers
  BY <1>2, <1>4
<1>6. /\ s \notin DOMAIN sockets
      /\ sockets' \in Seq(SocketType) /\ DOMAIN sockets' = DOMAIN sockets \cup {s}
      /\ \A i \in DOMAIN sockets : sockets'[i] = sockets[i]
      /\ sockets'[s] = NewSocket(u, o, m)
      /\ calls' \in [Options -> Nat] /\ calls'[o] = calls[o] + 1
      /\ \A p \in Options : p # o => calls'[p] = calls[p]
  BY <1>1, <1>2, SocketPushed
<1>7. cache \in [Ids -> 0 .. Len(managers)] BY <1>2 DEF Typed
<1>8. /\ cache' \in [Ids -> 0 .. Len(managers')]
      /\ \A id \in Ids : cache'[id] = cache[id] \/ (id = Id(u, o) /\ cache'[id] = m)
  <2>1. CASE cache' = cache
    <3>1. 0 .. Len(managers) \subseteq 0 .. Len(managers') BY <1>2, <1>4
    <3> QED BY <1>7, <2>1, <3>1
  <2>2. CASE cache' = [cache EXCEPT ![Id(u, o)] = m]
    <3>1. 0 .. Len(managers) \subseteq 0 .. Len(managers') /\ m \in 0 .. Len(managers')
      BY <1>2, <1>4
    <3> QED BY <1>7, <2>2, <3>1
  <2> QED BY <1>1, <2>1, <2>2
<1>9. IdOf(managers'[m]) = Id(u, o) BY <1>3, <1>4 DEF IdOf
<1>10. Joins(u, o, m)
  <2>1. \A n \in DOMAIN managers : managers'[n] = managers[n] BY <1>2, <1>4
  <2> HIDE DEF m
  <2> QED BY <1>3, <1>4, <1>5, <1>6, <1>8, <1>9, <2>1 DEF Joins
<1>11. /\ current' \in Seq(Nat) /\ DOMAIN current' = 1 .. Len(current) + 1
       /\ \A i \in 1 .. Len(current) : current'[i] = current[i]
       /\ current'[Len(current) + 1] = Len(engines) + 1
  BY <1>1, <1>2, Pushed
<1>12. Len(current) = Len(managers)
  <2>1. 1 .. Len(current) = 1 .. Len(managers) BY <1>2
  <2> QED BY <1>2, <2>1
<1>13. NewEngine(heap, managers'[m].url, managers'[m].opts) BY <1>1, <1>3, <1>4
<1>14. Opened(heap, m)
  <2>1. DOMAIN current' = DOMAIN managers' /\ current'[m] = Len(engines) + 1
        /\ \A i \in DOMAIN managers : current'[i] = current[i]
    BY <1>2, <1>4, <1>11, <1>12
  <2> HIDE DEF m
  <2> QED BY <1>5, <1>11, <1>13, <2>1 DEF Opened
<1> QED BY <1>10, <1>14

LEMMA IoSharedJoins ==
  ASSUME PlaceInv, NEW u \in Urls, NEW o \in Options, Id(u, o) \in Ids, Nsp(u) \in Namespaces,
         IoShared(u, o)
  PROVE  \E m \in DOMAIN managers :
           /\ Joins(u, o, m)
           /\ \/ EnginesMove /\ heap' = Lent(u, o)
              \/ Opened(Lent(u, o), m)
<1> DEFINE m == cache[Id(u, o)]
           s == Len(sockets) + 1
           x == [managers[m] EXCEPT !.nsps[Nsp(u)] = s]
<1>1. /\ m # 0 /\ ~NewConnection(u, o)
      /\ Connects(Lent(u, o), m, Nsp(u))
      /\ managers' = [managers EXCEPT ![m] = x]
      /\ sockets' = Append(sockets, NewSocket(u, o, m))
      /\ calls' = [calls EXCEPT ![o] = @ + 1]
      /\ cache' = cache
  BY DEF IoShared
<1>2. /\ Typed /\ managers \in Seq(ManagerType) /\ cache \in [Ids -> 0 .. Len(managers)]
      /\ Len(managers) \in Nat /\ Len(sockets) \in Nat
      /\ DOMAIN managers = 1 .. Len(managers) /\ s \in Nat
      /\ \A n \in DOMAIN managers : managers[n] \in ManagerType
  BY Parts DEF PlaceInv, Typed
<1>3. m \in DOMAIN managers /\ m \in Nat
  <2>1. m \in 0 .. Len(managers) BY <1>2
  <2> HIDE DEF m
  <2> QED BY <1>1, <1>2, <2>1
<1>4. managers[m].nsps[Nsp(u)] = 0 BY <1>1 DEF NewConnection, SameNamespace
<1>5. IdOf(managers[m]) = Id(u, o) BY <1>1 DEF PlaceInv, Identified
<1>6. /\ s \notin DOMAIN sockets
      /\ sockets' \in Seq(SocketType) /\ DOMAIN sockets' = DOMAIN sockets \cup {s}
      /\ \A i \in DOMAIN sockets : sockets'[i] = sockets[i]
      /\ sockets'[s] = NewSocket(u, o, m)
      /\ calls' \in [Options -> Nat] /\ calls'[o] = calls[o] + 1
      /\ \A p \in Options : p # o => calls'[p] = calls[p]
  BY <1>1, <1>2, <1>3, SocketPushed
<1> HIDE DEF m
<1>7. /\ x \in ManagerType /\ x.url = managers[m].url /\ x.opts = managers[m].opts
      /\ x.nsps[Nsp(u)] = s
      /\ \A nsp \in Namespaces : nsp # Nsp(u) => x.nsps[nsp] = managers[m].nsps[nsp]
  BY <1>2, <1>3 DEF ManagerType
<1> HIDE DEF x
<1>8. /\ managers' \in Seq(ManagerType) /\ Len(managers') = Len(managers)
      /\ DOMAIN managers' = DOMAIN managers
      /\ \A n \in 1 .. Len(managers) : managers'[n] = IF n = m THEN x ELSE managers[n]
  BY <1>1, <1>2, <1>3, <1>7, ExceptSeq
<1>9. ASSUME NEW n \in DOMAIN managers
      PROVE  /\ managers'[n].url = managers[n].url /\ managers'[n].opts = managers[n].opts
             /\ \A nsp \in Namespaces :
                  managers'[n].nsps[nsp] = managers[n].nsps[nsp] \/ managers[n].nsps[nsp] = 0
  <2>1. CASE n = m BY <1>2, <1>4, <1>7, <1>8, <2>1
  <2>2. CASE n # m BY <1>2, <1>8, <2>2
  <2> QED BY <2>1, <2>2
<1>10. managers'[m].nsps[Nsp(u)] = s /\ IdOf(managers'[m]) = Id(u, o)
  BY <1>2, <1>3, <1>5, <1>7, <1>8 DEF IdOf
<1>11. Joins(u, o, m)
  <2>1. cache' \in [Ids -> 0 .. Len(managers')] BY <1>1, <1>2, <1>8
  <2>2. DOMAIN managers' = DOMAIN managers \cup {m} BY <1>3, <1>8
  <2> QED BY <1>1, <1>3, <1>6, <1>8, <1>9, <1>10, <2>1, <2>2 DEF Joins
<1>12. \/ EnginesMove /\ heap' = Lent(u, o)
       \/ Opened(Lent(u, o), m)
  BY <1>1, <1>3, <1>8, <1>9, ConnectMoves
<1> QED BY <1>3, <1>11, <1>12

(***************************************************************************)
(* Managers and sockets                                                     *)
(***************************************************************************)
(* The part of the invariant that no engine matters to. *)
SocketsTyped ==
  /\ managers \in Seq(ManagerType) /\ sockets \in Seq(SocketType)
  /\ calls \in [Options -> Nat] /\ cache \in [Ids -> 0 .. Len(managers)]
SocketInv == SocketsTyped /\ Registered /\ Counted /\ Identified

(* It stays when sockets become active or inactive. *)
LEMMA SameSocketsKept ==
  ASSUME PlaceInv, SameSockets
  PROVE  SocketInv' /\ Grow /\ DOMAIN managers' = DOMAIN managers
<1>1. /\ sockets' \in Seq(SocketType) /\ DOMAIN sockets' = DOMAIN sockets
      /\ \A s \in DOMAIN sockets :
           /\ sockets'[s].io = sockets[s].io /\ sockets'[s].nsp = sockets[s].nsp
           /\ sockets'[s].url = sockets[s].url /\ sockets'[s].opts = sockets[s].opts
      /\ calls' = calls /\ managers' = managers /\ cache' = cache
  BY DEF SameSockets
<1>2. SocketsTyped' BY <1>1 DEF SocketsTyped, PlaceInv, Typed
<1>3. Registered'
  <2>1. \A s \in DOMAIN sockets' : /\ sockets'[s].io \in DOMAIN managers'
                                   /\ managers'[sockets'[s].io].nsps[sockets'[s].nsp] = s
    BY <1>1 DEF PlaceInv, Registered
  <2>2. ASSUME NEW m \in DOMAIN managers'
        PROVE  \E s \in DOMAIN sockets' :
                 /\ sockets'[s].io = m
                 /\ sockets'[s].url = managers'[m].url /\ sockets'[s].opts = managers'[m].opts
    <3>1. PICK s \in DOMAIN sockets :
            /\ sockets[s].io = m
            /\ sockets[s].url = managers[m].url /\ sockets[s].opts = managers[m].opts
      BY <1>1 DEF PlaceInv, Registered
    <3> QED BY <1>1, <3>1
  <2> QED BY <2>1, <2>2 DEF Registered
<1>4. Counted' BY <1>1 DEF PlaceInv, Counted
<1>5. Identified'
  <2>1. \A id \in Ids : cache'[id] # 0 => IdOf(managers'[cache'[id]]) = id
    BY <1>1 DEF PlaceInv, Identified, IdOf
  <2>2. ASSUME NEW s \in DOMAIN sockets'
        PROVE  IdOf(sockets'[s]) = IdOf(managers'[sockets'[s].io])
    <3>1. IdOf(sockets[s]) = IdOf(managers[sockets[s].io])
      BY <1>1 DEF PlaceInv, Identified
    <3> QED BY <1>1, <3>1 DEF IdOf
  <2> QED BY <2>1, <2>2 DEF Identified
<1>6. \A o \in Options : calls[o] \in Nat BY Parts DEF PlaceInv
<1>7. Grow BY <1>1, <1>6 DEF Grow
<1> QED BY <1>1, <1>2, <1>3, <1>4, <1>5, <1>7 DEF SocketInv

(* It stays when io() makes a socket. *)
LEMMA JoinsKept ==
  ASSUME PlaceInv, NEW u \in Urls, NEW o \in Options, NEW m, Joins(u, o, m),
         Nsp(u) \in Namespaces
  PROVE  SocketInv' /\ Grow /\ DOMAIN managers' = DOMAIN managers \cup {m}
<1> DEFINE s == Len(sockets) + 1
<1>1. /\ sockets' \in Seq(SocketType) /\ DOMAIN sockets' = DOMAIN sockets \cup {s}
      /\ s \notin DOMAIN sockets
      /\ \A i \in DOMAIN sockets : sockets'[i] = sockets[i]
      /\ sockets'[s] = NewSocket(u, o, m)
      /\ calls' \in [Options -> Nat] /\ calls'[o] = calls[o] + 1
      /\ \A p \in Options : p # o => calls'[p] = calls[p]
  BY DEF Joins
<1>2. /\ managers' \in Seq(ManagerType) /\ DOMAIN managers' = DOMAIN managers \cup {m}
      /\ \A n \in DOMAIN managers :
           /\ managers'[n].url = managers[n].url /\ managers'[n].opts = managers[n].opts
           /\ \A nsp \in Namespaces :
                managers'[n].nsps[nsp] = managers[n].nsps[nsp] \/ managers[n].nsps[nsp] = 0
      /\ managers'[m].nsps[Nsp(u)] = s
      /\ m \notin DOMAIN managers => managers'[m].url = u /\ managers'[m].opts = o
      /\ IdOf(managers'[m]) = Id(u, o)
      /\ cache' \in [Ids -> 0 .. Len(managers')]
      /\ \A id \in Ids : cache'[id] = cache[id] \/ (id = Id(u, o) /\ cache'[id] = m)
  BY DEF Joins
<1>3. /\ DOMAIN sockets = 1 .. Len(sockets) /\ Len(sockets) \in Nat /\ s \in Nat /\ s # 0
      /\ DOMAIN managers = 1 .. Len(managers) /\ Len(managers) \in Nat
      /\ \A i \in DOMAIN sockets : sockets[i].nsp \in Namespaces /\ sockets[i].opts \in Options
      /\ \A p \in Options : calls[p] \in Nat
  BY Parts DEF PlaceInv
<1>4. sockets'[s].io = m /\ sockets'[s].nsp = Nsp(u) /\ sockets'[s].url = u /\ sockets'[s].opts = o
  BY <1>1 DEF NewSocket
<1> HIDE DEF s
<1>5. SocketsTyped' BY <1>1, <1>2 DEF SocketsTyped
<1>6. \A p \in Options : calls'[p] \in Nat /\ calls'[p] >= calls[p]
  BY <1>1, <1>3
<1>7. Grow
  <2>1. \A n \in DOMAIN managers : n \in DOMAIN managers'
    BY <1>2
  <2>2. \A i \in DOMAIN sockets : i \in DOMAIN sockets' BY <1>1
  <2> QED BY <1>1, <1>2, <1>6, <2>1, <2>2 DEF Grow
<1>8. Registered'
  <2>1. ASSUME NEW i \in DOMAIN sockets'
        PROVE  /\ sockets'[i].io \in DOMAIN managers'
               /\ managers'[sockets'[i].io].nsps[sockets'[i].nsp] = i
    <3>1. CASE i = s BY <1>2, <1>4, <3>1
    <3>2. CASE i \in DOMAIN sockets
      <4>1. /\ sockets[i].io \in DOMAIN managers
            /\ managers[sockets[i].io].nsps[sockets[i].nsp] = i
        BY <3>2 DEF PlaceInv, Registered
      <4>2. i # 0 BY <1>3, <3>2
      <4>3. sockets[i].nsp \in Namespaces BY <1>3, <3>2
      <4>4. managers'[sockets[i].io].nsps[sockets[i].nsp] = i BY <1>2, <4>1, <4>2, <4>3
      <4> QED BY <1>1, <1>2, <3>2, <4>1, <4>4
    <3> QED BY <1>1, <3>1, <3>2
  <2>2. ASSUME NEW n \in DOMAIN managers'
        PROVE  \E i \in DOMAIN sockets' :
                 /\ sockets'[i].io = n
                 /\ sockets'[i].url = managers'[n].url /\ sockets'[i].opts = managers'[n].opts
    <3>1. CASE n \in DOMAIN managers
      <4>1. PICK i \in DOMAIN sockets :
              /\ sockets[i].io = n
              /\ sockets[i].url = managers[n].url /\ sockets[i].opts = managers[n].opts
        BY <3>1 DEF PlaceInv, Registered
      <4> QED BY <1>1, <1>2, <3>1, <4>1
    <3>2. CASE n = m /\ m \notin DOMAIN managers BY <1>1, <1>2, <1>4, <3>2
    <3> QED BY <1>2, <3>1, <3>2
  <2> QED BY <2>1, <2>2 DEF Registered
<1>9. Counted'
  <2>1. ASSUME NEW i \in DOMAIN sockets' PROVE calls'[sockets'[i].opts] >= 1
    <3>1. CASE i = s BY <1>1, <1>3, <1>4, <3>1
    <3>2. CASE i \in DOMAIN sockets
      <4>1. calls[sockets[i].opts] >= 1 /\ sockets[i].opts \in Options
        BY <1>3, <3>2 DEF PlaceInv, Counted
      <4> QED BY <1>1, <1>3, <1>6, <3>2, <4>1
    <3> QED BY <1>1, <3>1, <3>2
  <2>2. ASSUME NEW i \in DOMAIN sockets', NEW j \in DOMAIN sockets', i # j,
               sockets'[i].opts = sockets'[j].opts
        PROVE  calls'[sockets'[i].opts] > 1
    <3>1. CASE i = s
      <4>1. j \in DOMAIN sockets /\ sockets[j].opts = o BY <1>1, <1>4, <2>2, <3>1
      <4>2. calls[o] >= 1 BY <4>1 DEF PlaceInv, Counted
      <4> QED BY <1>1, <1>3, <1>4, <3>1, <4>2
    <3>2. CASE j = s
      <4>1. i \in DOMAIN sockets /\ sockets[i].opts = o BY <1>1, <1>4, <2>2, <3>2
      <4>2. calls[o] >= 1 BY <4>1 DEF PlaceInv, Counted
      <4> QED BY <1>1, <1>3, <1>4, <2>2, <3>2, <4>2
    <3>3. CASE i \in DOMAIN sockets /\ j \in DOMAIN sockets
      <4>1. sockets'[i] = sockets[i] /\ sockets'[j] = sockets[j] BY <1>1, <3>3
      <4>2. sockets[i].opts \in Options /\ sockets[i].opts = sockets[j].opts
        BY <1>3, <2>2, <3>3, <4>1
      <4>3. calls[sockets[i].opts] > 1 BY <2>2, <3>3, <4>2 DEF PlaceInv, Counted
      <4> QED BY <1>3, <1>6, <4>1, <4>2, <4>3
    <3> QED BY <1>1, <3>1, <3>2, <3>3
  <2> QED BY <2>1, <2>2 DEF Counted
<1>10. Identified'
  <2>1. ASSUME NEW id \in Ids, cache'[id] # 0 PROVE IdOf(managers'[cache'[id]]) = id
    <3>1. CASE cache'[id] = cache[id]
      <4>1. IdOf(managers[cache[id]]) = id BY <2>1, <3>1 DEF PlaceInv, Identified
      <4>2. cache[id] \in 0 .. Len(managers) BY DEF PlaceInv, Typed
      <4>3. cache[id] \in DOMAIN managers BY <1>3, <2>1, <3>1, <4>2
      <4> QED BY <1>2, <3>1, <4>1, <4>3 DEF IdOf
    <3>2. CASE id = Id(u, o) /\ cache'[id] = m BY <1>2, <3>2
    <3> QED BY <1>2, <3>1, <3>2
  <2>2. ASSUME NEW i \in DOMAIN sockets'
        PROVE  IdOf(sockets'[i]) = IdOf(managers'[sockets'[i].io])
    <3>1. CASE i = s BY <1>2, <1>4, <3>1 DEF IdOf
    <3>2. CASE i \in DOMAIN sockets
      <4>1. IdOf(sockets[i]) = IdOf(managers[sockets[i].io]) /\ sockets[i].io \in DOMAIN managers
        BY <3>2 DEF PlaceInv, Identified, Registered
      <4> QED BY <1>1, <1>2, <3>2, <4>1 DEF IdOf
    <3> QED BY <1>1, <3>1, <3>2
  <2> QED BY <2>1, <2>2 DEF Identified
<1> QED BY <1>2, <1>5, <1>7, <1>8, <1>9, <1>10 DEF SocketInv

(***************************************************************************)
(* Engines and their managers                                               *)
(***************************************************************************)
(* The engine e gets its session, and the table it refers to names it.      *)
Opening(e) ==
  /\ e \in DOMAIN engines /\ e \in Nat
  /\ engines[e].state = "opening" /\ engines[e].polling /\ engines[e].asked = 0
  /\ engines'[e].state = "open" /\ engines'[e].polling = engines[e].polling
  /\ engines'[e].asked = Named(heap', e)
  /\ \A f \in DOMAIN engines : f # e => engines'[f] = engines[f]
  /\ heap' = [heap EXCEPT !.tables[engines[e].query].sid = e]

(* No engine is new, none gets another table and none comes back to life.   *)
EnginesStay ==
  /\ engines' \in Seq(Range(engines'))
  /\ DOMAIN engines' = DOMAIN engines /\ current' = current
  /\ \A e \in DOMAIN engines :
       Keeps(engines[e], engines'[e]) /\ (Ended(e) => Ended(e)')

LEMMA MovesStay ==
  ASSUME EnginesMove
  PROVE  EnginesStay
BY DEF EnginesMove, EnginesStay, Life, Ended

LEMMA HandshakeOpens ==
  ASSUME PlaceInv, NEW e \in DOMAIN engines, Handshake(e)
  PROVE  Opening(e) /\ EnginesStay /\ SameSockets
<1> DEFINE asking == SetToSortSeq(Active(CHOOSE n \in DOMAIN current : current[n] = e), <)
           out == [i \in DOMAIN asking |-> Packet(sockets[asking[i]].nsp, ConnectPacket)]
           x == engines[e]
           asked == heap'.tables[x.query].sid
           y == [x EXCEPT !.state = "open", !.asked = asked, !.out = out]
<1>1. /\ x.state = "opening" /\ x.polling /\ x.asked = 0
      /\ heap' = [heap EXCEPT !.tables[x.query].sid = e]
      /\ UNCHANGED <<cache, managers, current, calls, sockets>>
  BY DEF Handshake, Engines
<1>2. Named(heap', e) = asked BY DEF Named
<1>3. engines' = [engines EXCEPT ![e].state = "open", ![e].asked = Named(heap', e),
                                 ![e].out = out]
  BY DEF Handshake, Engines
<1> HIDE DEF out, asked
<1>4. engines' = [engines EXCEPT ![e] = y] BY <1>2, <1>3
<1>5. DOMAIN x = Fields /\ e \in Nat
  <2>1. DOMAIN engines = 1 .. Len(engines) /\ Len(engines) \in Nat BY Parts DEF PlaceInv
  <2> QED BY <2>1, EngineOf
<1>6. /\ y.state = "open" /\ y.polling = x.polling /\ y.asked = asked /\ Keeps(x, y)
  BY <1>5 DEF Fields, Keeps
<1> HIDE DEF y
<1>7. /\ engines \in Seq(Range(engines)) /\ \A f \in DOMAIN engines : DOMAIN engines[f] = Fields
  BY DEF PlaceInv, Typed, EnginesTyped
<1>8. /\ engines' = [i \in DOMAIN engines |-> engines'[i]] /\ DOMAIN engines' = DOMAIN engines
      /\ engines'[e] = y /\ \A f \in DOMAIN engines : f # e => engines'[f] = engines[f]
  BY <1>4
<1>9. engines' \in Seq(Range(engines')) BY <1>7, <1>8, SameLength
<1>10. ASSUME NEW f \in DOMAIN engines
       PROVE  Keeps(engines[f], engines'[f]) /\ (Ended(f) => Ended(f)')
  <2>1. CASE f = e BY <1>1, <1>6, <1>8, <2>1 DEF Ended
  <2>2. CASE f # e BY <1>7, <1>8, <2>2 DEF Keeps, Ended
  <2> QED BY <2>1, <2>2
<1>11. EnginesStay BY <1>1, <1>8, <1>9, <1>10 DEF EnginesStay
<1>12. Opening(e) BY <1>1, <1>2, <1>5, <1>6, <1>8 DEF Opening
<1>13. SameSockets BY <1>1, SocketsStay DEF PlaceInv
<1> QED BY <1>11, <1>12, <1>13

(* Managers keep their engines. *)
LEMMA StayOwned ==
  ASSUME PlaceInv, EnginesStay, SocketInv', Grow, DOMAIN managers' = DOMAIN managers
  PROVE  PlaceInv'
<1>1. /\ engines' \in Seq(Range(engines')) /\ DOMAIN engines' = DOMAIN engines
      /\ current' = current
      /\ \A e \in DOMAIN engines :
           Keeps(engines[e], engines'[e]) /\ (Ended(e) => Ended(e)')
  BY DEF EnginesStay
<1>2. /\ DOMAIN current = DOMAIN managers /\ current \in Seq(Nat)
      /\ \A m \in DOMAIN managers :
           /\ current[m] \in DOMAIN engines
           /\ LeadsTo(engines[current[m]], managers[m].url, managers[m].opts)
           /\ \A n \in DOMAIN managers : current[m] = current[n] => m = n
      /\ \A e \in DOMAIN engines : Ended(e) \/ \E m \in DOMAIN managers : current[m] = e
  BY DEF PlaceInv, Owned, Typed
<1>3. Typed'
  <2>1. EnginesTyped' BY <1>1 DEF EnginesTyped, Keeps
  <2> QED BY <1>1, <1>2, <2>1 DEF Typed, SocketInv, SocketsTyped
<1>4. ASSUME NEW m \in DOMAIN managers
      PROVE  LeadsTo(engines'[current[m]], managers'[m].url, managers'[m].opts)
  <2>1. Keeps(engines[current[m]], engines'[current[m]]) BY <1>1, <1>2
  <2>2. managers'[m].url = managers[m].url /\ managers'[m].opts = managers[m].opts
    BY DEF Grow
  <2> QED BY <1>2, <2>1, <2>2 DEF Keeps, LeadsTo
<1>5. ASSUME NEW e \in DOMAIN engines
      PROVE  Ended(e)' \/ \E m \in DOMAIN managers : current[m] = e
  BY <1>1, <1>2
<1>6. Owned' BY <1>1, <1>2, <1>4, <1>5 DEF Owned
<1> QED BY <1>3, <1>6 DEF PlaceInv, SocketInv

(* The engine of every manager but n, and that of n, after n opened one     *)
(* with the query table q. *)
OpenedWith(h, n, q) ==
  LET e == Len(engines) + 1
      u == managers'[n].url
      o == managers'[n].opts
  IN /\ DOMAIN managers' = DOMAIN managers \cup {n} /\ n \in DOMAIN managers'
     /\ u \in Urls /\ o \in Options
     /\ engines'[e] = Engine(u, o, q)
     /\ e \notin DOMAIN engines /\ DOMAIN engines' = DOMAIN engines \cup {e}
     /\ engines' \in Seq(Range(engines'))
     /\ \A f \in DOMAIN engines : engines'[f] = engines[f]
     /\ current'[n] = e
     /\ \A m \in DOMAIN managers :
          m # n => current'[m] = current[m] /\ current[m] \in DOMAIN engines
     /\ Finds(h, heap', u, o, q)

LEMMA OpenedParts ==
  ASSUME PlaceInv, NEW h, WellFormed(h), NEW n, Opened(h, n), SocketInv'
  PROVE  \E q \in Nat : OpenedWith(h, n, q)
<1> DEFINE u == managers'[n].url
           o == managers'[n].opts
           e == Len(engines) + 1
<1>1. /\ NewEngine(h, u, o) /\ n \in DOMAIN managers'
      /\ DOMAIN managers' = DOMAIN managers \cup {n}
      /\ current'[n] = e
      /\ \A m \in DOMAIN managers : m # n => current'[m] = current[m]
  BY DEF Opened
<1>2. u \in Urls /\ o \in Options
  <2>1. managers' \in Seq(ManagerType) BY DEF SocketInv, SocketsTyped
  <2>2. DOMAIN managers' = 1 .. Len(managers') BY <2>1, LenProperties
  <2>3. managers'[n] \in ManagerType BY <1>1, <2>1, <2>2, ElementOfSeq
  <2> QED BY <2>3 DEF ManagerType
<1> HIDE DEF u, o
<1>3. PICK q \in Nat : /\ engines' = Append(engines, Engine(u, o, q))
                       /\ Finds(h, heap', u, o, q)
  BY <1>1, <1>2, EngineTables, ZenonT(60)
<1> DEFINE x == Engine(u, o, q)
<1> HIDE DEF x
<1>4. engines \in Seq(Range(engines)) BY DEF PlaceInv, Typed, EnginesTyped
<1>5. /\ engines' \in Seq(Range(engines')) /\ Len(engines) \in Nat
      /\ DOMAIN engines = 1 .. Len(engines)
      /\ DOMAIN engines' = 1 .. Len(engines) + 1
      /\ \A i \in 1 .. Len(engines) : engines'[i] = engines[i]
      /\ engines'[Len(engines) + 1] = x
  <2>1. engines' = Append(engines, x) BY <1>3 DEF x
  <2> QED BY <1>4, <2>1, PushedAny
<1>6. e \notin DOMAIN engines /\ DOMAIN engines' = DOMAIN engines \cup {e} BY <1>5
<1>7. \A m \in DOMAIN managers : current[m] \in DOMAIN engines BY EngineOf
<1>8. OpenedWith(h, n, q)
  BY <1>1, <1>2, <1>3, <1>5, <1>6, <1>7 DEF OpenedWith, u, o, x
<1> QED BY <1>8

LEMMA OpenedOwned ==
  ASSUME PlaceInv, NEW h, WellFormed(h), NEW n, Opened(h, n), SocketInv', Grow
  PROVE  PlaceInv'
<1> DEFINE u == managers'[n].url
           o == managers'[n].opts
           e == Len(engines) + 1
<1>0. PICK q \in Nat : OpenedWith(h, n, q) BY OpenedParts
<1>1. /\ DOMAIN managers' = DOMAIN managers \cup {n} /\ n \in DOMAIN managers'
      /\ engines'[e] = Engine(u, o, q)
      /\ e \notin DOMAIN engines /\ DOMAIN engines' = DOMAIN engines \cup {e}
      /\ engines' \in Seq(Range(engines'))
      /\ \A f \in DOMAIN engines : engines'[f] = engines[f]
      /\ current'[n] = e
      /\ \A m \in DOMAIN managers :
           m # n => current'[m] = current[m] /\ current[m] \in DOMAIN engines
  BY <1>0 DEF OpenedWith
<1>2. /\ DOMAIN current' = DOMAIN managers' /\ current' \in Seq(Nat)
      /\ n \in DOMAIN managers => Ended(current[n])
  BY DEF Opened
<1> HIDE DEF u, o, e
<1>3. Typed'
  <2>1. \A f \in DOMAIN engines : DOMAIN engines[f] = Fields BY EngineOf
  <2>2. DOMAIN Engine(u, o, q) = Fields BY DEF Engine, Fields
  <2>3. EnginesTyped' BY <1>1, <2>1, <2>2 DEF EnginesTyped
  <2> QED BY <1>2, <2>3 DEF Typed, SocketInv, SocketsTyped
<1>4. LeadsTo(engines'[current'[n]], managers'[n].url, managers'[n].opts)
  BY <1>1 DEF Engine, LeadsTo, u, o
<1>5. ASSUME NEW m \in DOMAIN managers, m # n
      PROVE  LeadsTo(engines'[current'[m]], managers'[m].url, managers'[m].opts)
  <2>1. LeadsTo(engines[current[m]], managers[m].url, managers[m].opts)
    BY DEF PlaceInv, Owned
  <2>2. managers'[m].url = managers[m].url /\ managers'[m].opts = managers[m].opts
    BY DEF Grow
  <2>3. engines'[current'[m]] = engines[current[m]] BY <1>1, <1>5
  <2> QED BY <2>1, <2>2, <2>3
<1>6. ASSUME NEW m \in DOMAIN managers', NEW k \in DOMAIN managers', current'[m] = current'[k]
      PROVE  m = k
  <2>1. CASE m = n \/ k = n BY <1>1, <1>6, <2>1
  <2>2. CASE m # n /\ k # n
    <3>1. m \in DOMAIN managers /\ k \in DOMAIN managers /\ current[m] = current[k]
      BY <1>1, <1>6, <2>2
    <3> QED BY <3>1 DEF PlaceInv, Owned
  <2> QED BY <2>1, <2>2
<1>7. ASSUME NEW f \in DOMAIN engines'
      PROVE  Ended(f)' \/ \E m \in DOMAIN managers' : current'[m] = f
  <2>1. CASE f = e BY <1>1, <2>1
  <2>2. CASE f \in DOMAIN engines
    <3>1. engines'[f] = engines[f] BY <1>1, <2>2
    <3>2. CASE Ended(f) BY <3>1, <3>2 DEF Ended
    <3>3. CASE ~Ended(f)
      <4>1. PICK m \in DOMAIN managers : current[m] = f
        BY <2>2, <3>3 DEF PlaceInv, Owned
      <4>2. m # n BY <1>2, <3>3, <4>1
      <4> QED BY <1>1, <4>1, <4>2
    <3> QED BY <3>2, <3>3
  <2> QED BY <1>1, <2>1, <2>2
<1>8. ASSUME NEW m \in DOMAIN managers'
      PROVE  /\ current'[m] \in DOMAIN engines'
             /\ LeadsTo(engines'[current'[m]], managers'[m].url, managers'[m].opts)
             /\ \A k \in DOMAIN managers' : current'[m] = current'[k] => m = k
  BY <1>1, <1>4, <1>5, <1>6
<1>9. Owned' BY <1>2, <1>7, <1>8 DEF Owned
<1> QED BY <1>3, <1>9 DEF PlaceInv, SocketInv

(***************************************************************************)
(* Where the tables lead                                                    *)
(***************************************************************************)
(* The tables as they are when an engine looks for its own: lookup() may    *)
(* have added one for the socket that is new.                               *)
Ready(h) ==
  /\ WellFormed(h) /\ Grown(heap, h) /\ Referred(h)
  /\ \A o \in Options : Told(h, sockets', o)

LEMMA HeapParts ==
  ASSUME WellFormed(heap)
  PROVE  /\ heap \in HeapType /\ Len(heap.tables) \in Nat
         /\ DOMAIN heap.tables = 1 .. Len(heap.tables)
         /\ Grown(heap, heap)
         /\ \A o \in Options : heap.query[o] # 0 => heap.query[o] \in DOMAIN heap.tables
<1>1. heap \in HeapType /\ \A o \in Options : heap.query[o] \in 0 .. Len(heap.tables)
  BY DEF WellFormed
<1>2. heap.tables \in Seq(TableType) BY <1>1 DEF HeapType
<1>3. Len(heap.tables) \in Nat /\ DOMAIN heap.tables = 1 .. Len(heap.tables)
  BY <1>2, LenProperties
<1>4. Grown(heap, heap) BY <1>1, <1>3 DEF Grown
<1>5. \A o \in Options : heap.query[o] # 0 => heap.query[o] \in DOMAIN heap.tables
  BY <1>1, <1>3
<1> QED BY <1>1, <1>3, <1>4, <1>5

(* Options that got no other table are told of as before, for the sockets   *)
(* are still there. *)
LEMMA StillTold ==
  ASSUME WellFormed(heap), NEW h, Grown(heap, h), NEW o \in Options,
         h.query[o] = heap.query[o], Told(heap, sockets, o),
         \A s \in DOMAIN sockets :
           /\ s \in DOMAIN sockets'
           /\ sockets'[s].url = sockets[s].url /\ sockets'[s].opts = sockets[s].opts
  PROVE  Told(h, sockets', o)
<1>1. heap.query[o] # 0 => h.tables[h.query[o]] = heap.tables[heap.query[o]]
  BY HeapParts DEF Grown
<1>2. IsTable(h, o) <=> IsTable(heap, o) BY <1>1 DEF IsTable
<1>3. ASSUME IsTable(h, o)
      PROVE  GivenTable(o) \/ \E i \in DOMAIN sockets' : sockets'[i].opts = o /\ sockets'[i].url.userInfo
  <2>1. GivenTable(o) \/ \E i \in DOMAIN sockets : sockets[i].opts = o /\ sockets[i].url.userInfo
    BY <1>2, <1>3 DEF Told
  <2> QED BY <2>1
<1>4. ASSUME \A i \in DOMAIN sockets' : sockets'[i].opts = o => sockets'[i].url.query = {}
      PROVE  IF h.query[o] = 0 THEN Given[o].keys = {}
             ELSE h.tables[h.query[o]].keys = Given[o].keys
  <2>1. \A i \in DOMAIN sockets : sockets[i].opts = o => sockets[i].url.query = {}
    BY <1>4
  <2>2. IF heap.query[o] = 0 THEN Given[o].keys = {}
        ELSE heap.tables[heap.query[o]].keys = Given[o].keys
    BY <2>1 DEF Told
  <2> QED BY <1>1, <2>2
<1> QED BY <1>3, <1>4 DEF Told

(* Nothing is lent. *)
LEMMA HeapReady ==
  ASSUME TableInv, Grow
  PROVE  Ready(heap)
<1>1. /\ WellFormed(heap) /\ Referred(heap) /\ \A o \in Options : Told(heap, sockets, o)
  BY DEF TableInv, HeapInv
<1>2. Grown(heap, heap) BY <1>1, HeapParts
<1>3. \A s \in DOMAIN sockets :
        /\ s \in DOMAIN sockets'
        /\ sockets'[s].url = sockets[s].url /\ sockets'[s].opts = sockets[s].opts
  BY DEF Grow
<1>4. ASSUME NEW o \in Options PROVE Told(heap, sockets', o)
  BY <1>1, <1>2, <1>3, StillTold
<1> QED BY <1>1, <1>2, <1>4 DEF Ready

(* A table that is lent is that of a socket with user info.                 *)
LEMMA LentReady ==
  ASSUME TableInv, Grow, NEW u \in Urls, NEW o \in Options, NEW m, Joins(u, o, m)
  PROVE  Ready(Lent(u, o))
<1> DEFINE h == Lent(u, o)
           q == Len(heap.tables) + 1
<1>1. /\ WellFormed(heap) /\ Referred(heap) /\ \A p \in Options : Told(heap, sockets, p)
      /\ \A e \in DOMAIN engines : engines[e].query \in DOMAIN heap.tables
  BY DEF TableInv, HeapInv
<1>2. Grown(heap, h)
      /\ \/ h = heap
         \/ /\ u.userInfo /\ heap.query[o] = 0
            /\ Len(h.tables) = q
            /\ h.query = [heap.query EXCEPT ![o] = q]
            /\ h.tables[q].keys = u.query
  BY <1>1, LentTables, ZenonT(60)
<1> HIDE DEF h
<1>3. CASE h = heap BY <1>3, HeapReady DEF h
<1>4. CASE /\ u.userInfo /\ heap.query[o] = 0
           /\ Len(h.tables) = q
           /\ h.query = [heap.query EXCEPT ![o] = q]
           /\ h.tables[q].keys = u.query
  <2>1. /\ heap \in HeapType /\ Len(heap.tables) \in Nat
        /\ DOMAIN heap.tables = 1 .. Len(heap.tables)
        /\ \A p \in Options : heap.query[p] # 0 => heap.query[p] \in DOMAIN heap.tables
    BY <1>1, HeapParts
  <2>2. h \in HeapType /\ heap.query \in [Options -> Nat] /\ q \notin DOMAIN heap.tables
        /\ q \in Nat /\ q # 0
        /\ h.query[o] = q /\ \A p \in Options : p # o => h.query[p] = heap.query[p]
    BY <1>2, <1>4, <2>1 DEF Grown, HeapType
  <2>3. PICK s \in DOMAIN sockets' : sockets'[s].opts = o /\ sockets'[s].url = u
    BY DEF Joins, NewSocket
  <2>4. u.query # {} BY <1>4, QueryKeys
  <2> HIDE DEF q
  <2>5. WellFormed(h)
    <3>1. \A p \in Options : h.query[p] \in 0 .. Len(h.tables)
      BY <1>1, <1>4, <2>1, <2>2 DEF WellFormed, q
    <3>2. ASSUME NEW p \in Options, NEW r \in Options, p # r, h.query[p] = h.query[r]
          PROVE  h.query[p] = 0
      <4>1. h.query[p] # q \/ h.query[r] # q
        <5>1. CASE p = o BY <2>1, <2>2, <3>2, <5>1
        <5>2. CASE p # o BY <2>1, <2>2, <3>2, <5>2
        <5> QED BY <5>1, <5>2
      <4>2. h.query[p] = heap.query[p] /\ h.query[r] = heap.query[r] BY <2>2, <3>2, <4>1
      <4> QED BY <1>1, <3>2, <4>2 DEF WellFormed
    <3> QED BY <2>2, <3>1, <3>2 DEF WellFormed
  <2>6. Referred(h)
    <3>1. ASSUME NEW n \in DOMAIN managers
          PROVE  LET i == engines[current[n]].query
                 IN /\ i \in DOMAIN h.tables
                    /\ \A p \in Options : i = h.query[p] =>
                         /\ managers[n].opts = p
                         /\ managers[n].url.query = {} \/ managers[n].url.userInfo
      <4> DEFINE i == engines[current[n]].query
      <4>1. i \in DOMAIN heap.tables
            /\ \A p \in Options : i = heap.query[p] =>
                 /\ managers[n].opts = p
                 /\ managers[n].url.query = {} \/ managers[n].url.userInfo
        BY <1>1 DEF Referred
      <4> HIDE DEF i
      <4>2. i \in DOMAIN h.tables BY <1>2, <4>1 DEF Grown
      <4>3. \A p \in Options : i = h.query[p] => i = heap.query[p] BY <2>2, <4>1
      <4> QED BY <4>1, <4>2, <4>3 DEF i
    <3> QED BY <3>1 DEF Referred
  <2>7. ASSUME NEW p \in Options PROVE Told(h, sockets', p)
    <3>1. CASE p = o BY <1>4, <2>3, <2>4, <3>1 DEF Told
    <3>2. CASE p # o
      <4>1. \A i \in DOMAIN sockets :
              /\ i \in DOMAIN sockets'
              /\ sockets'[i].url = sockets[i].url /\ sockets'[i].opts = sockets[i].opts
        BY DEF Grow
      <4> QED BY <1>1, <1>2, <2>2, <3>2, <4>1, StillTold
    <3> QED BY <3>1, <3>2
  <2> QED BY <1>2, <2>5, <2>6, <2>7 DEF Ready, h
<1> QED BY <1>2, <1>3, <1>4

(* Tables that differ in the sessions they name, at most. *)
SameKeys(h, new) ==
  /\ new \in HeapType /\ new.query = h.query
  /\ Len(new.tables) = Len(h.tables) /\ DOMAIN new.tables = DOMAIN h.tables
  /\ \A i \in DOMAIN h.tables :
       new.tables[i].keys = h.tables[i].keys /\ new.tables[i].text = h.tables[i].text

LEMMA ReadyParts ==
  ASSUME NEW h, Ready(h)
  PROVE  /\ h \in HeapType /\ Len(h.tables) \in Nat
         /\ DOMAIN h.tables = 1 .. Len(h.tables)
         /\ \A o \in Options : h.query[o] # 0 => h.query[o] \in DOMAIN h.tables
         /\ \A i \in DOMAIN heap.tables : i \in DOMAIN h.tables /\ h.tables[i] = heap.tables[i]
<1>1. h \in HeapType /\ \A o \in Options : h.query[o] \in 0 .. Len(h.tables)
  BY DEF Ready, WellFormed
<1>2. /\ Len(h.tables) \in Nat /\ DOMAIN h.tables = 1 .. Len(h.tables)
      /\ Len(heap.tables) <= Len(h.tables) /\ Len(heap.tables) \in Nat
      /\ DOMAIN heap.tables = 1 .. Len(heap.tables)
      /\ \A i \in DOMAIN heap.tables : h.tables[i] = heap.tables[i]
  BY DEF Ready, Grown
<1> QED BY <1>1, <1>2

(* A manager counts its calls from one. *)
LEMMA OnlyCall ==
  ASSUME PlaceInv, Grow, NEW m \in DOMAIN managers, calls'[managers[m].opts] = 1
  PROVE  calls[managers[m].opts] = 1
<1>1. PICK s \in DOMAIN sockets :
        sockets[s].io = m /\ sockets[s].opts = managers[m].opts
  BY DEF PlaceInv, Registered
<1>2. calls[managers[m].opts] >= 1 BY <1>1 DEF PlaceInv, Counted
<1>3. managers[m].opts \in Options /\ calls[managers[m].opts] \in Nat BY Parts DEF PlaceInv
<1>4. calls'[managers[m].opts] >= calls[managers[m].opts] BY <1>3 DEF Grow
<1> QED BY <1>2, <1>3, <1>4

(* Engines that stay keep their tables. *)
LEMMA StayHeap ==
  ASSUME TableInv, PlaceInv', Grow, DOMAIN managers' = DOMAIN managers, EnginesStay,
         NEW h, Ready(h), SameKeys(h, heap')
  PROVE  HeapInv'
<1>1. /\ heap' \in HeapType /\ heap'.query = h.query
      /\ Len(heap'.tables) = Len(h.tables) /\ DOMAIN heap'.tables = DOMAIN h.tables
      /\ \A i \in DOMAIN h.tables :
           heap'.tables[i].keys = h.tables[i].keys /\ heap'.tables[i].text = h.tables[i].text
  BY DEF SameKeys
<1>2. /\ \A o \in Options : h.query[o] # 0 => h.query[o] \in DOMAIN h.tables
      /\ \A i \in DOMAIN heap.tables : i \in DOMAIN h.tables /\ h.tables[i] = heap.tables[i]
  BY ReadyParts
<1>3. WellFormed(h) /\ Referred(h) /\ \A o \in Options : Told(h, sockets', o)
  BY DEF Ready
<1>4. /\ DOMAIN engines' = DOMAIN engines /\ current' = current
      /\ \A e \in DOMAIN engines : engines'[e].query = engines[e].query
  BY DEF EnginesStay, Keeps
<1>5. \A m \in DOMAIN managers :
        /\ current[m] \in DOMAIN engines
        /\ managers'[m].url = managers[m].url /\ managers'[m].opts = managers[m].opts
        /\ managers[m].opts \in Options
  BY EngineOf, Parts DEF Grow, TableInv, PlaceInv
<1>6. \A e \in DOMAIN engines : engines[e].query \in DOMAIN heap.tables
  BY DEF TableInv, HeapInv
<1>7. WellFormed(heap)' BY <1>1, <1>3 DEF WellFormed
<1>8. ASSUME NEW o \in Options PROVE Told(heap, sockets, o)'
  BY <1>1, <1>2, <1>3 DEF Told, IsTable
<1>9. Referred(heap)'
  BY <1>1, <1>3, <1>4, <1>5 DEF Referred
<1>10. Keyed(heap)'
  <2>1. ASSUME NEW m \in DOMAIN managers, calls'[managers[m].opts] = 1
        PROVE  heap'.tables[engines'[current[m]].query].keys
                 = CodeQuery(managers[m].url, managers[m].opts)
    <3>1. calls[managers[m].opts] = 1 BY <2>1, OnlyCall DEF TableInv
    <3>2. heap.tables[engines[current[m]].query].keys
            = CodeQuery(managers[m].url, managers[m].opts)
      BY <3>1 DEF TableInv, HeapInv, Keyed
    <3>3. engines[current[m]].query \in DOMAIN heap.tables
          /\ engines'[current[m]].query = engines[current[m]].query
      BY <1>4, <1>5, <1>6
    <3> QED BY <1>1, <1>2, <3>2, <3>3
  <2> QED BY <1>4, <1>5, <2>1 DEF Keyed
<1>11. \A e \in DOMAIN engines' : engines'[e].query \in DOMAIN heap'.tables
  BY <1>1, <1>2, <1>4, <1>6
<1> QED BY <1>7, <1>8, <1>9, <1>10, <1>11 DEF HeapInv

(* The engine that a manager opens refers to the table of the manager's     *)
(* options, if they have one, and to one of its own if they have not.       *)
LEMMA OpenedHeap ==
  ASSUME TableInv, PlaceInv', Grow, NEW h, Ready(h), NEW n, NEW q \in Nat,
         OpenedWith(h, n, q)
  PROVE  HeapInv'
<1> DEFINE u == managers'[n].url
           o == managers'[n].opts
           e == Len(engines) + 1
<1>1. /\ DOMAIN managers' = DOMAIN managers \cup {n} /\ n \in DOMAIN managers'
      /\ u \in Urls /\ o \in Options
      /\ engines'[e] = Engine(u, o, q)
      /\ e \notin DOMAIN engines /\ DOMAIN engines' = DOMAIN engines \cup {e}
      /\ \A f \in DOMAIN engines : engines'[f] = engines[f]
      /\ current'[n] = e
      /\ \A m \in DOMAIN managers :
           m # n => current'[m] = current[m] /\ current[m] \in DOMAIN engines
      /\ Finds(h, heap', u, o, q)
  BY DEF OpenedWith
<1> HIDE DEF u, o, e
<1>2. /\ h \in HeapType /\ Len(h.tables) \in Nat
      /\ DOMAIN h.tables = 1 .. Len(h.tables)
      /\ \A p \in Options : h.query[p] # 0 => h.query[p] \in DOMAIN h.tables
      /\ \A i \in DOMAIN heap.tables : i \in DOMAIN h.tables /\ h.tables[i] = heap.tables[i]
  BY ReadyParts
<1>3. WellFormed(h) /\ Referred(h) /\ \A p \in Options : Told(h, sockets', p)
  BY DEF Ready
<1>4. /\ heap' \in HeapType /\ Len(heap'.tables) \in Nat
      /\ DOMAIN heap'.tables = 1 .. Len(heap'.tables) /\ Len(h.tables) <= Len(heap'.tables)
      /\ \A i \in DOMAIN h.tables : i \in DOMAIN heap'.tables /\ heap'.tables[i] = h.tables[i]
      /\ q \in DOMAIN heap'.tables
  BY <1>1, <1>2 DEF Finds, Grown
<1>5. h.query \in [Options -> Nat] BY <1>2 DEF HeapType
<1>6. \A p \in Options : p # o => heap'.query[p] = h.query[p]
  BY <1>1, <1>5 DEF Finds
<1>7. heap'.query[o] \in {h.query[o], 0, q}
  BY <1>1, <1>5 DEF Finds
<1>8. q \in DOMAIN h.tables \/ q = Len(h.tables) + 1
  <2>1. IsTable(h, o) /\ q = h.query[o] => q \in DOMAIN h.tables
    BY <1>1, <1>2 DEF IsTable
  <2> QED BY <1>1, <2>1 DEF Finds
<1>9. q \in DOMAIN h.tables => u.query = {} /\ IsTable(h, o) /\ q = h.query[o] /\ heap' = h
  BY <1>1, <1>2 DEF Finds
<1>10. PICK s \in DOMAIN sockets' : sockets'[s].url = u /\ sockets'[s].opts = o
  BY <1>1 DEF PlaceInv, Registered, u, o
<1>11. WellFormed(heap)'
  <2>1. \A p \in Options : heap'.query[p] \in 0 .. Len(heap'.tables)
    <3>1. \A p \in Options : heap'.query[p] = 0 \/ heap'.query[p] \in DOMAIN heap'.tables
      BY <1>1, <1>2, <1>4, <1>6, <1>7
    <3> QED BY <1>4, <3>1
  <2>2. ASSUME NEW p \in Options, NEW r \in Options, p # r, heap'.query[p] = heap'.query[r]
        PROVE  heap'.query[p] = 0
    <3>1. CASE p # o /\ r # o BY <1>3, <1>6, <2>2, <3>1 DEF WellFormed
    <3>2. CASE p = o \/ r = o
      <4>1. PICK t \in Options : t # o /\ heap'.query[t] = heap'.query[o]
                                 /\ heap'.query[p] = heap'.query[o]
        BY <2>2, <3>2
      <4>2. heap'.query[t] = h.query[t] BY <1>6, <4>1
      <4>3. CASE heap'.query[o] = h.query[o] BY <1>1, <1>3, <4>1, <4>2, <4>3 DEF WellFormed
      <4>4. CASE heap'.query[o] = q /\ q = Len(h.tables) + 1
        <5>1. h.query[t] = q BY <4>1, <4>2, <4>4
        <5>2. q # 0 /\ q \notin DOMAIN h.tables BY <1>2, <4>4
        <5> QED BY <1>2, <5>1, <5>2
      <4>5. CASE heap'.query[o] = 0 BY <4>1, <4>5
      <4>6. q \in DOMAIN h.tables => heap'.query[o] = h.query[o] BY <1>9
      <4> QED BY <1>7, <1>8, <4>3, <4>4, <4>5, <4>6
    <3> QED BY <3>1, <3>2
  <2> QED BY <1>4, <2>1, <2>2 DEF WellFormed
<1>12. ASSUME NEW p \in Options PROVE Told(heap, sockets, p)'
  <2>1. CASE p # o \/ heap'.query[o] = h.query[o]
    <3>1. heap'.query[p] = h.query[p] BY <1>6, <2>1
    <3>2. h.query[p] # 0 => heap'.tables[h.query[p]] = h.tables[h.query[p]]
      BY <1>2, <1>4
    <3> QED BY <1>3, <3>1, <3>2 DEF Told, IsTable
  <2>2. CASE p = o /\ u.query # {} /\ ~u.userInfo /\ heap'.query[o] = 0
    BY <1>10, <2>2 DEF Told, IsTable
  <2>3. CASE p = o /\ u.query # {} /\ u.userInfo
    BY <1>10, <2>3 DEF Told
  <2>4. \/ heap'.query[o] = h.query[o]
        \/ u.query # {} /\ ~u.userInfo /\ heap'.query[o] = 0
        \/ u.query # {} /\ u.userInfo
    BY <1>1, <1>5 DEF Finds
  <2> QED BY <2>1, <2>2, <2>3, <2>4
<1>13. ASSUME NEW m \in DOMAIN managers, m # n
       PROVE  /\ engines'[current'[m]].query = engines[current[m]].query
              /\ engines[current[m]].query \in DOMAIN heap.tables
              /\ managers'[m].url = managers[m].url /\ managers'[m].opts = managers[m].opts
  BY <1>1, <1>13 DEF Grow, TableInv, HeapInv
<1>14. engines'[current'[n]].query = q BY <1>1 DEF Engine
<1>15. Referred(heap)'
  <2>1. ASSUME NEW m \in DOMAIN managers, m # n
        PROVE  LET i == engines'[current'[m]].query
               IN /\ i \in DOMAIN heap'.tables
                  /\ \A p \in Options : i = heap'.query[p] =>
                       /\ managers'[m].opts = p
                       /\ managers'[m].url.query = {} \/ managers'[m].url.userInfo
    <3> DEFINE i == engines[current[m]].query
    <3>1. /\ i \in DOMAIN heap.tables
          /\ \A p \in Options : i = h.query[p] =>
               /\ managers[m].opts = p
               /\ managers[m].url.query = {} \/ managers[m].url.userInfo
      BY <1>3, <1>13, <2>1 DEF Referred
    <3>2. i = engines'[current'[m]].query BY <1>13, <2>1
    <3> HIDE DEF i
    <3>3. i \in DOMAIN h.tables /\ i \in DOMAIN heap'.tables /\ i # 0
      BY <1>2, <1>4, <3>1
    <3>4. \A p \in Options : i = heap'.query[p] => i = h.query[p]
      <4>1. heap'.query[o] = q => q = Len(h.tables) + 1 \/ heap'.query[o] = h.query[o]
        BY <1>8, <1>9
      <4> QED BY <1>2, <1>6, <1>7, <3>3, <4>1
    <3> QED BY <1>13, <2>1, <3>1, <3>2, <3>3, <3>4
  <2>2. ASSUME NEW p \in Options, q = heap'.query[p]
        PROVE  managers'[n].opts = p /\ (managers'[n].url.query = {} \/ managers'[n].url.userInfo)
    <3>1. CASE q \in DOMAIN h.tables
      <4>1. q = h.query[o] /\ q = h.query[p] /\ q # 0 /\ u.query = {}
        BY <1>2, <1>9, <2>2, <3>1
      <4>2. p = o BY <1>1, <1>3, <4>1 DEF WellFormed
      <4> QED BY <4>1, <4>2 DEF u, o
    <3>2. CASE q = Len(h.tables) + 1 /\ q \notin DOMAIN h.tables
      <4>1. \A r \in Options : h.query[r] # q /\ q # 0 BY <1>2, <3>2
      <4>2. p = o BY <1>6, <2>2, <4>1
      <4>3. u.userInfo BY <1>1, <1>5, <2>2, <4>1, <4>2 DEF Finds
      <4> QED BY <4>2, <4>3 DEF u, o
    <3> QED BY <1>8, <3>1, <3>2
  <2> QED BY <1>1, <1>4, <1>14, <2>1, <2>2 DEF Referred
<1>16. Keyed(heap)'
  <2>1. ASSUME NEW m \in DOMAIN managers, m # n, calls'[managers'[m].opts] = 1
        PROVE  heap'.tables[engines'[current'[m]].query].keys
                 = CodeQuery(managers'[m].url, managers'[m].opts)
    <3>1. calls[managers[m].opts] = 1 BY <1>13, <2>1, OnlyCall DEF TableInv
    <3>2. heap.tables[engines[current[m]].query].keys
            = CodeQuery(managers[m].url, managers[m].opts)
      BY <3>1 DEF TableInv, HeapInv, Keyed
    <3> QED BY <1>2, <1>4, <1>13, <2>1, <3>2
  <2>2. ASSUME calls'[o] = 1 PROVE heap'.tables[q].keys = CodeQuery(u, o)
    <3>1. \A i \in DOMAIN sockets' : sockets'[i].opts = o => i = s
      BY <1>10, <2>2 DEF PlaceInv, Counted
    <3>2. u.query = {} => IF h.query[o] = 0 THEN Given[o].keys = {}
                          ELSE h.tables[h.query[o]].keys = Given[o].keys
      <4>1. Told(h, sockets', o) BY <1>1, <1>3
      <4> QED BY <1>10, <3>1, <4>1 DEF Told
    <3>3. CASE u.query = {}
      <4>1. CodeQuery(u, o) = Given[o].keys BY <3>3 DEF CodeQuery
      <4>2. CASE IsTable(h, o) /\ q = h.query[o] /\ heap' = h
        BY <3>2, <3>3, <4>1, <4>2 DEF IsTable
      <4>3. CASE heap'.tables[q].keys = IF h.query[o] = 0 THEN {}
                                        ELSE h.tables[h.query[o]].keys
        BY <3>2, <3>3, <4>1, <4>3
      <4> QED BY <1>1, <3>3, <4>2, <4>3 DEF Finds
    <3>4. CASE u.query # {}
      <4>1. CodeQuery(u, o) = QueryKey(u) BY <3>4 DEF CodeQuery
      <4>2. /\ ~u.userInfo => heap'.tables[q].keys = {}
            /\ u.userInfo => heap'.tables[q].keys = u.query
        BY <1>1, <3>4 DEF Finds
      <4> QED BY <4>1, <4>2 DEF QueryKey
    <3> QED BY <3>3, <3>4
  <2> QED BY <1>1, <1>14, <2>1, <2>2 DEF Keyed, u, o
<1>17. \A f \in DOMAIN engines' : engines'[f].query \in DOMAIN heap'.tables
  <2>1. \A f \in DOMAIN engines : engines[f].query \in DOMAIN heap.tables
    BY DEF TableInv, HeapInv
  <2>2. engines'[e].query = q BY <1>1 DEF Engine
  <2> QED BY <1>1, <1>2, <1>4, <2>1, <2>2
<1> QED BY <1>11, <1>12, <1>15, <1>16, <1>17 DEF HeapInv

(***************************************************************************)
(* With which session an engine polls                                       *)
(***************************************************************************)
(* Who may share a table may do so for ever. *)
LEMMA MayShareStays ==
  ASSUME PlaceInv, Grow, NEW m \in DOMAIN managers, MayShare(m)
  PROVE  MayShare(m)'
<1>1. /\ managers'[m].url = managers[m].url /\ managers'[m].opts = managers[m].opts
      /\ managers[m].opts \in Options
  BY Parts DEF Grow, PlaceInv
<1>2. calls[managers[m].opts] > 1 => calls'[managers[m].opts] > 1
  <2>1. /\ calls[managers[m].opts] \in Nat /\ calls'[managers[m].opts] \in Nat
        /\ calls'[managers[m].opts] >= calls[managers[m].opts]
    BY <1>1, Parts DEF Grow, PlaceInv
  <2> QED BY <2>1
<1>3. \A s \in DOMAIN sockets :
        /\ s \in DOMAIN sockets'
        /\ sockets'[s].url = sockets[s].url /\ sockets'[s].opts = sockets[s].opts
  BY DEF Grow
<1>4. CASE Given[managers[m].opts].keys # {} /\ ~Given[managers[m].opts].text
           /\ managers[m].url.query = {}
  BY <1>1, <1>4 DEF MayShare
<1>5. CASE calls[managers[m].opts] > 1
  <2>1. CASE \E s \in DOMAIN sockets :
               sockets[s].opts = managers[m].opts /\ sockets[s].url.userInfo
    <3>1. PICK s \in DOMAIN sockets :
            sockets[s].opts = managers[m].opts /\ sockets[s].url.userInfo
      BY <2>1
    <3>2. s \in DOMAIN sockets' /\ sockets'[s].opts = managers'[m].opts /\ sockets'[s].url.userInfo
      BY <1>1, <1>3, <3>1
    <3> QED BY <1>1, <1>2, <1>5, <3>2 DEF MayShare
  <2>2. CASE ~\E s \in DOMAIN sockets :
               sockets[s].opts = managers[m].opts /\ sockets[s].url.userInfo
    BY <1>4, <2>2 DEF MayShare
  <2> QED BY <2>1, <2>2
<1> QED BY <1>4, <1>5 DEF MayShare

(* Two managers that refer to the table of the options o may share it: the  *)
(* user gave it and neither replaced it, or two calls were made with o, one *)
(* with user info and the other without a query. *)
LEMMA BothMayShare ==
  ASSUME PlaceInv', NEW o \in Options, NEW h, IsTable(h, o), Told(h, sockets', o),
         NEW n \in DOMAIN managers', managers'[n].opts = o, managers'[n].url.query = {},
         NEW m \in DOMAIN managers', managers'[m].opts = o,
         managers'[m].url.query = {} \/ managers'[m].url.userInfo
  PROVE  MayShare(m)'
<1>1. PICK s \in DOMAIN sockets' :
        sockets'[s].opts = o /\ sockets'[s].url.query = {}
  BY DEF PlaceInv, Registered
<1>2. ASSUME NEW i \in DOMAIN sockets', sockets'[i].opts = o, sockets'[i].url.userInfo
      PROVE  MayShare(m)'
  <2>1. sockets'[i].url \in Urls
    <3>1. sockets' \in Seq(SocketType) BY DEF PlaceInv, Typed
    <3>2. DOMAIN sockets' = 1 .. Len(sockets') BY <3>1, LenProperties
    <3>3. sockets'[i] \in SocketType BY <3>1, <3>2, ElementOfSeq
    <3> QED BY <3>3 DEF SocketType
  <2>2. sockets'[i].url.query # {} BY <1>2, <2>1, QueryKeys
  <2>3. i # s BY <1>1, <2>2
  <2>4. calls'[o] > 1 BY <1>1, <1>2, <2>3 DEF PlaceInv, Counted
  <2> QED BY <1>2, <2>4 DEF MayShare
<1>3. CASE \E i \in DOMAIN sockets' : sockets'[i].opts = o /\ sockets'[i].url.userInfo
  BY <1>2, <1>3
<1>4. CASE GivenTable(o)
  <2>1. CASE managers'[m].url.query = {} BY <1>4, <2>1 DEF GivenTable, MayShare
  <2>2. CASE managers'[m].url.userInfo
    <3>1. PICK i \in DOMAIN sockets' :
            sockets'[i].opts = o /\ sockets'[i].url = managers'[m].url
      BY DEF PlaceInv, Registered
    <3> QED BY <1>2, <2>2, <3>1
  <2> QED BY <2>1, <2>2
<1> QED BY <1>3, <1>4 DEF Told

(* An engine that moves keeps to its session. *)
LEMMA MovesSession ==
  ASSUME SessionInv, PlaceInv', Grow, DOMAIN managers' = DOMAIN managers, EnginesMove,
         NEW h, Ready(h), heap' = h
  PROVE  (Alone /\ SessionKnown /\ OwnSession)'
<1>1. /\ current' = current
      /\ \A e \in DOMAIN engines : /\ engines'[e].query = engines[e].query
                                   /\ Life(engines[e], engines'[e], Named(heap, e))
  BY DEF EnginesMove, Keeps
<1>2. PlaceInv /\ Alone /\ SessionKnown /\ OwnSession
      /\ \A e \in DOMAIN engines : engines[e].query \in DOMAIN heap.tables
  BY DEF SessionInv, TableInv, HeapInv
<1>3. \A m \in DOMAIN managers : current[m] \in DOMAIN engines BY <1>2, EngineOf
<1>4. \A i \in DOMAIN heap.tables : heap'.tables[i] = heap.tables[i] BY ReadyParts
<1>5. \A m \in DOMAIN managers : MayShare(m) => MayShare(m)' BY <1>2, MayShareStays
<1>6. Alone' BY <1>1, <1>2, <1>3, <1>5 DEF Alone
<1>7. ASSUME NEW m \in DOMAIN managers, ~MayShare(m)'
      PROVE  LET e == current[m] IN
             /\ engines'[e].state = "opening" => Named(heap, e)' = 0
             /\ engines'[e].state \in {"open", "closing"} => Named(heap, e)' = e
             /\ engines'[e].polling => engines'[e].asked \in CASE engines'[e].state = "opening" -> {0}
                                                               [] OTHER -> {e}
  <2> DEFINE e == current[m]
             sid == heap.tables[engines[e].query].sid
  <2>1. /\ e \in DOMAIN engines /\ Life(engines[e], engines'[e], sid)
        /\ heap'.tables[engines'[e].query].sid = sid
    BY <1>1, <1>2, <1>3, <1>4 DEF Named
  <2>2. /\ engines[e].state = "opening" => sid = 0
        /\ engines[e].state \in {"open", "closing"} => sid = e
    BY <1>2, <1>5, <1>7 DEF SessionKnown, Named
  <2>3. engines[e].polling =>
          engines[e].asked \in CASE engines[e].state = "opening" -> {0} [] OTHER -> {e}
    BY <1>2, <1>5, <1>7 DEF OwnSession
  <2>4. Named(heap, e)' = sid
    BY <1>1, <2>1 DEF Named
  <2> HIDE DEF e, sid
  <2>5. engines'[e].polling => engines'[e].asked \in
          CASE engines'[e].state = "opening" -> {0} [] OTHER -> {e}
    <3>1. CASE engines'[e].polling = engines[e].polling /\ engines'[e].asked = engines[e].asked
               /\ engines'[e].state = engines[e].state
      BY <2>3, <3>1
    <3>2. CASE engines'[e].polling = FALSE BY <3>2
    <3>3. CASE engines'[e].polling = engines[e].polling /\ engines'[e].asked = engines[e].asked
               /\ engines[e].state = "open" /\ engines'[e].state = "closing"
      BY <2>3, <3>3
    <3>4. CASE engines[e].state = "opening" /\ engines'[e].state = "opening"
               /\ engines'[e].asked = sid
      BY <2>2, <3>4
    <3>5. CASE engines[e].state = "open" /\ engines'[e].state = "open"
               /\ engines'[e].asked = sid
      BY <2>2, <3>5
    <3> QED BY <2>1, <3>1, <3>2, <3>3, <3>4, <3>5 DEF Life
  <2>6. /\ engines'[e].state = "opening" => sid = 0
        /\ engines'[e].state \in {"open", "closing"} => sid = e
    BY <2>1, <2>2 DEF Life
  <2> QED BY <2>4, <2>5, <2>6 DEF e
<1>8. SessionKnown' BY <1>1, <1>7 DEF SessionKnown
<1>9. OwnSession' BY <1>1, <1>7 DEF OwnSession
<1> QED BY <1>6, <1>8, <1>9

(* A session goes to the table of the engine that opened it, where only     *)
(* engines that may share it find it. *)
LEMMA OpeningSession ==
  ASSUME SessionInv, PlaceInv', Grow, DOMAIN managers' = DOMAIN managers, EnginesStay,
         NEW f, Opening(f)
  PROVE  (Alone /\ SessionKnown /\ OwnSession)' /\ SameKeys(heap, heap')
<1> DEFINE q == engines[f].query
<1>1. /\ current' = current
      /\ \A e \in DOMAIN engines : engines'[e].query = engines[e].query
  BY DEF EnginesStay, Keeps
<1>2. /\ f \in DOMAIN engines /\ f \in Nat
      /\ engines[f].state = "opening" /\ engines[f].polling /\ engines[f].asked = 0
      /\ engines'[f].state = "open"
      /\ engines'[f].asked = Named(heap', f)
      /\ \A e \in DOMAIN engines : e # f => engines'[e] = engines[e]
      /\ heap' = [heap EXCEPT !.tables[q].sid = f]
  BY DEF Opening
<1>3. PlaceInv /\ Alone /\ SessionKnown /\ OwnSession /\ WellFormed(heap)
      /\ \A e \in DOMAIN engines : engines[e].query \in DOMAIN heap.tables
  BY DEF SessionInv, TableInv, HeapInv
<1>4. \A m \in DOMAIN managers : current[m] \in DOMAIN engines BY <1>3, EngineOf
<1>5. \A m \in DOMAIN managers : MayShare(m) => MayShare(m)' BY <1>3, MayShareStays
<1>6. q \in DOMAIN heap.tables BY <1>2, <1>3
<1> HIDE DEF q
<1>7. /\ heap'.query = heap.query
      /\ heap' \in HeapType
      /\ Len(heap'.tables) = Len(heap.tables) /\ DOMAIN heap'.tables = DOMAIN heap.tables
      /\ heap'.tables[q].keys = heap.tables[q].keys /\ heap'.tables[q].text = heap.tables[q].text
      /\ heap'.tables[q].sid = f
      /\ \A i \in DOMAIN heap.tables : i # q => heap'.tables[i] = heap.tables[i]
  <2> DEFINE y == [heap.tables[q] EXCEPT !.sid = f]
             ts == [heap.tables EXCEPT ![q] = y]
  <2>1. heap \in HeapType /\ DOMAIN heap.tables = 1 .. Len(heap.tables)
    BY <1>3, HeapParts
  <2>2. heap.tables \in Seq(TableType) BY <2>1 DEF HeapType
  <2>3. heap.tables[q] \in TableType BY <1>6, <2>1, <2>2, ElementOfSeq
  <2>4. y \in TableType /\ y.sid = f /\ y.keys = heap.tables[q].keys /\ y.text = heap.tables[q].text
    BY <1>2, <2>3 DEF TableType
  <2>5. heap' = [heap EXCEPT !.tables = ts] BY <1>2
  <2> HIDE DEF y
  <2>6. /\ ts \in Seq(TableType) /\ Len(ts) = Len(heap.tables)
        /\ \A i \in 1 .. Len(heap.tables) : ts[i] = IF i = q THEN y ELSE heap.tables[i]
    BY <1>6, <2>1, <2>2, <2>4, ExceptSeq
  <2>7. DOMAIN ts = DOMAIN heap.tables OBVIOUS
  <2> HIDE DEF ts
  <2>8. heap'.tables = ts /\ heap'.query = heap.query /\ heap' \in HeapType
    BY <2>1, <2>5, <2>6 DEF HeapType
  <2> QED BY <1>6, <2>1, <2>4, <2>6, <2>7, <2>8
<1>8. SameKeys(heap, heap') BY <1>6, <1>7 DEF SameKeys
<1>9. Alone' BY <1>1, <1>3, <1>4, <1>5 DEF Alone
<1>10. engines'[f].asked = f /\ heap'.tables[engines'[f].query].sid = f
  BY <1>1, <1>2, <1>7 DEF Named, q
<1>11. ASSUME NEW m \in DOMAIN managers, ~MayShare(m)'
       PROVE  LET e == current[m] IN
              /\ engines'[e].state = "opening" => heap'.tables[engines'[e].query].sid = 0
              /\ engines'[e].state \in {"open", "closing"}
                   => heap'.tables[engines'[e].query].sid = e
              /\ engines'[e].polling => engines'[e].asked \in
                   CASE engines'[e].state = "opening" -> {0} [] OTHER -> {e}
  <2>1. CASE current[m] = f BY <1>2, <1>10, <2>1
  <2>2. CASE current[m] # f
    <3> DEFINE e == current[m]
    <3>1. PICK n \in DOMAIN managers : current[n] = f
      BY <1>2, <1>3 DEF PlaceInv, Owned, Ended
    <3>2. engines[e].query # q
      BY <1>3, <1>5, <1>11, <2>2, <3>1 DEF Alone, q
    <3>3. heap'.tables[engines'[e].query].sid = heap.tables[engines[e].query].sid
          /\ engines'[e] = engines[e]
      BY <1>1, <1>2, <1>3, <1>4, <1>7, <2>2, <3>2
    <3>4. /\ engines[e].state = "opening" => heap.tables[engines[e].query].sid = 0
          /\ engines[e].state \in {"open", "closing"} => heap.tables[engines[e].query].sid = e
      BY <1>3, <1>5, <1>11 DEF SessionKnown, Named
    <3>5. engines[e].polling =>
            engines[e].asked \in CASE engines[e].state = "opening" -> {0} [] OTHER -> {e}
      BY <1>3, <1>5, <1>11 DEF OwnSession
    <3> HIDE DEF e
    <3> QED BY <3>3, <3>4, <3>5 DEF e
  <2> QED BY <2>1, <2>2
<1>12. SessionKnown' BY <1>1, <1>11 DEF SessionKnown, Named
<1>13. OwnSession' BY <1>1, <1>11 DEF OwnSession
<1> QED BY <1>8, <1>9, <1>12, <1>13

(* An engine that is new has a table without a session, or its manager may  *)
(* share it. *)
LEMMA OpenedSession ==
  ASSUME SessionInv, PlaceInv', Grow, NEW h, Ready(h), NEW n, NEW q \in Nat,
         OpenedWith(h, n, q)
  PROVE  (Alone /\ SessionKnown /\ OwnSession)'
<1> DEFINE u == managers'[n].url
           o == managers'[n].opts
           e == Len(engines) + 1
<1>1. /\ DOMAIN managers' = DOMAIN managers \cup {n} /\ n \in DOMAIN managers'
      /\ u \in Urls /\ o \in Options
      /\ engines'[e] = Engine(u, o, q)
      /\ \A f \in DOMAIN engines : engines'[f] = engines[f]
      /\ current'[n] = e
      /\ \A m \in DOMAIN managers :
           m # n => current'[m] = current[m] /\ current[m] \in DOMAIN engines
      /\ Finds(h, heap', u, o, q)
  BY DEF OpenedWith
<1> HIDE DEF u, o, e
<1>2. /\ Len(h.tables) \in Nat /\ DOMAIN h.tables = 1 .. Len(h.tables)
      /\ \A i \in DOMAIN heap.tables : i \in DOMAIN h.tables /\ h.tables[i] = heap.tables[i]
  BY ReadyParts
<1>3. Referred(h) /\ \A p \in Options : Told(h, sockets', p) BY DEF Ready
<1>4. \A i \in DOMAIN h.tables : heap'.tables[i] = h.tables[i] BY <1>1 DEF Finds, Grown
<1>5. PlaceInv /\ Alone /\ SessionKnown /\ OwnSession
      /\ \A f \in DOMAIN engines : engines[f].query \in DOMAIN heap.tables
  BY DEF SessionInv, TableInv, HeapInv
<1>6. \A m \in DOMAIN managers : MayShare(m) => MayShare(m)' BY <1>5, MayShareStays
<1>7. /\ engines'[e].query = q /\ engines'[e].state = "opening" /\ engines'[e].polling = FALSE
  BY <1>1 DEF Engine
<1>8. \/ u.query = {} /\ IsTable(h, o) /\ q = h.query[o]
      \/ heap'.tables[q].sid = 0 /\ q \notin DOMAIN h.tables
  BY <1>1, <1>2 DEF Finds
<1>9. ASSUME NEW m \in DOMAIN managers, m # n
      PROVE  /\ m \in DOMAIN managers' /\ current'[m] = current[m]
             /\ engines'[current'[m]] = engines[current[m]]
             /\ engines[current[m]].query \in DOMAIN heap.tables
             /\ managers'[m].url = managers[m].url /\ managers'[m].opts = managers[m].opts
  BY <1>1, <1>5, <1>9 DEF Grow
<1>10. ASSUME u.query = {}, IsTable(h, o), q = h.query[o]
       PROVE  MayShare(n)'
  BY <1>1, <1>3, <1>10, BothMayShare DEF u, o
<1>11. ASSUME NEW m \in DOMAIN managers, m # n, ~MayShare(m)' \/ ~MayShare(n)'
       PROVE  engines[current[m]].query # q
  <2>1. CASE heap'.tables[q].sid = 0 /\ q \notin DOMAIN h.tables
    BY <1>2, <1>9, <1>11, <2>1
  <2>2. CASE u.query = {} /\ IsTable(h, o) /\ q = h.query[o]
    <3> SUFFICES ASSUME engines[current[m]].query = q PROVE FALSE
      OBVIOUS
    <3>1. managers[m].opts = o /\ (managers[m].url.query = {} \/ managers[m].url.userInfo)
      BY <1>1, <1>3, <2>2 DEF Referred
    <3>2. MayShare(m)'
      BY <1>1, <1>3, <1>9, <1>11, <2>2, <3>1, BothMayShare DEF u, o
    <3>3. MayShare(n)' BY <1>10, <2>2
    <3> QED BY <1>11, <3>2, <3>3
  <2> QED BY <1>8, <2>1, <2>2
<1>12. Alone'
  <2>1. ASSUME NEW m \in DOMAIN managers', NEW k \in DOMAIN managers', m # k, ~MayShare(m)'
        PROVE  engines'[current'[k]].query # engines'[current'[m]].query
    <3>1. CASE m = n
      <4>1. k \in DOMAIN managers /\ k # n BY <1>1, <2>1, <3>1
      <4>2. engines[current[k]].query # q BY <1>11, <2>1, <3>1, <4>1
      <4> QED BY <1>1, <1>7, <1>9, <3>1, <4>1, <4>2
    <3>2. CASE k = n
      <4>1. m \in DOMAIN managers /\ m # n BY <1>1, <2>1, <3>2
      <4>2. engines[current[m]].query # q BY <1>11, <2>1, <4>1
      <4> QED BY <1>1, <1>7, <1>9, <3>2, <4>1, <4>2
    <3>3. CASE m # n /\ k # n
      <4>1. m \in DOMAIN managers /\ k \in DOMAIN managers BY <1>1, <3>3
      <4>2. ~MayShare(m) BY <1>6, <2>1, <4>1
      <4>3. engines[current[k]].query # engines[current[m]].query
        BY <1>5, <2>1, <4>1, <4>2 DEF Alone
      <4> QED BY <1>9, <3>3, <4>1, <4>3
    <3> QED BY <3>1, <3>2, <3>3
  <2> QED BY <2>1 DEF Alone
<1>13. ASSUME NEW m \in DOMAIN managers', ~MayShare(m)'
       PROVE  LET f == current'[m] IN
              /\ engines'[f].state = "opening" => heap'.tables[engines'[f].query].sid = 0
              /\ engines'[f].state \in {"open", "closing"}
                   => heap'.tables[engines'[f].query].sid = f
              /\ engines'[f].polling => engines'[f].asked \in
                   CASE engines'[f].state = "opening" -> {0} [] OTHER -> {f}
  <2>1. CASE m = n
    <3>1. heap'.tables[q].sid = 0 BY <1>8, <1>10, <1>13, <2>1
    <3> QED BY <1>1, <1>7, <2>1, <3>1
  <2>2. CASE m # n
    <3>1. m \in DOMAIN managers BY <1>1, <2>2
    <3>2. ~MayShare(m) BY <1>6, <1>13, <3>1
    <3> DEFINE f == current[m]
    <3>3. current'[m] = f /\ engines'[f] = engines[f]
          /\ heap'.tables[engines'[f].query] = heap.tables[engines[f].query]
      BY <1>2, <1>4, <1>9, <2>2, <3>1
    <3>4. /\ engines[f].state = "opening" => heap.tables[engines[f].query].sid = 0
          /\ engines[f].state \in {"open", "closing"} => heap.tables[engines[f].query].sid = f
      BY <1>5, <3>1, <3>2 DEF SessionKnown, Named
    <3>5. engines[f].polling =>
            engines[f].asked \in CASE engines[f].state = "opening" -> {0} [] OTHER -> {f}
      BY <1>5, <3>1, <3>2 DEF OwnSession
    <3> HIDE DEF f
    <3> QED BY <3>3, <3>4, <3>5
  <2> QED BY <2>1, <2>2
<1>14. SessionKnown' BY <1>13 DEF SessionKnown, Named
<1>15. OwnSession' BY <1>13 DEF OwnSession
<1> QED BY <1>12, <1>14, <1>15

(***************************************************************************)
(* The theorems                                                             *)
(***************************************************************************)
(* A finite set as a sequence has each element once. *)
LEMMA SeqOfSet ==
  ASSUME NEW S, IsFiniteSet(S)
  PROVE  LET w == SetToSeq(S) IN
         /\ w \in [1 .. Cardinality(S) -> S] /\ Cardinality(S) \in Nat
         /\ \A x \in S : \E i \in DOMAIN w : w[i] = x
<1> DEFINE n == Cardinality(S)
           w == SetToSeq(S)
<1>1. n \in Nat /\ ExistsBijection(1 .. n, S) BY FS_CardinalityType
<1>2. PICK b : b \in Bijection(1 .. n, S) BY <1>1 DEF ExistsBijection
<1>3. b \in [1 .. n -> S] /\ IsInjective(b) BY <1>2 DEF Bijection, Injection
<1>4. w \in [1 .. n -> S] /\ IsInjective(w) BY <1>3 DEF SetToSeq
<1>5. w \in Injection(1 .. n, S) BY <1>4 DEF Injection
<1>6. Cardinality(1 .. n) = n
  <2>1. Cardinality(1 .. n) = IF 1 > n THEN 0 ELSE n - 1 + 1 BY <1>1, FS_Interval
  <2> QED BY <1>1, <2>1
<1> HIDE DEF w
<1>7. w \in Surjection(1 .. n, S) BY <1>5, <1>6, FS_Injection
<1>8. \A x \in S : \E i \in 1 .. n : w[i] = x BY <1>7 DEF Surjection
<1> QED BY <1>1, <1>4, <1>8 DEF w

LEMMA InitPlace ==
  ASSUME Init
  PROVE  PlaceInv
<1>1. /\ cache = [id \in Ids |-> 0] /\ managers = <<>> /\ current = <<>>
      /\ sockets = <<>> /\ engines = <<>> /\ calls = [o \in Options |-> 0]
  BY DEF Init
<1>2. /\ managers \in Seq(ManagerType) /\ sockets \in Seq(SocketType)
      /\ current \in Seq(Nat) /\ engines \in Seq(Range(engines))
      /\ DOMAIN managers = {} /\ DOMAIN sockets = {} /\ DOMAIN current = {}
      /\ DOMAIN engines = {} /\ Len(managers) = 0
  BY <1>1
<1>3. cache \in [Ids -> 0 .. Len(managers)] /\ calls \in [Options -> Nat] BY <1>1, <1>2
<1>4. Typed BY <1>2, <1>3 DEF Typed, EnginesTyped
<1>5. Registered /\ Counted /\ Owned BY <1>2 DEF Registered, Counted, Owned
<1>6. Identified BY <1>1, <1>2 DEF Identified
<1> QED BY <1>4, <1>5, <1>6 DEF PlaceInv

LEMMA InitTables ==
  ASSUME Init
  PROVE  WellFormed(heap) /\ \A o \in Options : Told(heap, sockets, o)
<1> DEFINE S == {o \in Options : Given[o].keys # {}}
           n == Cardinality(S)
           At(o) == CHOOSE i \in DOMAIN WithQuery : WithQuery[i] = o
<1>1. IsFiniteSet(S)
  <2>1. S \in SUBSET Options /\ IsFiniteSet(Options) BY CallsAssumption
  <2> HIDE DEF S
  <2> QED BY <2>1, FS_Subset
<1>2. /\ WithQuery \in [1 .. n -> S] /\ n \in Nat
      /\ \A x \in S : \E i \in DOMAIN WithQuery : WithQuery[i] = x
  <2>1. WithQuery = SetToSeq(S) BY DEF WithQuery
  <2> HIDE DEF S
  <2> QED BY <1>1, <2>1, SeqOfSet
<1>3. ASSUME NEW o \in S
      PROVE  At(o) \in 1 .. n /\ WithQuery[At(o)] = o
  <2> HIDE DEF S
  <2> QED BY <1>2
<1>4. /\ heap.tables = [i \in 1 .. n |-> [Table(Given[WithQuery[i]].keys) EXCEPT
                                            !.text = Given[WithQuery[i]].text]]
      /\ heap.query = [o \in Options |-> IF Given[o].keys = {} THEN 0 ELSE At(o)]
      /\ DOMAIN heap = {"tables", "query"}
      /\ heap = [tables |-> heap.tables, query |-> heap.query]
  BY <1>2 DEF Init
<1> HIDE DEF At, n
<1>5. \A i \in 1 .. n : WithQuery[i] \in Options BY <1>2
<1>6. ASSUME NEW i \in 1 .. n
      PROVE  /\ heap.tables[i] \in TableType
             /\ heap.tables[i].keys = Given[WithQuery[i]].keys
             /\ heap.tables[i].text = Given[WithQuery[i]].text
  <2>1. /\ Given[WithQuery[i]].keys \in KeySets /\ Given[WithQuery[i]].text \in BOOLEAN
    BY <1>5, CallsAssumption DEF KeySets
  <2>2. heap.tables[i] = [text |-> Given[WithQuery[i]].text,
                          keys |-> Given[WithQuery[i]].keys, sid |-> 0]
    BY <1>4 DEF Table
  <2> QED BY <2>1, <2>2 DEF TableType
<1>7. heap.tables \in Seq(TableType) /\ Len(heap.tables) = n
  <2>1. heap.tables \in [1 .. n -> TableType] BY <1>4, <1>6
  <2>2. heap.tables \in Seq(TableType) BY <1>2, <2>1, SeqDef
  <2>3. Len(heap.tables) \in Nat /\ 1 .. Len(heap.tables) = 1 .. n
    BY <2>1, <2>2, LenProperties
  <2> QED BY <1>2, <2>2, <2>3
<1>8. ASSUME NEW o \in Options
      PROVE  /\ heap.query[o] \in 0 .. n
             /\ heap.query[o] = 0 => Given[o].keys = {}
             /\ heap.query[o] # 0 => /\ Given[o].keys # {}
                                     /\ heap.query[o] \in 1 .. n
                                     /\ WithQuery[heap.query[o]] = o
  BY <1>2, <1>3, <1>4
<1>9. heap.query \in [Options -> Nat] BY <1>2, <1>4, <1>8
<1>10. heap \in HeapType BY <1>4, <1>7, <1>9 DEF HeapType
<1>11. WellFormed(heap)
  <2>1. ASSUME NEW o \in Options, NEW p \in Options, o # p, heap.query[o] = heap.query[p]
        PROVE  heap.query[o] = 0
    BY <1>8, <2>1
  <2> QED BY <1>7, <1>8, <1>10, <2>1 DEF WellFormed
<1>12. ASSUME NEW o \in Options PROVE Told(heap, sockets, o)
  <2>1. IsTable(heap, o) => GivenTable(o) BY <1>6, <1>8 DEF IsTable, GivenTable
  <2>2. IF heap.query[o] = 0 THEN Given[o].keys = {}
        ELSE heap.tables[heap.query[o]].keys = Given[o].keys
    BY <1>6, <1>8
  <2> QED BY <2>1, <2>2 DEF Told
<1> QED BY <1>11, <1>12

LEMMA InitInv ==
  ASSUME Init
  PROVE  SessionInv
<1>1. PlaceInv BY InitPlace
<1>2. DOMAIN managers = {} /\ DOMAIN engines = {} BY DEF Init
<1>3. HeapInv BY <1>2, InitTables DEF HeapInv, Referred, Keyed
<1>4. Alone /\ SessionKnown /\ OwnSession BY <1>2 DEF Alone, SessionKnown, OwnSession
<1> QED BY <1>1, <1>3, <1>4 DEF SessionInv, TableInv

(* The engine that a manager opens. *)
LEMMA OpenedKeeps ==
  ASSUME SessionInv, SocketInv', Grow, NEW h, Ready(h), NEW n, Opened(h, n)
  PROVE  SessionInv'
<1>1. PlaceInv /\ TableInv BY DEF SessionInv, TableInv
<1>2. WellFormed(h) BY DEF Ready
<1>3. PlaceInv' BY <1>1, <1>2, OpenedOwned
<1>4. PICK q \in Nat : OpenedWith(h, n, q) BY <1>1, <1>2, OpenedParts
<1>5. HeapInv' BY <1>1, <1>3, <1>4, OpenedHeap
<1>6. (Alone /\ SessionKnown /\ OwnSession)' BY <1>3, <1>4, OpenedSession
<1> QED BY <1>3, <1>5, <1>6 DEF SessionInv, TableInv

(* Engines that move. *)
LEMMA MovesKeep ==
  ASSUME SessionInv, SocketInv', Grow, DOMAIN managers' = DOMAIN managers, EnginesMove,
         NEW h, Ready(h), heap' = h
  PROVE  SessionInv'
<1>1. PlaceInv /\ TableInv BY DEF SessionInv, TableInv
<1>2. EnginesStay BY MovesStay
<1>3. PlaceInv' BY <1>1, <1>2, StayOwned
<1>4. SameKeys(h, heap') BY ReadyParts DEF SameKeys
<1>5. HeapInv' BY <1>1, <1>2, <1>3, <1>4, StayHeap
<1>6. (Alone /\ SessionKnown /\ OwnSession)' BY <1>3, MovesSession
<1> QED BY <1>3, <1>5, <1>6 DEF SessionInv, TableInv

LEMMA StepKeeps ==
  ASSUME SessionInv, Next
  PROVE  SessionInv'
<1>1. PlaceInv /\ TableInv BY DEF SessionInv, TableInv
<1>2. ASSUME SameSockets PROVE SocketInv' /\ Grow /\ DOMAIN managers' = DOMAIN managers
  BY <1>1, <1>2, SameSocketsKept
<1>3. ASSUME Grow PROVE Ready(heap) BY <1>1, <1>3, HeapReady
<1>4. ASSUME SameSockets, EnginesMove, heap' = heap PROVE SessionInv'
  BY <1>2, <1>3, <1>4, MovesKeep
<1>5. ASSUME SameSockets, NEW m, Opened(heap, m) PROVE SessionInv'
  BY <1>2, <1>3, <1>5, OpenedKeeps
<1>6. ASSUME NEW c \in Calls, Io(c[1], c[2]) PROVE SessionInv'
  <2> DEFINE u == c[1]
             o == c[2]
             m == Len(managers) + 1
  <2>1. u \in Urls /\ o \in Options /\ Id(u, o) \in Ids /\ Nsp(u) \in Namespaces BY CallTypes
  <2> HIDE DEF u, o
  <2>2. Joins(u, o, m) /\ Opened(heap, m) BY <1>1, <1>6, <2>1, IoJoins DEF u, o
  <2> HIDE DEF m
  <2>3. SocketInv' /\ Grow BY <1>1, <2>1, <2>2, JoinsKept
  <2> QED BY <1>3, <2>2, <2>3, OpenedKeeps
<1>7. ASSUME NEW c \in Calls, IoShared(c[1], c[2]) PROVE SessionInv'
  <2> DEFINE u == c[1]
             o == c[2]
  <2>1. u \in Urls /\ o \in Options /\ Id(u, o) \in Ids /\ Nsp(u) \in Namespaces BY CallTypes
  <2> HIDE DEF u, o
  <2>2. PICK m \in DOMAIN managers :
          /\ Joins(u, o, m)
          /\ \/ EnginesMove /\ heap' = Lent(u, o)
             \/ Opened(Lent(u, o), m)
    BY <1>1, <1>7, <2>1, IoSharedJoins DEF u, o
  <2>3. SocketInv' /\ Grow /\ DOMAIN managers' = DOMAIN managers
    BY <1>1, <2>1, <2>2, JoinsKept
  <2>4. Ready(Lent(u, o)) BY <1>1, <2>1, <2>2, <2>3, LentReady
  <2>5. CASE EnginesMove /\ heap' = Lent(u, o) BY <2>3, <2>4, <2>5, MovesKeep
  <2>6. CASE Opened(Lent(u, o), m) BY <2>3, <2>4, <2>6, OpenedKeeps
  <2> QED BY <2>2, <2>5, <2>6
<1>8. ASSUME NEW s \in DOMAIN sockets, UserConnects(s) PROVE SessionInv'
  BY <1>1, <1>4, <1>5, <1>8, UserConnectsMoves
<1>9. ASSUME NEW s \in DOMAIN sockets, NEW connected \in BOOLEAN, UserDisconnects(s, connected)
      PROVE  SessionInv'
  BY <1>1, <1>4, <1>9, DisconnectMoves
<1>10. ASSUME NEW s \in DOMAIN sockets, NEW p \in Outgoing, Emit(s, p) PROVE SessionInv'
  BY <1>1, <1>4, <1>10, PacketMoves
<1>11. ASSUME NEW e \in DOMAIN engines, Poll(e) \/ Lost(e) \/ PollAnswered(e) \/ Post(e)
       PROVE  SessionInv'
  BY <1>1, <1>4, <1>11, RequestMoves
<1>12. ASSUME NEW e \in DOMAIN engines, Handshake(e) PROVE SessionInv'
  <2>1. Opening(e) /\ EnginesStay /\ SameSockets BY <1>1, <1>12, HandshakeOpens
  <2>2. SocketInv' /\ Grow /\ DOMAIN managers' = DOMAIN managers BY <1>2, <2>1
  <2>3. Ready(heap) BY <1>3, <2>2
  <2>4. PlaceInv' BY <1>1, <2>1, <2>2, StayOwned
  <2>5. (Alone /\ SessionKnown /\ OwnSession)' /\ SameKeys(heap, heap')
    BY <2>1, <2>2, <2>4, OpeningSession
  <2>6. HeapInv' BY <1>1, <2>1, <2>2, <2>3, <2>4, <2>5, StayHeap
  <2> QED BY <2>4, <2>5, <2>6 DEF SessionInv, TableInv
<1>13. ASSUME NEW e \in DOMAIN engines, NEW nsp \in Namespaces, NEW p \in Incoming,
              ServerSends(e, nsp, p)
       PROVE  SessionInv'
  BY <1>1, <1>4, <1>13, PacketMoves
<1>14. ASSUME NEW m \in DOMAIN managers, Reconnect(m) PROVE SessionInv'
  BY <1>1, <1>5, <1>14, ReconnectMoves
<1> QED BY <1>6, <1>7, <1>8, <1>9, <1>10, <1>11, <1>12, <1>13, <1>14 DEF Next, Step

(* The invariant holds of every state. *)
LEMMA SessionInvariant == Spec => []SessionInv
<1>1. Init => SessionInv BY InitInv
<1>2. SessionInv /\ [Next]_vars => SessionInv'
  <2> SUFFICES ASSUME SessionInv, [Next]_vars PROVE SessionInv'
    OBVIOUS
  <2>1. CASE Next BY <2>1, StepKeeps
  <2>2. CASE UNCHANGED vars
    <3>1. /\ cache' = cache /\ managers' = managers /\ current' = current
          /\ sockets' = sockets /\ engines' = engines /\ heap' = heap /\ calls' = calls
      BY <2>2 DEF vars
    <3>2. SameSockets BY <3>1, SocketsStay DEF SessionInv, TableInv, PlaceInv
    <3>3. EnginesMove
      BY <3>1 DEF EnginesMove, Keeps, Life, SessionInv, TableInv, PlaceInv, Typed, EnginesTyped
    <3>4. PlaceInv /\ TableInv BY DEF SessionInv, TableInv
    <3>5. SocketInv' /\ Grow /\ DOMAIN managers' = DOMAIN managers
      BY <3>2, <3>4, SameSocketsKept
    <3>6. Ready(heap) BY <3>4, <3>5, HeapReady
    <3> QED BY <3>1, <3>3, <3>5, <3>6, MovesKeep
  <2> QED BY <2>1, <2>2
<1> QED BY <1>1, <1>2, PTL DEF Spec

(* Every reference leads to what it should, whatever is called (lookup(),   *)
(* the constructors of Manager, Socket and the engine's Socket).            *)
THEOREM TypeCorrect == Spec => []TypeOK
<1>1. SessionInv => TypeOK
  <2> SUFFICES ASSUME SessionInv PROVE TypeOK
    OBVIOUS
  <2>1. PlaceInv /\ HeapInv BY DEF SessionInv, TableInv
  <2>2. cache \in [Ids -> 0 .. Len(managers)] BY <2>1 DEF PlaceInv, Typed
  <2>3. /\ DOMAIN current = DOMAIN managers
        /\ IsInjective(current) /\ Range(current) \subseteq DOMAIN engines
    BY <2>1 DEF PlaceInv, Owned, IsInjective, Range
  <2>4. /\ \A s \in DOMAIN sockets : managers[sockets[s].io].nsps[sockets[s].nsp] = s
        /\ \A e \in DOMAIN engines : engines[e].query \in DOMAIN heap.tables
        /\ \A o \in Options : heap.query[o] \in 0 .. Len(heap.tables)
    BY <2>1 DEF PlaceInv, Registered, HeapInv, WellFormed
  <2> QED BY <2>2, <2>3, <2>4 DEF TypeOK
<1> QED BY <1>1, SessionInvariant, PTL

(* An engine polls without a session until it has its own, and from then on *)
(* with its own, unless the query table that it found may be that of        *)
(* another engine too (createTransport(), onHandshake(), uri()).            *)
THEOREM OwnSessionCorrect == Spec => []OwnSession
<1>1. SessionInv => OwnSession BY DEF SessionInv
<1> QED BY <1>1, SessionInvariant, PTL

(* Through a cache that other calls filled and tables that other engines    *)
(* wrote to, a socket is connected to the scheme, host and path of its own  *)
(* call, over a manager whose URL names the same port, and the only call    *)
(* with some options sends the query it named, in a URL with user info or   *)
(* in the options (lookup(), url(), the constructors of Manager and engine, *)
(* createUri()).                                                            *)
THEOREM RightPlaceCorrect == Spec => []RightPlace
<1>1. SessionInv => RightPlace
  <2> SUFFICES ASSUME SessionInv, NEW s \in DOMAIN sockets
               PROVE  LET m == sockets[s].io
                          u == sockets[s].url
                          o == sockets[s].opts
                          e == engines[current[m]]
                      IN /\ e.scheme = (IF Secure(u) THEN "https" ELSE "http")
                         /\ e.host = u.host /\ e.path = Path(o)
                         /\ Port(managers[m].url) = Port(u)
                         /\ calls[o] = 1 /\ managers[m].opts = o /\ (u.query = {} \/ u.userInfo)
                              => heap.tables[e.query].keys = NamedQuery(u, o)
    BY DEF RightPlace
  <2> DEFINE m == sockets[s].io
             u == sockets[s].url
             o == sockets[s].opts
             e == engines[current[m]]
  <2>1. PlaceInv /\ HeapInv BY DEF SessionInv, TableInv
  <2>2. m \in DOMAIN managers /\ Id(u, o) = Id(managers[m].url, managers[m].opts)
    BY <2>1 DEF PlaceInv, Registered, Identified, IdOf
  <2>3. /\ u.protocol = managers[m].url.protocol /\ u.host = managers[m].url.host
        /\ Path(o) = Path(managers[m].opts) /\ Port(managers[m].url) = Port(u)
    BY <2>2 DEF Id
  <2>4. LeadsTo(e, managers[m].url, managers[m].opts) BY <2>1, <2>2 DEF PlaceInv, Owned
  <2>5. Secure(u) <=> Secure(managers[m].url) BY <2>3 DEF Secure
  <2>6. /\ e.scheme = (IF Secure(u) THEN "https" ELSE "http")
        /\ e.host = u.host /\ e.path = Path(o)
    BY <2>3, <2>4, <2>5 DEF LeadsTo
  <2>7. ASSUME calls[o] = 1, managers[m].opts = o, u.query = {} \/ u.userInfo
        PROVE  heap.tables[e.query].keys = NamedQuery(u, o)
    <3>1. PICK i \in DOMAIN sockets :
            sockets[i].url = managers[m].url /\ sockets[i].opts = managers[m].opts
      BY <2>1, <2>2 DEF PlaceInv, Registered
    <3>2. i = s BY <2>1, <2>7, <3>1 DEF PlaceInv, Counted
    <3>3. heap.tables[e.query].keys = CodeQuery(managers[m].url, managers[m].opts)
      BY <2>1, <2>2, <2>7 DEF HeapInv, Keyed
    <3>4. CodeQuery(u, o) = NamedQuery(u, o) BY <2>7 DEF CodeQuery, NamedQuery, QueryKey
    <3> QED BY <2>7, <3>1, <3>2, <3>3, <3>4
  <2> QED BY <2>3, <2>6, <2>7
<1> QED BY <1>1, SessionInvariant, PTL
=============================================================================
