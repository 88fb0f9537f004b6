--------------------------- MODULE RateLimiter_proofs ---------------------------
(***************************************************************************)
(* Proofs about RateLimiter: its type invariant, and how far the limit of   *)
(* requests can be exceeded, for any number of transports, any limit and    *)
(* any interval.                                                            *)
(***************************************************************************)
EXTENDS RateLimiter, FiniteSetTheorems, TLAPS

(* A request is counted, in flight, or has thrown. *)
Accounted == started <= requestTimes + Cardinality(sending) + failed

(* Requests that are counted or in flight: the gate was passed below the    *)
(* limit, with at most one request of every thread in flight.               *)
Room ==
  requestTimes + Cardinality(sending)
    <= MAX_REQUEST_PER_INTERVAL - 1 + Cardinality(Gated) + Cardinality(flushed)

FlushesKnown == sending \cap Closers \subseteq flushed
NotBoth == waiting \cap sending = {}

(* A transport has no poll before its first: doOpen() finds none.           *)
Begun == \A r \in waiting \cup (sending \cap Gated) : state[r[1]] \in {"open", "closed"}

(* What Overshoot rests on, with Begun. *)
LimitInv == TypeOK /\ Accounted /\ Room /\ FlushesKnown /\ NotBoth

(* The threads of finitely many transports are finitely many. *)
LEMMA GatedFinite == IsFiniteSet(Gated) /\ IsFiniteSet(Closers) /\ IsFiniteSet(Callers)
<1>1. IsFiniteSet({"poll", "loop"}) /\ IsFiniteSet({"close"})
  <2>1. {"poll", "loop"} = {"poll"} \cup {"loop"} OBVIOUS
  <2>2. IsFiniteSet({"poll"}) /\ IsFiniteSet({"loop"}) /\ IsFiniteSet({"close"}) BY FS_Singleton
  <2> QED BY <2>1, <2>2, FS_Union
<1>2. IsFiniteSet(Gated) BY <1>1, FS_Product, LimiterAssumption DEF Gated
<1>3. IsFiniteSet(Closers) BY <1>1, FS_Product, LimiterAssumption DEF Closers
<1> QED BY <1>2, <1>3, FS_Union DEF Callers

(* Every set of threads is finite. *)
LEMMA ThreadsFinite ==
  ASSUME NEW S \in SUBSET Callers
  PROVE  IsFiniteSet(S) /\ Cardinality(S) \in Nat
BY GatedFinite, FS_Subset, FS_CardinalityType

(* In flight is at most one request of each thread of a gate and of each    *)
(* close that has flushed.                                                  *)
LEMMA InFlightBound ==
  ASSUME NEW S \in SUBSET Callers, NEW F \in SUBSET Closers, S \cap Closers \subseteq F
  PROVE  Cardinality(S) <= Cardinality(Gated) + Cardinality(F)
<1>1. IsFiniteSet(Gated) /\ IsFiniteSet(F) BY GatedFinite, FS_Subset
<1>2. Cardinality(Gated \cup F)
        = Cardinality(Gated) + Cardinality(F) - Cardinality(Gated \cap F)
  BY <1>1, FS_Union
<1>3. IsFiniteSet(Gated \cup F) /\ IsFiniteSet(Gated \cap F) BY <1>1, FS_Union, FS_Intersection
<1>4. S \subseteq Gated \cup F BY DEF Callers
<1>5. Cardinality(S) <= Cardinality(Gated \cup F) BY <1>3, <1>4, FS_Subset
<1>6. /\ Cardinality(Gated) \in Nat /\ Cardinality(F) \in Nat /\ Cardinality(S) \in Nat
      /\ Cardinality(Gated \cap F) \in Nat /\ Cardinality(Gated \cup F) \in Nat
  BY <1>1, <1>3, FS_CardinalityType, ThreadsFinite
<1> QED BY <1>2, <1>5, <1>6

(* Threads that are not in flight and send are that many more in flight.    *)
LEMMA SendersAdd ==
  ASSUME NEW S \in SUBSET Callers, NEW T \in SUBSET Callers, S \cap T = {}
  PROVE  Cardinality(S \cup T) = Cardinality(S) + Cardinality(T)
<1>1. IsFiniteSet(S) /\ IsFiniteSet(T) /\ Cardinality(S) \in Nat /\ Cardinality(T) \in Nat
  BY ThreadsFinite
<1>2. Cardinality(S \cup T) = Cardinality(S) + Cardinality(T) - Cardinality(S \cap T)
  BY <1>1, FS_Union
<1>3. Cardinality(S \cap T) = 0 BY FS_EmptySet
<1> QED BY <1>1, <1>2, <1>3

(* No thread is both at a gate and a flush. *)
LEMMA KindsDiffer == Gated \cap Closers = {}
BY DEF Gated, Closers

(***************************************************************************)
(* Type correctness                                                         *)
(***************************************************************************)
(* The class is loaded once, with everything at zero (ROB:9-24). *)
LEMMA InitType == Init => TypeOK
BY LimiterAssumption DEF Init, TypeOK

(* A close keeps the types of what it changes. *)
LEMMA ClosesType ==
  ASSUME TypeOK, NEW t \in Transports, NEW rest \in SUBSET sending, fresh \subseteq rest,
         Closes(t, rest)
  PROVE  /\ state' \in [Transports -> {"none", "new", "open", "early", "closed"}]
         /\ sending' \subseteq Callers /\ fresh' \subseteq sending'
         /\ flushed' \subseteq Closers /\ started' \in Nat
<1>1. PICK ts \in Flush(t) :
        /\ state' = [state EXCEPT ![t] = "closed"]
        /\ sending' = rest \cup ts /\ fresh' = fresh \cup ts
        /\ flushed' = flushed \cup ts /\ started' = started + Cardinality(ts)
  BY DEF Closes
<1>2. ts \subseteq Closers BY DEF Flush, Closers
<1>3. Cardinality(ts) \in Nat BY <1>2, ThreadsFinite DEF Callers
<1> QED BY <1>1, <1>2, <1>3 DEF TypeOK, Callers

(* A thread that comes to the gate sends or waits. *)
LEMMA AtGateType ==
  ASSUME TypeOK, NEW r \in Gated, AtGate(r)
  PROVE  /\ waiting' \subseteq Gated /\ sending' \subseteq Callers
         /\ fresh' \subseteq sending' /\ started' \in Nat
<1>1. r \in Callers BY DEF Callers
<1>2. Cardinality({r}) \in Nat BY <1>1, ThreadsFinite
<1> QED BY <1>1, <1>2 DEF AtGate, Sends, TypeOK

(* Every step keeps the types. *)
LEMMA NextType == TypeOK /\ [Next]_vars => TypeOK'
<1> SUFFICES ASSUME TypeOK, [Next]_vars PROVE TypeOK' OBVIOUS
<1> USE LimiterAssumption
<1>1. ASSUME NEW t \in Transports, Make(t) \/ CloseEarly(t) PROVE TypeOK'
  BY <1>1 DEF Make, CloseEarly, TypeOK, threads
<1>2. ASSUME NEW t \in Transports, NEW kind \in {"poll", "loop"}, Request(t, kind)
      PROVE  TypeOK'
  <2>1. <<t, kind>> \in Gated BY DEF Gated
  <2>2. AtGate(<<t, kind>>) /\ UNCHANGED <<requestTimes, resetTime, state, flushed, failed>>
    BY <1>2 DEF Request
  <2> QED BY <2>1, <2>2, AtGateType DEF TypeOK
<1>3. ASSUME NEW t \in Transports, Close(t) PROVE TypeOK'
  <2>1. fresh \subseteq sending BY DEF TypeOK
  <2> QED BY <1>3, <2>1, ClosesType DEF Close, TypeOK
<1>4. ASSUME NEW r \in sending, Return(r) PROVE TypeOK'
  <2>1. r[1] \in Transports BY DEF TypeOK, Callers, Gated, Closers
  <2>2. fresh \subseteq sending \ {r} BY <1>4 DEF Return, InFlight, TypeOK
  <2>3. requestTimes' \in Nat /\ UNCHANGED <<resetTime, waiting, failed>>
    BY <1>4 DEF Return, TypeOK
  <2>4. CASE Closes(r[1], sending \ {r})
    BY <2>1, <2>2, <2>3, <2>4, ClosesType DEF TypeOK
  <2>5. CASE sending' = sending \ {r} /\ UNCHANGED <<state, fresh, flushed, started>>
    BY <2>2, <2>3, <2>5 DEF TypeOK
  <2> QED BY <1>4, <2>4, <2>5 DEF Return, Ends
<1>5. ASSUME NEW r \in sending, Fail(r) PROVE TypeOK'
  <2>1. r[1] \in Transports BY DEF TypeOK, Callers, Gated, Closers
  <2>2. fresh \subseteq sending \ {r} BY <1>5 DEF Fail, InFlight, TypeOK
  <2>3. failed' \in Nat /\ UNCHANGED <<requestTimes, resetTime, waiting>>
    BY <1>5 DEF Fail, TypeOK
  <2>4. CASE Closes(r[1], sending \ {r})
    BY <2>1, <2>2, <2>3, <2>4, ClosesType DEF TypeOK
  <2>5. CASE sending' = sending \ {r} /\ UNCHANGED <<state, fresh, flushed, started>>
    BY <2>2, <2>3, <2>5 DEF TypeOK
  <2> QED BY <1>5, <2>4, <2>5 DEF Fail
<1>6. ASSUME Frame PROVE TypeOK'
  <2>1. PICK ts \in SUBSET waiting :
          /\ requestTimes' \in {0, requestTimes}
          /\ resetTime' = Renewed
          /\ waiting' \subseteq waiting
          /\ sending' = sending \cup ts /\ fresh' = ts
          /\ started' = (IF Resets THEN 0 ELSE started) + Cardinality(ts)
          /\ failed' = (IF Resets THEN 0 ELSE failed)
          /\ UNCHANGED <<state, flushed>>
    BY <1>6 DEF Frame
  <2>2. ts \subseteq Callers /\ Cardinality(ts) \in Nat
    BY ThreadsFinite DEF TypeOK, Callers
  <2>3. resetTime' \in 0 .. REQUEST_TIMES_RESET_INTERVAL
    BY <2>1 DEF Renewed, Resets, TypeOK
  <2>4. requestTimes' \in Nat /\ started' \in Nat /\ failed' \in Nat
    BY <2>1, <2>2 DEF TypeOK
  <2> QED BY <2>1, <2>2, <2>3, <2>4 DEF TypeOK
<1>7. ASSUME NEW t \in Transports, Start(t) PROVE TypeOK'
  <2>1. <<t, "poll">> \in Gated BY DEF Gated
  <2>2. /\ AtGate(<<t, "poll">>) /\ UNCHANGED <<requestTimes, resetTime, flushed, failed>>
        /\ state' = [state EXCEPT ![t] = IF @ = "new" THEN "open" ELSE "closed"]
    BY <1>7 DEF Start
  <2> QED BY <2>1, <2>2, AtGateType DEF TypeOK
<1>8. CASE UNCHANGED vars BY <1>8 DEF vars, threads, TypeOK
<1> QED BY <1>1, <1>2, <1>3, <1>4, <1>5, <1>6, <1>7, <1>8 DEF Next

(* Every variable of the limiter keeps its type, for any number of          *)
(* transports (RobloxGlobalConfig, ROB:9-41).                               *)
THEOREM TypeCorrect == Spec => []TypeOK
<1>1. Init => TypeOK BY InitType
<1>2. TypeOK /\ [Next]_vars => TypeOK' BY NextType
<1> QED BY <1>1, <1>2, PTL DEF Spec

(***************************************************************************)
(* How far the limit is exceeded                                            *)
(***************************************************************************)
(* The first request has room for all, and the limit is one at least. *)
LEMMA InitLimit == Init => LimitInv
<1> SUFFICES ASSUME Init PROVE LimitInv OBVIOUS
<1>1. sending = {} /\ waiting = {} /\ flushed = {} /\ requestTimes = 0 /\ started = 0 /\ failed = 0
  BY DEF Init
<1>2. Cardinality(sending) = 0 /\ Cardinality(flushed) = 0 BY <1>1, FS_EmptySet
<1>3. Cardinality(Gated) \in Nat BY GatedFinite, FS_CardinalityType
<1>4. Accounted BY <1>1, <1>2 DEF Accounted
<1>5. Room BY <1>1, <1>2, <1>3, LimiterAssumption DEF Room
<1>6. FlushesKnown /\ NotBoth BY <1>1 DEF FlushesKnown, NotBoth
<1> QED BY <1>4, <1>5, <1>6, InitType DEF LimitInv

(* The cardinalities that the invariant compares are numbers. *)
LEMMA Sizes ==
  ASSUME TypeOK
  PROVE  /\ Cardinality(sending) \in Nat /\ Cardinality(flushed) \in Nat
         /\ Cardinality(Gated) \in Nat
         /\ requestTimes \in Nat /\ started \in Nat /\ failed \in Nat
         /\ MAX_REQUEST_PER_INTERVAL \in Nat \ {0}
<1>1. sending \subseteq Callers /\ flushed \subseteq Callers /\ Gated \subseteq Callers
  BY DEF TypeOK, Callers
<1> QED BY <1>1, ThreadsFinite, LimiterAssumption DEF TypeOK

(* A request that returns or throws leaves room for one. *)
LEMMA OneLess ==
  ASSUME TypeOK, NEW r \in sending
  PROVE  Cardinality(sending \ {r}) = Cardinality(sending) - 1
<1>1. IsFiniteSet(sending) BY ThreadsFinite DEF TypeOK
<1> QED BY <1>1, FS_RemoveElement

(* A close that flushes has one request more in flight, which is counted as *)
(* a flush and as sent.                                                     *)
LEMMA ClosesCount ==
  ASSUME TypeOK, FlushesKnown, NotBoth, NEW t \in Transports, NEW rest \in SUBSET sending,
         Closes(t, rest)
  PROVE  /\ \E n \in Nat : /\ Cardinality(sending') = Cardinality(rest) + n
                           /\ Cardinality(flushed') = Cardinality(flushed) + n
                           /\ started' = started + n
         /\ sending' \cap Closers \subseteq flushed'
         /\ waiting \cap sending' = {}
<1>1. PICK ts \in Flush(t) :
        /\ sending' = rest \cup ts /\ flushed' = flushed \cup ts
        /\ started' = started + Cardinality(ts)
  BY DEF Closes
<1>2. ts \subseteq Closers /\ ts \cap flushed = {} BY DEF Flush, Closers
<1>3. ts \cap rest = {} BY <1>2 DEF FlushesKnown
<1>4. /\ rest \subseteq Callers /\ ts \subseteq Callers /\ flushed \subseteq Callers
      /\ waiting \subseteq Gated
  BY <1>2 DEF TypeOK, Callers
<1>5. Cardinality(sending') = Cardinality(rest) + Cardinality(ts)
  BY <1>1, <1>3, <1>4, SendersAdd
<1>6. Cardinality(flushed') = Cardinality(flushed) + Cardinality(ts)
  BY <1>1, <1>2, <1>4, SendersAdd
<1>7. Cardinality(ts) \in Nat BY <1>4, ThreadsFinite
<1>8. sending' \cap Closers \subseteq flushed' BY <1>1 DEF FlushesKnown
<1>9. waiting \cap sending' = {} BY <1>1, <1>2, <1>4, KindsDiffer DEF NotBoth
<1> QED BY <1>1, <1>5, <1>6, <1>7, <1>8, <1>9

(* A thread passes the gate below the limit only. *)
LEMMA GateLimit ==
  ASSUME LimitInv, TypeOK', NEW r \in Gated, r \notin waiting, r \notin sending, AtGate(r),
         UNCHANGED <<requestTimes, flushed, failed>>
  PROVE  LimitInv'
<1>1. r \in Callers BY DEF Callers
<1>2. CASE CanSend(requestTimes) /\ Sends({r}) /\ UNCHANGED waiting
  <2>1. sending' = sending \cup {r} /\ started' = started + Cardinality({r})
    BY <1>2 DEF Sends
  <2>2. Cardinality({r}) = 1 BY FS_Singleton
  <2>3. sending \subseteq Callers /\ flushed \subseteq Closers
    BY DEF LimitInv, TypeOK
  <2>4. Cardinality(sending') = Cardinality(sending) + 1
    BY <1>1, <2>1, <2>2, <2>3, SendersAdd
  <2>5. Accounted'
    BY <2>1, <2>2, <2>4, Sizes DEF LimitInv, Accounted
  <2>6. FlushesKnown'
    BY <1>1, <2>1, KindsDiffer DEF LimitInv, FlushesKnown
  <2>7. Cardinality(sending') <= Cardinality(Gated) + Cardinality(flushed)
    BY <1>1, <2>1, <2>3, <2>6, InFlightBound DEF FlushesKnown
  <2>8. requestTimes <= MAX_REQUEST_PER_INTERVAL - 1
    BY <1>2, Sizes DEF CanSend, LimitInv
  <2>9. Room'
    <3>1. Cardinality(sending') \in Nat BY <2>4, Sizes DEF LimitInv
    <3> QED BY <2>7, <2>8, <3>1, Sizes DEF LimitInv, Room
  <2>10. NotBoth' BY <1>2, <2>1 DEF LimitInv, NotBoth
  <2> QED BY <2>5, <2>6, <2>9, <2>10 DEF LimitInv
<1>3. CASE waiting' = waiting \cup {r} /\ UNCHANGED <<sending, fresh, started>>
  <2>1. Accounted' /\ Room' BY <1>3 DEF LimitInv, Accounted, Room
  <2>2. FlushesKnown' /\ NotBoth' BY <1>3 DEF LimitInv, FlushesKnown, NotBoth
  <2> QED BY <2>1, <2>2 DEF LimitInv
<1> QED BY <1>2, <1>3 DEF AtGate

(* The next poll or send loop comes to the gate when the last is over.      *)
LEMMA RequestLimit ==
  ASSUME LimitInv, TypeOK', NEW t \in Transports, NEW kind \in {"poll", "loop"}, Request(t, kind)
  PROVE  LimitInv'
<1>1. <<t, kind>> \in Gated BY DEF Gated
<1>2. <<t, kind>> \notin waiting /\ <<t, kind>> \notin sending BY DEF Request, Busy
<1>3. AtGate(<<t, kind>>) /\ UNCHANGED <<requestTimes, flushed, failed>> BY DEF Request
<1> QED BY <1>1, <1>2, <1>3, GateLimit

(* The first poll is the first, whether or not the transport has closed.    *)
LEMMA StartLimit ==
  ASSUME LimitInv, Begun, TypeOK', NEW t \in Transports, Start(t)
  PROVE  LimitInv'
<1>1. <<t, "poll">> \in Gated BY DEF Gated
<1>2. <<t, "poll">> \notin waiting /\ <<t, "poll">> \notin sending
  <2>1. state[t] \notin {"open", "closed"} BY DEF Start
  <2>2. <<t, "poll">>[1] = t OBVIOUS
  <2> QED BY <1>1, <2>1, <2>2 DEF Begun
<1>3. AtGate(<<t, "poll">>) /\ UNCHANGED <<requestTimes, flushed, failed>> BY DEF Start
<1> QED BY <1>1, <1>2, <1>3, GateLimit

(* A close without the gate is counted as a flush. *)
LEMMA CloseLimit ==
  ASSUME LimitInv, TypeOK', NEW t \in Transports, Close(t)
  PROVE  LimitInv'
<1>1. Closes(t, sending) /\ UNCHANGED <<requestTimes, waiting, failed>> BY DEF Close
<1>2. PICK n \in Nat : /\ Cardinality(sending') = Cardinality(sending) + n
                       /\ Cardinality(flushed') = Cardinality(flushed) + n
                       /\ started' = started + n
  BY <1>1, ClosesCount DEF LimitInv
<1>3. FlushesKnown' /\ NotBoth'
  BY <1>1, ClosesCount DEF LimitInv, FlushesKnown, NotBoth
<1>4. Accounted' BY <1>1, <1>2, Sizes DEF LimitInv, Accounted
<1>5. Room' BY <1>1, <1>2, Sizes DEF LimitInv, Room
<1> QED BY <1>3, <1>4, <1>5 DEF LimitInv

(* A request that returns is counted in the place of being in flight.       *)
LEMMA ReturnLimit ==
  ASSUME LimitInv, TypeOK', NEW r \in sending, Return(r)
  PROVE  LimitInv'
<1>1. requestTimes' = requestTimes + 1 /\ UNCHANGED <<waiting, failed>> BY DEF Return
<1>2. r[1] \in Transports BY DEF LimitInv, TypeOK, Callers, Gated, Closers
<1>3. Cardinality(sending \ {r}) = Cardinality(sending) - 1 BY OneLess DEF LimitInv
<1>4. CASE Closes(r[1], sending \ {r})
  <2>1. PICK n \in Nat : /\ Cardinality(sending') = Cardinality(sending \ {r}) + n
                         /\ Cardinality(flushed') = Cardinality(flushed) + n
                         /\ started' = started + n
    BY <1>2, <1>4, ClosesCount DEF LimitInv
  <2>2. FlushesKnown' /\ NotBoth'
    BY <1>1, <1>2, <1>4, ClosesCount DEF LimitInv, FlushesKnown, NotBoth
  <2>3. Accounted' BY <1>1, <1>3, <2>1, Sizes DEF LimitInv, Accounted
  <2>4. Room' BY <1>1, <1>3, <2>1, Sizes DEF LimitInv, Room
  <2> QED BY <2>2, <2>3, <2>4 DEF LimitInv
<1>5. CASE sending' = sending \ {r} /\ UNCHANGED <<state, fresh, flushed, started>>
  <2>1. FlushesKnown' /\ NotBoth'
    BY <1>1, <1>5 DEF LimitInv, FlushesKnown, NotBoth
  <2>2. Accounted' BY <1>1, <1>3, <1>5, Sizes DEF LimitInv, Accounted
  <2>3. Room' BY <1>1, <1>3, <1>5, Sizes DEF LimitInv, Room
  <2> QED BY <2>1, <2>2, <2>3 DEF LimitInv
<1> QED BY <1>4, <1>5 DEF Return, Ends

(* A request that throws is not counted, but known to have failed.          *)
LEMMA FailLimit ==
  ASSUME LimitInv, TypeOK', NEW r \in sending, Fail(r)
  PROVE  LimitInv'
<1>1. failed' = failed + 1 /\ UNCHANGED <<waiting, requestTimes>> BY DEF Fail
<1>2. r[1] \in Transports BY DEF LimitInv, TypeOK, Callers, Gated, Closers
<1>3. Cardinality(sending \ {r}) = Cardinality(sending) - 1 BY OneLess DEF LimitInv
<1>4. CASE Closes(r[1], sending \ {r})
  <2>1. PICK n \in Nat : /\ Cardinality(sending') = Cardinality(sending \ {r}) + n
                         /\ Cardinality(flushed') = Cardinality(flushed) + n
                         /\ started' = started + n
    BY <1>2, <1>4, ClosesCount DEF LimitInv
  <2>2. FlushesKnown' /\ NotBoth'
    BY <1>1, <1>2, <1>4, ClosesCount DEF LimitInv, FlushesKnown, NotBoth
  <2>3. Accounted' BY <1>1, <1>3, <2>1, Sizes DEF LimitInv, Accounted
  <2>4. Room' BY <1>1, <1>3, <2>1, Sizes DEF LimitInv, Room
  <2> QED BY <2>2, <2>3, <2>4 DEF LimitInv
<1>5. CASE sending' = sending \ {r} /\ UNCHANGED <<state, fresh, flushed, started>>
  <2>1. FlushesKnown' /\ NotBoth'
    BY <1>1, <1>5 DEF LimitInv, FlushesKnown, NotBoth
  <2>2. Accounted' BY <1>1, <1>3, <1>5, Sizes DEF LimitInv, Accounted
  <2>3. Room' BY <1>1, <1>3, <1>5, Sizes DEF LimitInv, Room
  <2> QED BY <2>1, <2>2, <2>3 DEF LimitInv
<1> QED BY <1>4, <1>5 DEF Fail

(* The threads that a frame lets through saw a counter below the limit,     *)
(* before or after its reset.                                               *)
LEMMA FrameLimit ==
  ASSUME LimitInv, TypeOK', Frame
  PROVE  LimitInv'
<1>1. PICK passed \in SUBSET waiting, ts \in SUBSET waiting :
        /\ ts \subseteq passed
        /\ requestTimes' = IF Resets THEN 0 ELSE requestTimes
        /\ passed # {} => CanSend(requestTimes) \/ CanSend(requestTimes')
        /\ waiting' = waiting \ passed
        /\ sending' = sending \cup ts
        /\ started' = (IF Resets THEN 0 ELSE started) + Cardinality(ts)
        /\ failed' = (IF Resets THEN 0 ELSE failed)
        /\ flushed' = flushed
  <2>1. PICK handlerFirst \in BOOLEAN :
          LET count  == IF Resets THEN 0 ELSE requestTimes
              seen   == IF handlerFirst THEN count ELSE requestTimes
              passed == IF CanSend(seen) THEN waiting ELSE {}
          IN \E ts \in SUBSET passed :
               /\ requestTimes' = count /\ waiting' = waiting \ passed
               /\ sending' = sending \cup ts
               /\ started' = (IF Resets THEN 0 ELSE started) + Cardinality(ts)
               /\ failed' = (IF Resets THEN 0 ELSE failed)
               /\ flushed' = flushed
    BY DEF Frame
  <2> QED BY <2>1
<1>2. /\ waiting \subseteq Gated /\ ts \subseteq Gated /\ ts \subseteq Callers
      /\ sending \subseteq Callers /\ flushed \subseteq Closers /\ sending \cap ts = {}
  BY <1>1 DEF LimitInv, TypeOK, NotBoth, Callers
<1>3. Cardinality(sending') = Cardinality(sending) + Cardinality(ts)
  BY <1>1, <1>2, SendersAdd
<1>4. Cardinality(ts) \in Nat BY <1>2, ThreadsFinite
<1>5. Accounted' BY <1>1, <1>3, <1>4, Sizes DEF LimitInv, Accounted
<1>6. FlushesKnown' BY <1>1, <1>2, KindsDiffer DEF LimitInv, FlushesKnown
<1>7. NotBoth' BY <1>1, <1>2 DEF LimitInv, NotBoth
<1>8. Room'
  <2>1. Cardinality(sending') <= Cardinality(Gated) + Cardinality(flushed)
    BY <1>1, <1>2, <1>6, InFlightBound DEF FlushesKnown
  <2>2. Cardinality(sending') \in Nat BY <1>3, <1>4, Sizes DEF LimitInv
  <2>3. CASE requestTimes' <= MAX_REQUEST_PER_INTERVAL - 1
    BY <1>1, <2>1, <2>2, <2>3, Sizes DEF LimitInv, Room
  <2>4. CASE ~(requestTimes' <= MAX_REQUEST_PER_INTERVAL - 1)
    <3>1. requestTimes' = requestTimes /\ ~CanSend(requestTimes)
      BY <1>1, <2>4, Sizes DEF LimitInv, CanSend
    <3>2. ts = {} BY <1>1, <3>1 DEF CanSend
    <3>3. sending' = sending BY <1>1, <3>2
    <3> QED BY <1>1, <3>1, <3>3 DEF LimitInv, Room
  <2> QED BY <2>3, <2>4
<1> QED BY <1>5, <1>6, <1>7, <1>8 DEF LimitInv

(* Only a transport that polls, or has closed since, has gated threads.     *)
LEMMA ClosesBegun ==
  ASSUME TypeOK, Begun, NEW t \in Transports, NEW rest \in SUBSET sending,
         Closes(t, rest), UNCHANGED waiting
  PROVE  Begun'
<1>1. PICK ts \in Flush(t) :
        state' = [state EXCEPT ![t] = "closed"] /\ sending' = rest \cup ts
  BY DEF Closes
<1>2. ts \cap Gated = {} BY KindsDiffer DEF Flush, Closers
<1>3. sending' \cap Gated \subseteq sending \cap Gated BY <1>1, <1>2
<1>4. ASSUME NEW r \in waiting' \cup (sending' \cap Gated)
      PROVE  state'[r[1]] \in {"open", "closed"}
  <2>1. state[r[1]] \in {"open", "closed"} BY <1>3, <1>4 DEF Begun
  <2>2. r[1] \in Transports BY <1>3, <1>4 DEF TypeOK, Gated
  <2> QED BY <1>1, <2>1, <2>2 DEF TypeOK
<1> QED BY <1>4 DEF Begun

LEMMA NextBegun == TypeOK /\ Begun /\ [Next]_vars => Begun'
<1> SUFFICES ASSUME TypeOK, Begun, [Next]_vars PROVE Begun' OBVIOUS
<1>1. ASSUME NEW t \in Transports, Make(t) \/ CloseEarly(t) PROVE Begun'
  <2>1. state[t] \notin {"open", "closed"} /\ UNCHANGED <<waiting, sending>>
    BY <1>1 DEF Make, CloseEarly, threads
  <2>2. \A u \in Transports : u # t => state'[u] = state[u]
    BY <1>1 DEF Make, CloseEarly, TypeOK
  <2>3. \A r \in waiting \cup (sending \cap Gated) : r[1] \in Transports
    BY DEF TypeOK, Gated
  <2> QED BY <2>1, <2>2, <2>3 DEF Begun
<1>2. ASSUME NEW t \in Transports, NEW kind, AtGate(<<t, kind>>),
             state' = state \/ state' = [state EXCEPT ![t] = state'[t]],
             state'[t] \in {"open", "closed"}
      PROVE  Begun'
  <2>1. waiting' \subseteq waiting \cup {<<t, kind>>} /\ sending' \subseteq sending \cup {<<t, kind>>}
    BY <1>2 DEF AtGate, Sends
  <2>2. \A u \in Transports : u # t => state'[u] = state[u] BY <1>2 DEF TypeOK
  <2>3. \A r \in waiting \cup (sending \cap Gated) : r[1] \in Transports
    BY DEF TypeOK, Gated
  <2>4. ASSUME NEW r \in waiting' \cup (sending' \cap Gated)
        PROVE  state'[r[1]] \in {"open", "closed"}
    <3>1. CASE r = <<t, kind>> BY <1>2, <3>1
    <3>2. CASE r # <<t, kind>> BY <1>2, <2>1, <2>2, <2>3, <2>4, <3>2 DEF Begun
    <3> QED BY <3>1, <3>2
  <2> QED BY <2>4 DEF Begun
<1>3. ASSUME NEW t \in Transports, NEW kind \in {"poll", "loop"}, Request(t, kind) PROVE Begun'
  BY <1>2, <1>3 DEF Request
<1>4. ASSUME NEW t \in Transports, Start(t) PROVE Begun'
  <2>1. /\ AtGate(<<t, "poll">>) /\ state'[t] \in {"open", "closed"}
        /\ state' = [state EXCEPT ![t] = state'[t]]
    BY <1>4 DEF Start, TypeOK
  <2> QED BY <1>2, <2>1
<1>5. ASSUME NEW t \in Transports, Close(t) PROVE Begun'
  <2>1. Closes(t, sending) /\ UNCHANGED waiting BY <1>5 DEF Close
  <2> QED BY <2>1, ClosesBegun
<1>6. ASSUME NEW r \in sending, Return(r) \/ Fail(r) PROVE Begun'
  <2>1. r[1] \in Transports BY DEF TypeOK, Callers, Gated, Closers
  <2>2. UNCHANGED waiting BY <1>6 DEF Return, Fail
  <2>3. CASE Closes(r[1], sending \ {r}) BY <2>1, <2>2, <2>3, ClosesBegun
  <2>4. CASE sending' = sending \ {r} /\ state' = state BY <2>2, <2>4 DEF Begun
  <2> QED BY <1>6, <2>3, <2>4 DEF Return, Fail, Ends
<1>7. ASSUME Frame PROVE Begun'
  <2>1. /\ waiting' \subseteq waiting /\ state' = state
        /\ sending' \subseteq sending \cup waiting
    BY <1>7 DEF Frame
  <2> QED BY <2>1 DEF Begun
<1>8. CASE UNCHANGED vars BY <1>8 DEF vars, threads, Begun
<1> QED BY <1>1, <1>3, <1>4, <1>5, <1>6, <1>7, <1>8 DEF Next

(* Every step keeps the invariant. *)
LEMMA NextLimit == LimitInv /\ Begun /\ [Next]_vars => LimitInv'
<1> SUFFICES ASSUME LimitInv, Begun, [Next]_vars PROVE LimitInv' OBVIOUS
<1>1. TypeOK' BY NextType DEF LimitInv
<1>2. ASSUME NEW t \in Transports, Make(t) \/ CloseEarly(t) PROVE LimitInv'
  <2>1. UNCHANGED <<requestTimes, waiting, sending, flushed, started, failed>>
    BY <1>2 DEF Make, CloseEarly, threads
  <2> QED BY <1>1, <2>1 DEF LimitInv, Accounted, Room, FlushesKnown, NotBoth
<1>3. CASE UNCHANGED vars
  <2>1. UNCHANGED <<requestTimes, waiting, sending, flushed, started, failed>>
    BY <1>3 DEF vars, threads
  <2> QED BY <1>1, <2>1 DEF LimitInv, Accounted, Room, FlushesKnown, NotBoth
<1> QED BY <1>1, <1>2, <1>3, RequestLimit, StartLimit, CloseLimit, ReturnLimit, FailLimit,
           FrameLimit DEF Next

(* The invariant gives the bound: what was sent is counted, in flight or    *)
(* thrown, and of the first two there is no more than Room allows.          *)
LEMMA LimitBounds == LimitInv => Overshoot
BY Sizes DEF LimitInv, Accounted, Room, Overshoot

(* An interval sees no more requests than the limit less one, one for each  *)
(* thread that a gate holds back, one for each close that flushed and one   *)
(* for each that threw: for any number of transports, any limit and any     *)
(* interval (waitCanSend and increment, ROB:32-40).                         *)
THEOREM OvershootCorrect == Spec => []Overshoot
<1>1. Init => LimitInv /\ Begun BY InitLimit DEF Init, Begun
<1>2. LimitInv /\ Begun /\ [Next]_vars => (LimitInv /\ Begun)'
  BY NextLimit, NextBegun DEF LimitInv
<1>3. LimitInv => Overshoot BY LimitBounds
<1> QED BY <1>1, <1>2, <1>3, PTL DEF Spec
=============================================================================
