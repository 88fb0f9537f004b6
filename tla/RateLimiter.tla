------------------------------ MODULE RateLimiter ------------------------------
(***************************************************************************)
(* The request limiter (RobloxGlobalConfig, transports/polling-roblox.ts)   *)
(* and the threads that it holds back: one counter for all transports of    *)
(* the place.                                                               *)
(*                                                                          *)
(* A transport has up to three threads that make a request: its poll and    *)
(* its send loop wait at the gate, the flush of its close does not.  A      *)
(* thread that passes the gate sends in the same step, and is counted when  *)
(* its request returns.  Time is counted in frames (RunService.Heartbeat):  *)
(* all threads that wait look again in every frame.                         *)
(***************************************************************************)
EXTENDS Naturals, FiniteSets

CONSTANTS
  Transports,                   \* every transport made in the life of the place
  MAX_REQUEST_PER_INTERVAL,
  REQUEST_TIMES_RESET_INTERVAL  \* in frames

ASSUME LimiterAssumption ==
  /\ IsFiniteSet(Transports)
  /\ MAX_REQUEST_PER_INTERVAL \in Nat \ {0}
  /\ REQUEST_TIMES_RESET_INTERVAL \in Nat

VARIABLES
  requestTimes, resetTime,
  state,     \* "none", "new" until doOpen() runs, "open", "closed", or
             \* "early": closed with doOpen() still scheduled
  waiting,   \* the threads in waitCanSend
  sending,   \* the threads whose request is in flight
  fresh,     \* those whose request was sent in this frame
  flushed,   \* the closing threads that have sent
  started,   \* history: requests sent since the last reset
  failed     \* history: requests that threw since the last reset

threads == <<waiting, sending, fresh, flushed>>
vars == <<requestTimes, resetTime, state, threads, started, failed>>

Gated   == Transports \X {"poll", "loop"}
Closers == Transports \X {"close"}
Callers == Gated \cup Closers

(* Operators named Fault... are not part of the model: each is a plausible *)
(* bug, which a mutated run puts in the place of the definition after it.  *)
FaultCanSend(count) == count <= MAX_REQUEST_PER_INTERVAL
CanSend(count) == count < MAX_REQUEST_PER_INTERVAL

(* The threads ts send their requests. *)
Sends(ts) ==
  /\ sending' = sending \cup ts
  /\ fresh' = fresh \cup ts
  /\ started' = started + Cardinality(ts)

(***************************************************************************)
(* Transports                                                               *)
(***************************************************************************)
(* A transport is made, and open() schedules doOpen(). *)
Make(t) ==
  /\ state[t] = "none"
  /\ state' = [state EXCEPT ![t] = "new"]
  /\ UNCHANGED <<requestTimes, resetTime, threads, started, failed>>

(* A thread comes to the gate: waitCanSend() returns at once, or waits.     *)
AtGate(r) ==
  \/ CanSend(requestTimes) /\ Sends({r}) /\ UNCHANGED waiting
  \/ /\ ~CanSend(requestTimes)
     /\ waiting' = waiting \cup {r}
     /\ UNCHANGED <<sending, fresh, started>>

(* doOpen(): the first poll, which a transport that has closed meanwhile    *)
(* makes as well.                                                           *)
Start(t) ==
  /\ state[t] \in {"new", "early"}
  /\ state' = [state EXCEPT ![t] = IF @ = "new" THEN "open" ELSE "closed"]
  /\ AtGate(<<t, "poll">>)
  /\ UNCHANGED <<requestTimes, resetTime, flushed, failed>>

Busy(t, kind) == <<t, kind>> \in waiting \cup sending

(* The next poll, or the next round of the send loop with packets to send.  *)
Request(t, kind) ==
  /\ state[t] = "open"
  /\ kind \in {"poll", "loop"}
  /\ ~Busy(t, kind)
  /\ AtGate(<<t, kind>>)
  /\ UNCHANGED <<requestTimes, resetTime, state, flushed, failed>>

(* What the flush of a close sends: nothing, or one request.                *)
Flush(t) == {{}, {<<t, "close">>} \ flushed}

(* The close of transport t, after `rest' of the requests are in flight:    *)
(* its flush does not ask the limiter.                                      *)
Closes(t, rest) ==
  \E ts \in Flush(t) :
    /\ state' = [state EXCEPT ![t] = "closed"]
    /\ sending' = rest \cup ts
    /\ fresh' = fresh \cup ts
    /\ flushed' = flushed \cup ts
    /\ started' = started + Cardinality(ts)

Close(t) ==
  /\ state[t] = "open"
  /\ Closes(t, sending)
  /\ UNCHANGED <<requestTimes, resetTime, waiting, failed>>

(* Before the first poll nothing is written, and nothing is flushed. *)
CloseEarly(t) ==
  /\ state[t] = "new"
  /\ state' = [state EXCEPT ![t] = "early"]
  /\ UNCHANGED <<requestTimes, resetTime, threads, started, failed>>

(***************************************************************************)
(* Requests                                                                 *)
(***************************************************************************)
(* The transport of an answer that is no good reports an error, and its     *)
(* engine closes it.                                                        *)
Ends(r) ==
  \/ /\ sending' = sending \ {r}
     /\ UNCHANGED <<state, fresh, flushed, started>>
  \/ state[r[1]] = "open" /\ Closes(r[1], sending \ {r})

(* A request takes a frame at least. *)
InFlight(r) == r \in sending \ fresh

(* RequestAsync returns, whatever the status: increment(). *)
Return(r) ==
  /\ InFlight(r)
  /\ requestTimes' = requestTimes + 1
  /\ Ends(r)
  /\ UNCHANGED <<resetTime, waiting, failed>>

(* RequestAsync throws: the request is not counted. *)
Fail(r) ==
  /\ InFlight(r)
  /\ failed' = failed + 1
  /\ IF state[r[1]] = "open"
     THEN Closes(r[1], sending \ {r})
     ELSE sending' = sending \ {r} /\ UNCHANGED <<state, fresh, flushed, started>>
  /\ UNCHANGED <<requestTimes, resetTime, waiting>>

(***************************************************************************)
(* Frames                                                                   *)
(***************************************************************************)
Resets == resetTime = 0

FaultStopped == resetTime
FaultRenewed == resetTime - 1
Renewed == IF Resets THEN REQUEST_TIMES_RESET_INTERVAL ELSE resetTime - 1

(* The handler of Heartbeat and the threads that wait for it run in either  *)
(* order.  The threads that pass send, but for a send loop whose queue the  *)
(* close has emptied.                                                       *)
Frame ==
  \E handlerFirst \in BOOLEAN :
    LET count  == IF Resets THEN 0 ELSE requestTimes
        seen   == IF handlerFirst THEN count ELSE requestTimes
        passed == IF CanSend(seen) THEN waiting ELSE {}
    IN \E ts \in SUBSET passed :
         /\ \A r \in passed \ ts : r[2] = "loop" /\ state[r[1]] = "closed"
         /\ requestTimes' = count
         /\ resetTime' = Renewed
         /\ waiting' = waiting \ passed
         /\ sending' = sending \cup ts
         /\ fresh' = ts
         /\ started' = (IF Resets THEN 0 ELSE started) + Cardinality(ts)
         /\ failed' = IF Resets THEN 0 ELSE failed
         /\ UNCHANGED <<state, flushed>>

Init ==
  /\ requestTimes = 0
  /\ resetTime = REQUEST_TIMES_RESET_INTERVAL
  /\ state = [t \in Transports |-> "none"]
  /\ waiting = {} /\ sending = {} /\ fresh = {} /\ flushed = {}
  /\ started = 0 /\ failed = 0

Next ==
  \/ \E t \in Transports : \/ Make(t) \/ Start(t) \/ Close(t) \/ CloseEarly(t)
                           \/ \E kind \in {"poll", "loop"} : Request(t, kind)
  \/ \E r \in sending : Return(r) \/ Fail(r)
  \/ Frame

(* Frames go on; nothing is assumed of requests and transports. *)
Spec == Init /\ [][Next]_vars /\ WF_vars(Frame)

(***************************************************************************)
(* Properties                                                               *)
(***************************************************************************)
(* The state is well formed. *)
TypeOK ==
  /\ requestTimes \in Nat
  /\ resetTime \in 0 .. REQUEST_TIMES_RESET_INTERVAL
  /\ state \in [Transports -> {"none", "new", "open", "early", "closed"}]
  /\ waiting \subseteq Gated /\ sending \subseteq Callers
  /\ fresh \subseteq sending /\ flushed \subseteq Closers
  /\ started \in Nat /\ failed \in Nat

(* "Max request per minute" (polling-roblox.ts:11) is exceeded by the       *)
(* threads that passed the gate before they were counted, by the flushes of *)
(* closes, and by the requests that threw, and by no more.                  *)
Overshoot ==
  started <= MAX_REQUEST_PER_INTERVAL - 1 + Cardinality(Gated)
               + Cardinality(flushed) + failed

(* A thread that waits is let through, also when it always wakes before the *)
(* counter is reset, if the limit is not below the number of threads: a     *)
(* lower one can be used up in the frame between reset and wake-up.         *)
EveryoneServed ==
  MAX_REQUEST_PER_INTERVAL >= Cardinality(Callers)
    => \A r \in Gated : r \in waiting ~> r \notin waiting
=============================================================================
