------------------------------- MODULE Manager -------------------------------
(***************************************************************************)
(* The Manager (socket.io-client/manager.ts): it owns the engine of all     *)
(* namespace sockets and reopens it when it is lost.                        *)
(*                                                                          *)
(* Code between two yields is atomic, with the two exceptions described in  *)
(* NamespaceSocket: `stack' holds the handlers that wait for their          *)
(* listeners to return, and `suspended' the engines whose close() was       *)
(* called by onclose and is still sending its last request.                 *)
(*                                                                          *)
(* Engines are numbered as they are made; the last one is this.engine.      *)
(* Namespace sockets appear as far as the manager asks for them: which are  *)
(* active, and what connect() and disconnect() do to the manager.           *)
(***************************************************************************)
EXTENDS Integers, Sequences, FiniteSets

CONSTANTS
  Namespaces,   \* the namespaces that have a socket
  Attempts,     \* reconnectionAttempts
  Timeout,      \* whether the timeout of a connection attempt is set
  MaxEngines,   \* bound: engines made
  MaxCalls      \* bound: calls of the user

ASSUME AttemptsAssumption == Attempts \in Nat \ {0} /\ Timeout \in BOOLEAN
ASSUME ManagerBounds == MaxEngines \in Nat /\ MaxCalls \in Nat

VARIABLES
  readyState,
  engines,        \* the state of every engine made so far
  subs,           \* the subscriptions that cleanup() ends
  timers,         \* reconnection timers that have not fired (also in subs)
  reconnecting, skipReconnect, reconnection,
  attempts,       \* backoff.attempts
  active,         \* namespaces whose socket is subscribed
  stack, suspended,
  calls,          \* calls made by the user
  tries,          \* history: attempts in the current reconnection
  wanted,         \* history: the user has opened since the last forced close
  patient,        \* history: the user has let every transition end
  gaveUp          \* history: a connection was lost for good: no try left or wanted

managerVars == <<readyState, skipReconnect, reconnection>>
retryVars   == <<timers, reconnecting, attempts, tries, gaveUp>>
userVars    == <<active, calls, wanted, patient>>
vars == <<managerVars, engines, subs, retryVars, stack, suspended, userVars>>

(* What open() subscribes to on engine e, with the callback it was given,  *)
(* and what onopen() subscribes to.                                         *)
Attempt(e, fn) == [on |-> "attempt", engine |-> e, fn |-> fn]
Live(e)        == [on |-> "live", engine |-> e, fn |-> "none"]

Frame(at, fn) == [at |-> at, fn |-> fn]
Push(at, fn)  == stack' = Append(stack, Frame(at, fn))
Returns(at)   == /\ stack # <<>>
                 /\ stack[Len(stack)].at = at
                 /\ stack' = SubSeq(stack, 1, Len(stack) - 1)
Fn            == stack[Len(stack)].fn

(* Operators named Fault... are not part of the model: each is a plausible *)
(* bug, which a mutated run puts in the place of the definition after it.  *)
FaultNextEngine == Len(engines) + 1
This == Len(engines)

FaultOnlyOpen == readyState = "open"
IsOpen == readyState \in {"opening", "open"}

FaultKeepTimer == subs' = {} /\ UNCHANGED timers
Cleanup == subs' = {} /\ timers' = 0

FaultOneMore == attempts > Attempts
GivesUp == attempts >= Attempts

(***************************************************************************)
(* open and reconnect                                                       *)
(***************************************************************************)
(* open(fn): nothing if the manager is opening or open; fn is then lost.   *)
Open(fn) ==
  IF IsOpen
  THEN UNCHANGED <<readyState, engines, subs, skipReconnect>>
  ELSE /\ Len(engines) < MaxEngines
       /\ engines' = Append(engines, "opening")
       /\ readyState' = "opening"
       /\ skipReconnect' = FALSE
       /\ subs' = subs \cup {Attempt(Len(engines) + 1, fn)}

(* reconnect(), when _reconnecting has the value r. *)
Reconnect(r) ==
  IF r \/ skipReconnect
  THEN reconnecting' = r /\ UNCHANGED <<attempts, timers, tries, gaveUp>>
  ELSE IF GivesUp
  THEN /\ attempts' = 0 /\ tries' = 0
       /\ reconnecting' = FALSE
       /\ gaveUp' = TRUE
       /\ UNCHANGED timers
  ELSE /\ attempts' = attempts + 1
       /\ reconnecting' = TRUE
       /\ timers' = timers + 1
       /\ UNCHANGED <<tries, gaveUp>>

(* A connection is lost and not tried again. *)
Stays ==
  /\ gaveUp' = (gaveUp \/ ~reconnection)
  /\ UNCHANGED <<timers, reconnecting, attempts, tries>>

(* The reconnection timer: the "reconnect_attempt" listeners run.          *)
ReconnectTimer ==
  /\ stack = <<>>
  /\ timers > 0
  /\ timers' = timers - 1
  /\ IF skipReconnect
     THEN UNCHANGED <<stack, tries>>
     ELSE Push("attempt", "reconnect") /\ tries' = tries + 1
  /\ UNCHANGED <<managerVars, engines, subs, reconnecting, attempts, gaveUp,
                 suspended, userVars>>

(* They have returned: open, unless one of them has closed the socket.     *)
FaultNoSecondCheck == FALSE
CalledOff == skipReconnect
AttemptReturns ==
  /\ Returns("attempt")
  /\ IF CalledOff
     THEN UNCHANGED <<readyState, engines, subs, skipReconnect>>
     ELSE Open("reconnect")
  /\ UNCHANGED <<reconnection, retryVars, suspended, userVars>>

(***************************************************************************)
(* onclose                                                                  *)
(***************************************************************************)
(* The second half of onclose: the "close" listeners run. *)
MarkClosed == readyState' = "closed"
CloseRest ==
  /\ attempts' = 0 /\ tries' = 0
  /\ MarkClosed
  /\ Push("close", "none")

(* onclose, where es are the states of the engines: engine.close() yields  *)
(* when the transport has a close packet to send, which an engine that is  *)
(* opening may have.  One that is already closing or closed does nothing.  *)
OnClose(es) ==
  /\ Cleanup
  /\ LET state == IF es = <<>> THEN "closed" ELSE es[Len(es)] IN
     \/ /\ state \in {"opening", "open"}
        /\ engines' = [es EXCEPT ![Len(es)] = "closing"]
        /\ suspended' = suspended \cup {Len(es)}
        /\ UNCHANGED <<readyState, attempts, tries, stack>>
     \/ /\ state # "open"
        /\ engines' = IF state \in {"opening", "stalling"}
                      THEN [es EXCEPT ![Len(es)] = "closed"] ELSE es
        /\ CloseRest
        /\ UNCHANGED suspended
  /\ UNCHANGED gaveUp

(* The engine has sent its last request: the suspended onclose goes on. *)
CloseReturns(e) ==
  /\ stack = <<>>
  /\ e \in suspended
  /\ suspended' = suspended \ {e}
  /\ engines' = [engines EXCEPT ![e] = "closed"]
  /\ CloseRest
  /\ UNCHANGED <<subs, timers, reconnecting, gaveUp, skipReconnect, reconnection, userVars>>

(* The "close" listeners have returned. *)
ClosedReturns ==
  /\ Returns("close")
  /\ IF reconnection /\ ~skipReconnect
     THEN Reconnect(reconnecting) ELSE Stays
  /\ UNCHANGED <<managerVars, engines, subs, suspended, userVars>>

(***************************************************************************)
(* The user: manager.open(), socket.connect(), socket.disconnect(),         *)
(* manager.reconnection(v)                                                  *)
(***************************************************************************)
Settled == stack = <<>> /\ suspended = {} /\ ~reconnecting

(* A patient user lets every transition end before it opens the manager,   *)
(* or calls where the call opens nothing: on a manager that is opening or   *)
(* open, and connect() also while a reconnection is pending.                *)
OpensNothing == IsOpen /\ suspended = {}

(* The bounds: a loop of reconnections must always fit. *)
Room  == Len(engines) + Attempts < MaxEngines
Calls == calls < MaxCalls /\ calls' = calls + 1

UserOpens(fn) ==
  /\ Calls /\ Room
  /\ Open(fn)
  /\ wanted' = TRUE
  /\ patient' = (patient /\ (Settled \/ OpensNothing))
  /\ gaveUp' = FALSE
  /\ UNCHANGED <<reconnection, timers, reconnecting, attempts, tries, stack,
                 suspended, active>>

SocketConnects(n) ==
  /\ Calls /\ Room
  /\ active' = active \cup {n}
  /\ IF reconnecting THEN UNCHANGED <<readyState, engines, subs, skipReconnect>>
                     ELSE Open("none")
  /\ wanted' = TRUE
  /\ patient' = (patient /\ (Settled \/ OpensNothing \/ reconnecting))
  /\ gaveUp' = FALSE
  /\ UNCHANGED <<reconnection, timers, reconnecting, attempts, tries, stack,
                 suspended>>

(* destroy() of the socket: _destroy, and _close with the last of them. *)
FaultCloseAlways == TRUE
NoneActive == active' = {}
SocketDisconnects(n) ==
  /\ Calls
  /\ active' = active \ {n}
  /\ IF NoneActive
     THEN /\ skipReconnect' = TRUE
          /\ reconnecting' = FALSE
          /\ wanted' = FALSE
          /\ OnClose(engines)
     ELSE UNCHANGED <<skipReconnect, wanted, readyState, engines, subs, retryVars, stack,
                      suspended>>
  /\ UNCHANGED <<reconnection, patient>>

SetReconnection(v) ==
  /\ Calls
  /\ v # reconnection
  /\ reconnection' = v
  /\ skipReconnect' = (skipReconnect \/ ~v)
  /\ wanted' = (wanted /\ v)
  /\ patient' = (patient /\ Settled /\ (v \/ ~IsOpen))
  /\ UNCHANGED <<readyState, engines, subs, retryVars, stack, suspended, active>>

(***************************************************************************)
(* The engine's events                                                      *)
(***************************************************************************)
Subscribed(on, e) == \E s \in subs : s.on = on /\ s.engine = e
FnOf(e) == (CHOOSE s \in subs : s.on = "attempt" /\ s.engine = e).fn

(* "open": onopen marks the manager open and runs the "open" listeners.    *)
EngineOpens(e) ==
  /\ stack = <<>>
  /\ engines[e] = "opening"
  /\ engines' = [engines EXCEPT ![e] = "open"]
  /\ IF Subscribed("attempt", e)
     THEN Cleanup /\ readyState' = "open" /\ Push("open", FnOf(e))
     ELSE UNCHANGED <<subs, timers, readyState, stack>>
  /\ UNCHANGED <<skipReconnect, reconnection, reconnecting, attempts, tries, gaveUp,
                 suspended, userVars>>

(* They have returned: onopen subscribes to this.engine, and the callback  *)
(* of open is called, which for a reconnection is onreconnect.             *)
OpenReturns ==
  /\ Returns("open")
  /\ subs' = subs \cup {Live(This)}
  /\ IF Fn = "reconnect"
     THEN reconnecting' = FALSE /\ attempts' = 0 /\ tries' = 0
     ELSE UNCHANGED <<reconnecting, attempts, tries>>
  /\ UNCHANGED <<managerVars, engines, timers, gaveUp, suspended, userVars>>

(* The engine fails to open, or does not open in time: onError.            *)
OnError(e) ==
  /\ stack = <<>>
  /\ engines[e] = "opening"
  /\ Subscribed("attempt", e)
  /\ engines' = [engines EXCEPT ![e] = "closed"]
  /\ Cleanup
  /\ readyState' = "closed"
  /\ Push("error", FnOf(e))
  /\ UNCHANGED <<skipReconnect, reconnection, reconnecting, attempts, tries, gaveUp,
                 suspended, userVars>>

EngineFails(e) == OnError(e)
AttemptTimesOut(e) == Timeout /\ OnError(e)

(* The "error" listeners have returned: the callback of open is called, or *)
(* maybeReconnectOnOpen without one.                                        *)
FaultKeepReconnecting == reconnecting
AttemptOver == FALSE
ErrorReturns ==
  /\ Returns("error")
  /\ \/ Fn = "reconnect" /\ Reconnect(AttemptOver)
     \/ Fn = "user" /\ gaveUp' = TRUE /\ UNCHANGED <<timers, reconnecting, attempts, tries>>
     \/ /\ Fn = "none"
        /\ IF ~reconnecting /\ reconnection /\ attempts = 0
           THEN Reconnect(reconnecting) ELSE Stays
  /\ UNCHANGED <<managerVars, engines, subs, suspended, userVars>>

(* An error or a ping timeout: the engine's transport sends its last       *)
(* request before the engine's "close".                                     *)
EngineStalls(e) ==
  /\ stack = <<>>
  /\ engines[e] = "open"
  /\ engines' = [engines EXCEPT ![e] = "stalling"]
  /\ UNCHANGED <<managerVars, subs, retryVars, stack, suspended, userVars>>

(* The engine is closed.  One that nobody watches may fail to open, too. *)
EngineCloses(e) ==
  /\ stack = <<>>
  /\ \/ engines[e] \in {"open", "stalling"}
     \/ engines[e] = "opening" /\ ~Subscribed("attempt", e)
  /\ Room
  /\ LET es == [engines EXCEPT ![e] = "closed"]
     IN  IF Subscribed("live", e)
         THEN OnClose(es)
         ELSE /\ engines' = es
              /\ UNCHANGED <<readyState, subs, timers, attempts, tries, gaveUp, stack,
                             suspended>>
  /\ UNCHANGED <<skipReconnect, reconnection, reconnecting, userVars>>

(* ondata: a packet that cannot be decoded. *)
ParseError(e) ==
  /\ stack = <<>>
  /\ engines[e] = "open"
  /\ Room
  /\ Subscribed("live", e)
  /\ OnClose(engines)
  /\ UNCHANGED <<skipReconnect, reconnection, reconnecting, userVars>>

(***************************************************************************)
(* The specification                                                        *)
(***************************************************************************)
(* The constructor opens the manager unless autoConnect is false. *)
Init ==
  /\ \E auto \in BOOLEAN :
       /\ engines = IF auto THEN <<"opening">> ELSE <<>>
       /\ readyState = IF auto THEN "opening" ELSE "closed"
       /\ subs = IF auto THEN {Attempt(1, "none")} ELSE {}
       /\ wanted = auto
  /\ timers = 0
  /\ reconnecting = FALSE /\ skipReconnect = FALSE /\ reconnection = TRUE
  /\ attempts = 0 /\ tries = 0
  /\ active = {}
  /\ stack = <<>> /\ suspended = {}
  /\ calls = 0
  /\ patient = TRUE /\ gaveUp = FALSE

User == \/ \E fn \in {"none", "user"} : UserOpens(fn)
        \/ \E n \in Namespaces : SocketConnects(n) \/ SocketDisconnects(n)
        \/ \E v \in BOOLEAN : SetReconnection(v)
Handlers == AttemptReturns \/ ClosedReturns \/ OpenReturns \/ ErrorReturns
Resumes  == \E e \in suspended : CloseReturns(e)
Answers  == \E e \in DOMAIN engines : EngineOpens(e) \/ EngineFails(e)
TimesOut == \E e \in DOMAIN engines : AttemptTimesOut(e)
Losses   == \E e \in DOMAIN engines : EngineStalls(e) \/ EngineCloses(e) \/ ParseError(e)

Next == User \/ Handlers \/ Resumes \/ Answers \/ TimesOut \/ Losses \/ ReconnectTimer

(* Handlers go on, requests end and timers fire; nothing is assumed of the *)
(* user, and of the server only that an attempt without timeout ends.      *)
Fairness ==
  /\ WF_vars(Handlers) /\ WF_vars(Resumes)
  /\ WF_vars(TimesOut) /\ WF_vars(ReconnectTimer)
  /\ ~Timeout => WF_vars(Answers)

Spec == Init /\ [][Next]_vars /\ Fairness

(***************************************************************************)
(* Properties                                                               *)
(***************************************************************************)
\* Every variable of the manager keeps its type (manager.ts:96-136).
TypeOK ==
  /\ readyState \in {"closed", "opening", "open"}
  /\ engines \in Seq({"opening", "open", "stalling", "closing", "closed"})
  /\ \A s \in subs : /\ s.on \in {"attempt", "live"}
                     /\ s.engine \in 1 .. Len(engines)
                     /\ s.fn \in {"none", "user", "reconnect"}
  /\ timers \in Nat /\ attempts \in Nat /\ tries \in Nat /\ calls \in Nat
  /\ reconnecting \in BOOLEAN /\ skipReconnect \in BOOLEAN
  /\ reconnection \in BOOLEAN
  /\ wanted \in BOOLEAN /\ patient \in BOOLEAN /\ gaveUp \in BOOLEAN
  /\ active \subseteq Namespaces
  /\ suspended \subseteq DOMAIN engines
  /\ \A i \in DOMAIN stack : stack[i].at \in {"attempt", "open", "error", "close"}

\* Reconnection does not fire twice for the same loop (manager.ts:308): at
\* most one reconnection timer is pending.
OneTimer == patient => timers <= 1

\* A reconnection makes at most reconnectionAttempts attempts before it gives
\* up, whatever the engines do and however often the timer is cancelled.
AttemptsBounded == patient => tries <= Attempts

\* No engine is made by the manager itself once the last socket has been
\* disconnected or reconnection switched off, not even when that happens in a
\* listener of "reconnect_attempt" or while a close is being sent.
NoUnwantedEngine ==
  [][ Len(engines') > Len(engines) /\ calls' = calls => wanted ]_vars

Doing(e) == engines[e] \in {"opening", "open", "stalling"}

\* While the user lets every transition end, there is at most one engine in
\* use, and it is the one the manager knows: none is left behind polling.
NoLeakedEngine == patient => \A e \in DOMAIN engines : Doing(e) => e = This

Listens == /\ engines # <<>>
           /\ \/ readyState = "opening" /\ Subscribed("attempt", This)
              \/ readyState = "open" /\ Subscribed("live", This)
           /\ Doing(This)

\* Once a transition is over, with a patient user, a manager with an active socket listens to an
\* engine, waits for a reconnection, or has told the user that it gave up.
Busy == Listens \/ timers > 0 \/ gaveUp
NeverIdle ==
  patient /\ stack = <<>> /\ suspended = {} /\ active # {} /\ reconnection => Busy

\* A reconnection ends, in success, failure or a call of the user.
ReconnectionEnds == reconnecting /\ patient ~> ~reconnecting \/ ~patient

\* socket.ts:369: connect() has to "ensure open": a manager with an active
\* socket is not left idle by the way the user calls connect().
EnsuresOpen ==
  stack = <<>> /\ suspended = {} /\ active # {} /\ reconnection => Busy
==============================================================================
