----------------------------- MODULE Manager_proofs -----------------------------
(***************************************************************************)
(* Proofs about Manager: its types, that it makes no engine that nobody     *)
(* wants, and what a patient user can rely on, for any number of            *)
(* namespaces, attempts, engines and calls.                                 *)
(***************************************************************************)
EXTENDS Manager, SequenceTheorems, TLAPS

States == {"closed", "opening", "open"}
EngineStates == {"opening", "open", "stalling", "closing", "closed"}
Callbacks == {"none", "user", "reconnect"}
Subscriptions == [on : {"attempt", "live"}, engine : Nat, fn : Callbacks]
Frames == [at : {"attempt", "open", "error", "close"}, fn : Callbacks]

Typed ==
  /\ readyState \in States /\ engines \in Seq(EngineStates)
  /\ subs \subseteq Subscriptions /\ stack \in Seq(Frames)
  /\ timers \in Nat /\ attempts \in Nat /\ tries \in Nat /\ calls \in Nat
  /\ reconnecting \in BOOLEAN /\ skipReconnect \in BOOLEAN /\ reconnection \in BOOLEAN
  /\ wanted \in BOOLEAN /\ patient \in BOOLEAN /\ gaveUp \in BOOLEAN
  /\ active \subseteq Namespaces

(* What refers to engines refers to engines that were made, and every       *)
(* attempt has one callback.                                                *)
Linked ==
  /\ suspended \subseteq 1 .. Len(engines)
  /\ \A s \in subs : s.engine \in 1 .. Len(engines)
  /\ \A s, t \in subs :
       s.on = "attempt" /\ t.on = "attempt" /\ s.engine = t.engine => s.fn = t.fn
  /\ \A i \in 1 .. Len(stack) : stack[i].at = "open" => Len(engines) > 0

TypeInv == Typed /\ Linked

(***************************************************************************)
(* Engines and handlers                                                     *)
(***************************************************************************)
(* Engines keep their numbers: one changes its state, or one is added.      *)
NowIs(e, s) ==
  /\ engines' \in Seq(EngineStates) /\ Len(engines') = Len(engines)
  /\ \A f \in 1 .. Len(engines) : engines'[f] = IF f = e THEN s ELSE engines[f]
Added ==
  /\ engines' \in Seq(EngineStates) /\ Len(engines') = Len(engines) + 1
  /\ \A f \in 1 .. Len(engines) : engines'[f] = engines[f]
  /\ engines'[Len(engines) + 1] = "opening"

(* A handler calls its listeners, or they return.                           *)
Pushed(at, fn) ==
  /\ stack' \in Seq(Frames) /\ Len(stack') = Len(stack) + 1
  /\ \A i \in 1 .. Len(stack) : stack'[i] = stack[i]
  /\ stack'[Len(stack) + 1].at = at /\ stack'[Len(stack) + 1].fn = fn
Popped(at) ==
  /\ Len(stack) > 0 /\ stack[Len(stack)].at = at
  /\ stack' \in Seq(Frames) /\ Len(stack') = Len(stack) - 1
  /\ \A i \in 1 .. Len(stack) - 1 : stack'[i] = stack[i]

(* The sequences of the state have lengths. *)
LEMMA Lengths ==
  ASSUME Typed
  PROVE  /\ Len(engines) \in Nat /\ DOMAIN engines = 1 .. Len(engines)
         /\ \A e \in 1 .. Len(engines) : engines[e] \in EngineStates
         /\ engines = <<>> <=> Len(engines) = 0
         /\ Len(stack) \in Nat /\ DOMAIN stack = 1 .. Len(stack)
         /\ \A i \in 1 .. Len(stack) : stack[i] \in Frames
         /\ stack = <<>> <=> Len(stack) = 0
BY LenProperties, ElementOfSeq, EmptySeq DEF Typed

LEMMA SetState ==
  ASSUME Typed, NEW e \in 1 .. Len(engines), NEW s \in EngineStates,
         engines' = [engines EXCEPT ![e] = s]
  PROVE  NowIs(e, s)
BY ExceptSeq DEF Typed, NowIs

LEMMA AddEngine ==
  ASSUME Typed, engines' = Append(engines, "opening")
  PROVE  Added
BY AppendProperties DEF Typed, Added, EngineStates

LEMMA PushFrame ==
  ASSUME Typed, NEW at, NEW fn, Frame(at, fn) \in Frames, Push(at, fn)
  PROVE  Pushed(at, fn)
BY AppendProperties DEF Typed, Push, Pushed, Frame

(* A sequence without its last element. *)
LEMMA WithoutLast ==
  ASSUME NEW S, NEW s \in Seq(S), NEW n \in Nat, Len(s) = n + 1
  PROVE  /\ SubSeq(s, 1, n) \in Seq(S) /\ Len(SubSeq(s, 1, n)) = n
         /\ \A i \in 1 .. n : SubSeq(s, 1, n)[i] = s[i]
<1>1. \A i \in 1 .. n : s[i] \in S BY ElementOfSeq
<1>2. /\ SubSeq(s, 1, n) \in Seq(S)
      /\ Len(SubSeq(s, 1, n)) = IF 1 <= n THEN n - 1 + 1 ELSE 0
      /\ \A i \in 1 .. n - 1 + 1 : SubSeq(s, 1, n)[i] = s[1 + i - 1]
  BY <1>1, SubSeqProperties
<1> DEFINE u == SubSeq(s, 1, n)
<1> HIDE DEF u
<1>3. Len(u) = n BY <1>2 DEF u
<1>4. ASSUME NEW i \in 1 .. n PROVE u[i] = s[i]
  <2>1. i \in 1 .. n - 1 + 1 /\ 1 + i - 1 = i OBVIOUS
  <2> QED BY <1>2, <2>1 DEF u
<1> QED BY <1>2, <1>3, <1>4 DEF u

LEMMA PopFrame ==
  ASSUME Typed, NEW at, Returns(at)
  PROVE  Popped(at)
<1>1. Len(stack) \in Nat /\ Len(stack) > 0 /\ stack[Len(stack)].at = at
  BY Lengths DEF Returns
<1> DEFINE n == Len(stack) - 1
<1>2. n \in Nat /\ Len(stack) = n + 1 BY <1>1
<1>3. stack' = SubSeq(stack, 1, n) BY DEF Returns
<1> HIDE DEF n
<1>4. stack' \in Seq(Frames) /\ Len(stack') = n /\ \A i \in 1 .. n : stack'[i] = stack[i]
  BY <1>2, <1>3, WithoutLast DEF Typed
<1> QED BY <1>1, <1>4 DEF Popped, n

(* open() makes an engine, or does nothing. *)
LEMMA OpenShape ==
  ASSUME Typed, NEW fn, Open(fn)
  PROVE  \/ /\ IsOpen
            /\ UNCHANGED <<readyState, engines, subs, skipReconnect>>
         \/ /\ ~IsOpen /\ Added
            /\ readyState' = "opening" /\ skipReconnect' = FALSE
            /\ subs' = subs \cup {Attempt(Len(engines) + 1, fn)}
BY AddEngine DEF Open

(* What onclose leaves when the engines are in the states es: it waits for  *)
(* the engine in use, or runs to the listeners of "close".                  *)
Waits(es) ==
  /\ Len(engines) > 0 /\ es[Len(engines)] \in {"opening", "open"}
  /\ \A f \in 1 .. Len(engines) :
       engines'[f] = IF f = Len(engines) THEN "closing" ELSE es[f]
  /\ suspended' = suspended \cup {Len(engines)}
  /\ UNCHANGED <<readyState, attempts, tries, stack>>
Finishes(es) ==
  /\ Len(engines) = 0 \/ es[Len(engines)] # "open"
  /\ \A f \in 1 .. Len(engines) :
       engines'[f] = IF f = Len(engines) /\ es[f] \in {"opening", "stalling"}
                     THEN "closed" ELSE es[f]
  /\ attempts' = 0 /\ tries' = 0 /\ readyState' = "closed"
  /\ Pushed("close", "none")
  /\ UNCHANGED suspended

LEMMA OnCloseShape ==
  ASSUME Typed, NEW es \in Seq(EngineStates), Len(es) = Len(engines), OnClose(es)
  PROVE  /\ subs' = {} /\ timers' = 0 /\ gaveUp' = gaveUp
         /\ engines' \in Seq(EngineStates) /\ Len(engines') = Len(engines)
         /\ Waits(es) \/ Finishes(es)
<1> DEFINE state == IF es = <<>> THEN "closed" ELSE es[Len(es)]
           n == Len(engines)
<1>1. /\ n \in Nat /\ DOMAIN es = 1 .. n /\ (es = <<>> <=> n = 0)
      /\ \A f \in 1 .. n : es[f] \in EngineStates
  BY Lengths, LenProperties, ElementOfSeq, EmptySeq
<1>2. subs' = {} /\ timers' = 0 /\ gaveUp' = gaveUp BY DEF OnClose, Cleanup
<1>3. n = 0 => state = "closed" BY <1>1
<1>4. n # 0 => state = es[n] /\ n \in 1 .. n BY <1>1
<1>5. CASE /\ state \in {"opening", "open"}
           /\ engines' = [es EXCEPT ![Len(es)] = "closing"]
           /\ suspended' = suspended \cup {Len(es)}
           /\ UNCHANGED <<readyState, attempts, tries, stack>>
  <2>1. n # 0 BY <1>3, <1>5
  <2>2. engines' = [es EXCEPT ![n] = "closing"] /\ n \in 1 .. n BY <1>4, <1>5, <2>1
  <2>3. /\ engines' \in Seq(EngineStates) /\ Len(engines') = n
        /\ \A f \in 1 .. n : engines'[f] = IF f = n THEN "closing" ELSE es[f]
    BY <2>2, ExceptSeq DEF EngineStates
  <2>4. es[n] \in {"opening", "open"} /\ n > 0 BY <1>1, <1>4, <1>5, <2>1
  <2> QED BY <1>2, <1>5, <2>3, <2>4 DEF Waits
<1>6. CASE /\ state # "open"
           /\ engines' = IF state \in {"opening", "stalling"}
                         THEN [es EXCEPT ![Len(es)] = "closed"] ELSE es
           /\ CloseRest
           /\ UNCHANGED suspended
  <2>1. /\ engines' \in Seq(EngineStates) /\ Len(engines') = n
        /\ \A f \in 1 .. n :
             engines'[f] = IF f = n /\ es[f] \in {"opening", "stalling"}
                           THEN "closed" ELSE es[f]
    <3>1. CASE state \in {"opening", "stalling"}
      <4>1. n # 0 BY <1>3, <3>1
      <4>2. engines' = [es EXCEPT ![n] = "closed"] /\ n \in 1 .. n BY <1>4, <1>6, <3>1, <4>1
      <4>3. /\ engines' \in Seq(EngineStates) /\ Len(engines') = n
            /\ \A f \in 1 .. n : engines'[f] = IF f = n THEN "closed" ELSE es[f]
        BY <4>2, ExceptSeq DEF EngineStates
      <4> QED BY <1>4, <3>1, <4>1, <4>3
    <3>2. CASE state \notin {"opening", "stalling"}
      <4>1. engines' = es BY <1>6, <3>2
      <4>2. \A f \in 1 .. n : f = n => es[f] \notin {"opening", "stalling"}
        BY <1>1, <1>4, <3>2
      <4> QED BY <4>1, <4>2
    <3> QED BY <3>1, <3>2
  <2>2. /\ attempts' = 0 /\ tries' = 0 /\ readyState' = "closed" /\ Push("close", "none")
    BY <1>6 DEF CloseRest, MarkClosed
  <2>3. Pushed("close", "none") BY <2>2, PushFrame DEF Frame, Frames, Callbacks
  <2>4. n = 0 \/ es[n] # "open" BY <1>4, <1>6
  <2> QED BY <1>2, <1>6, <2>1, <2>2, <2>3, <2>4 DEF Finishes
<1> QED BY <1>5, <1>6 DEF OnClose

(***************************************************************************)
(* Type correctness                                                         *)
(***************************************************************************)
LEMMA InitType == Init => TypeInv
<1> SUFFICES ASSUME Init PROVE TypeInv OBVIOUS
<1>1. stack = <<>> /\ <<>> \in Seq(Frames) /\ Len(<<>>) = 0 BY EmptySeq DEF Init
<1>2. CASE engines = <<>> /\ readyState = "closed" /\ subs = {} /\ wanted = FALSE
  <2>1. Len(engines) = 0 /\ engines \in Seq(EngineStates) BY <1>2, EmptySeq
  <2>2. Linked BY <1>1, <1>2, <2>1 DEF Init, Linked
  <2> QED BY <1>1, <1>2, <2>1, <2>2 DEF Init, TypeInv, Typed, States
<1>3. CASE /\ engines = <<"opening">> /\ readyState = "opening"
           /\ subs = {Attempt(1, "none")} /\ wanted = TRUE
  <2>1. engines \in Seq(EngineStates) /\ Len(engines) = 1 BY <1>3 DEF EngineStates
  <2>2. subs \subseteq Subscriptions BY <1>3 DEF Attempt, Subscriptions, Callbacks
  <2>3. Linked BY <1>1, <1>3, <2>1 DEF Init, Linked, Attempt
  <2> QED BY <1>1, <1>3, <2>1, <2>2, <2>3 DEF Init, TypeInv, Typed, States
<1> QED BY <1>2, <1>3 DEF Init

LEMMA OpenType ==
  ASSUME TypeInv, NEW fn \in Callbacks, Open(fn)
  PROVE  /\ readyState' \in States /\ engines' \in Seq(EngineStates)
         /\ subs' \subseteq Subscriptions /\ skipReconnect' \in BOOLEAN
         /\ Len(engines') >= Len(engines) /\ Len(engines') \in Nat
         /\ \A s \in subs' : s.engine \in 1 .. Len(engines')
         /\ \A s, t \in subs' :
              s.on = "attempt" /\ t.on = "attempt" /\ s.engine = t.engine => s.fn = t.fn
<1>1. Len(engines) \in Nat BY Lengths DEF TypeInv
<1>2. CASE UNCHANGED <<readyState, engines, subs, skipReconnect>>
  BY <1>1, <1>2 DEF TypeInv, Typed, Linked
<1>3. CASE /\ ~IsOpen /\ Added
           /\ readyState' = "opening" /\ skipReconnect' = FALSE
           /\ subs' = subs \cup {Attempt(Len(engines) + 1, fn)}
  <2> DEFINE a == Attempt(Len(engines) + 1, fn)
  <2>1. a \in Subscriptions /\ a.engine = Len(engines) + 1
    BY <1>1 DEF Attempt, Subscriptions
  <2>2. \A s \in subs : s.engine \in 1 .. Len(engines) /\ s.engine # a.engine
    BY <1>1, <2>1 DEF TypeInv, Linked
  <2>3. Len(engines') = Len(engines) + 1 BY <1>3 DEF Added
  <2>4. subs' = subs \cup {a} BY <1>3
  <2> HIDE DEF a
  <2>5. \A s \in subs' : s.engine \in 1 .. Len(engines')
    BY <1>1, <2>1, <2>2, <2>3, <2>4
  <2>6. \A s, t \in subs' :
          s.on = "attempt" /\ t.on = "attempt" /\ s.engine = t.engine => s.fn = t.fn
    BY <2>2, <2>4 DEF TypeInv, Linked
  <2>7. readyState' \in States /\ skipReconnect' \in BOOLEAN BY <1>3 DEF States
  <2>8. engines' \in Seq(EngineStates) BY <1>3 DEF Added
  <2>9. subs' \subseteq Subscriptions BY <2>1, <2>4 DEF TypeInv, Typed
  <2>10. Len(engines') >= Len(engines) /\ Len(engines') \in Nat BY <1>1, <2>3
  <2> QED BY <2>5, <2>6, <2>7, <2>8, <2>9, <2>10
<1> QED BY <1>2, <1>3, OpenShape DEF TypeInv

(* open() by the user or the timer, which only the lists of engines and     *)
(* subscriptions feel. *)
LEMMA OpenLinked ==
  ASSUME TypeInv, NEW fn \in Callbacks, Open(fn), suspended' = suspended,
         Len(stack') \in Nat, Len(stack') <= Len(stack),
         \A i \in 1 .. Len(stack') : stack'[i] = stack[i]
  PROVE  Linked'
<1>1. Len(engines) \in Nat /\ Len(stack) \in Nat BY Lengths DEF TypeInv
<1>2. Len(engines') >= Len(engines) /\ Len(engines') \in Nat BY OpenType
<1>3. suspended' \subseteq 1 .. Len(engines') BY <1>1, <1>2 DEF TypeInv, Linked
<1>4. \A i \in 1 .. Len(stack') : stack'[i].at = "open" => Len(engines') > 0
  BY <1>1, <1>2 DEF TypeInv, Linked
<1> QED BY <1>3, <1>4, OpenType DEF Linked

LEMMA OnCloseType ==
  ASSUME TypeInv, NEW es \in Seq(EngineStates), Len(es) = Len(engines), OnClose(es)
  PROVE  /\ readyState' \in States /\ engines' \in Seq(EngineStates)
         /\ subs' \subseteq Subscriptions /\ stack' \in Seq(Frames)
         /\ timers' \in Nat /\ attempts' \in Nat /\ tries' \in Nat
         /\ gaveUp' \in BOOLEAN
         /\ Linked'
<1>1. Len(engines) \in Nat /\ Len(stack) \in Nat BY Lengths DEF TypeInv
<1>2. /\ subs' = {} /\ timers' = 0 /\ gaveUp' = gaveUp
      /\ engines' \in Seq(EngineStates) /\ Len(engines') = Len(engines)
  BY OnCloseShape DEF TypeInv
<1>3. CASE Waits(es)
  <2>1. suspended' \subseteq 1 .. Len(engines')
    <3>1. Len(engines) \in 1 .. Len(engines) BY <1>1, <1>3 DEF Waits
    <3> QED BY <1>2, <1>3, <3>1 DEF TypeInv, Linked, Waits
  <2>2. \A i \in 1 .. Len(stack') : stack'[i].at = "open" => Len(engines') > 0
    BY <1>2, <1>3 DEF TypeInv, Linked, Waits
  <2>3. Linked' BY <1>2, <2>1, <2>2 DEF Linked
  <2> QED BY <1>2, <1>3, <2>3 DEF Waits, TypeInv, Typed
<1>4. CASE Finishes(es)
  <2>1. suspended' \subseteq 1 .. Len(engines') BY <1>2, <1>4 DEF Finishes, TypeInv, Linked
  <2>2. \A i \in 1 .. Len(stack') : stack'[i].at = "open" => Len(engines') > 0
    BY <1>1, <1>2, <1>4 DEF Finishes, Pushed, TypeInv, Linked
  <2>3. Linked' BY <1>2, <2>1, <2>2 DEF Linked
  <2> QED BY <1>2, <1>4, <2>3 DEF Finishes, Pushed, TypeInv, Typed, States
<1> QED BY <1>3, <1>4, OnCloseShape DEF TypeInv

(* The counters of a reconnection. *)
LEMMA ReconnectType ==
  ASSUME Typed, NEW r \in BOOLEAN, Reconnect(r)
  PROVE  /\ timers' \in Nat /\ attempts' \in Nat /\ tries' \in Nat
         /\ reconnecting' \in BOOLEAN /\ gaveUp' \in BOOLEAN
<1>1. CASE r \/ skipReconnect
  <2>1. reconnecting' = r /\ UNCHANGED <<attempts, timers, tries, gaveUp>>
    BY <1>1 DEF Reconnect
  <2> QED BY <2>1 DEF Typed
<1>2. CASE ~(r \/ skipReconnect)
  <2>1. CASE GivesUp
    <3>1. /\ attempts' = 0 /\ tries' = 0 /\ reconnecting' = FALSE /\ gaveUp' = TRUE
          /\ timers' = timers
      BY <1>2, <2>1 DEF Reconnect
    <3> QED BY <3>1 DEF Typed
  <2>2. CASE ~GivesUp
    <3>1. /\ attempts' = attempts + 1 /\ reconnecting' = TRUE /\ timers' = timers + 1
          /\ UNCHANGED <<tries, gaveUp>>
      BY <1>2, <2>2 DEF Reconnect
    <3> QED BY <3>1 DEF Typed
  <2> QED BY <2>1, <2>2
<1> QED BY <1>1, <1>2

LEMMA StaysType ==
  ASSUME Typed, Stays
  PROVE  /\ timers' \in Nat /\ attempts' \in Nat /\ tries' \in Nat
         /\ reconnecting' \in BOOLEAN /\ gaveUp' \in BOOLEAN
BY DEF Typed, Stays

(* Listeners that return leave everything linked. *)
LEMMA PopLinked ==
  ASSUME TypeInv, NEW at, Popped(at), UNCHANGED <<engines, subs, suspended>>
  PROVE  Linked' /\ stack' \in Seq(Frames)
<1>1. Len(stack) \in Nat BY Lengths DEF TypeInv
<1>2. \A i \in 1 .. Len(stack') : i \in 1 .. Len(stack) /\ stack'[i] = stack[i]
  BY <1>1 DEF Popped
<1> QED BY <1>2 DEF TypeInv, Linked, Popped

LEMMA PushLinked ==
  ASSUME TypeInv, NEW at, NEW fn, Pushed(at, fn), at = "open" => Len(engines) > 0,
         Len(engines') = Len(engines), suspended' = suspended, subs' \subseteq subs
  PROVE  Linked'
<1>1. Len(stack) \in Nat BY Lengths DEF TypeInv
<1>2. \A i \in 1 .. Len(stack') : stack'[i].at = "open" => Len(engines') > 0
  BY <1>1 DEF Pushed, TypeInv, Linked
<1> QED BY <1>2 DEF TypeInv, Linked

LEMMA TimerType ==
  ASSUME TypeInv, ReconnectTimer
  PROVE  TypeInv'
<1>1. /\ UNCHANGED <<managerVars, engines, subs, reconnecting, attempts, gaveUp,
                     suspended, userVars>>
      /\ timers' \in Nat
  BY DEF ReconnectTimer, TypeInv, Typed
<1>2. CASE skipReconnect
  BY <1>1, <1>2 DEF ReconnectTimer, TypeInv, Typed, Linked, managerVars, userVars
<1>3. CASE ~skipReconnect
  <2>1. Pushed("attempt", "reconnect") /\ tries' = tries + 1
    BY <1>3, PushFrame DEF ReconnectTimer, Frame, Frames, Callbacks, TypeInv
  <2>2. Linked' BY <1>1, <2>1, PushLinked
  <2> QED BY <1>1, <2>1, <2>2 DEF TypeInv, Typed, Pushed, managerVars, userVars
<1> QED BY <1>2, <1>3

LEMMA AttemptReturnsType ==
  ASSUME TypeInv, AttemptReturns
  PROVE  TypeInv'
<1>1. Popped("attempt") BY PopFrame DEF AttemptReturns, TypeInv
<1>2. UNCHANGED <<reconnection, retryVars, suspended, userVars>> BY DEF AttemptReturns
<1>3. CASE skipReconnect
  <2>1. UNCHANGED <<readyState, engines, subs, skipReconnect>>
    BY <1>3 DEF AttemptReturns, CalledOff
  <2>2. Linked' BY <1>1, <1>2, <2>1, PopLinked
  <2> QED BY <1>1, <1>2, <2>1, <2>2 DEF Popped, TypeInv, Typed, retryVars, userVars
<1>4. CASE ~skipReconnect
  <2>1. Open("reconnect") /\ "reconnect" \in Callbacks
    BY <1>4 DEF AttemptReturns, CalledOff, Callbacks
  <2>2. /\ Len(stack') \in Nat /\ Len(stack') <= Len(stack)
        /\ \A i \in 1 .. Len(stack') : stack'[i] = stack[i]
    <3>1. Len(stack) \in Nat /\ Len(stack') = Len(stack) - 1 /\ Len(stack) > 0
      BY <1>1, Lengths DEF Popped, TypeInv
    <3> QED BY <1>1, <3>1 DEF Popped
  <2>3. Linked' BY <1>2, <2>1, <2>2, OpenLinked
  <2>4. stack' \in Seq(Frames) BY <1>1 DEF Popped
  <2> QED BY <1>2, <2>1, <2>3, <2>4, OpenType DEF TypeInv, Typed, retryVars, userVars
<1> QED BY <1>3, <1>4

LEMMA CloseReturnsType ==
  ASSUME TypeInv, NEW e \in suspended, CloseReturns(e)
  PROVE  TypeInv'
<1>1. /\ UNCHANGED <<subs, timers, reconnecting, gaveUp, skipReconnect, reconnection, userVars>>
      /\ engines' = [engines EXCEPT ![e] = "closed"]
      /\ suspended' \subseteq suspended
      /\ attempts' = 0 /\ tries' = 0 /\ readyState' = "closed" /\ Push("close", "none")
  BY DEF CloseReturns, CloseRest, MarkClosed
<1>2. NowIs(e, "closed") BY <1>1, SetState DEF TypeInv, Linked, EngineStates
<1>3. Pushed("close", "none") BY <1>1, PushFrame DEF Frame, Frames, Callbacks, TypeInv
<1>4. Linked'
  <2>1. Len(stack) \in Nat BY Lengths DEF TypeInv
  <2>2. \A i \in 1 .. Len(stack') : stack'[i].at = "open" => Len(engines') > 0
    BY <1>2, <1>3, <2>1 DEF Pushed, NowIs, TypeInv, Linked
  <2> QED BY <1>1, <1>2, <2>2 DEF TypeInv, Linked, NowIs
<1> QED BY <1>1, <1>2, <1>3, <1>4 DEF TypeInv, Typed, NowIs, Pushed, States, userVars

LEMMA ClosedReturnsType ==
  ASSUME TypeInv, ClosedReturns
  PROVE  TypeInv'
<1>1. Popped("close") BY PopFrame DEF ClosedReturns, TypeInv
<1>2. UNCHANGED <<managerVars, engines, subs, suspended, userVars>> BY DEF ClosedReturns
<1>3. /\ timers' \in Nat /\ attempts' \in Nat /\ tries' \in Nat
      /\ reconnecting' \in BOOLEAN /\ gaveUp' \in BOOLEAN
  <2>1. Reconnect(reconnecting) \/ Stays BY DEF ClosedReturns
  <2>2. reconnecting \in BOOLEAN BY DEF TypeInv, Typed
  <2> QED BY <2>1, <2>2, ReconnectType, StaysType DEF TypeInv
<1>4. Linked' /\ stack' \in Seq(Frames) BY <1>1, <1>2, PopLinked
<1> QED BY <1>2, <1>3, <1>4 DEF TypeInv, Typed, managerVars, userVars

LEMMA ErrorReturnsType ==
  ASSUME TypeInv, ErrorReturns
  PROVE  TypeInv'
<1>1. Popped("error") BY PopFrame DEF ErrorReturns, TypeInv
<1>2. UNCHANGED <<managerVars, engines, subs, suspended, userVars>> BY DEF ErrorReturns
<1>3. /\ timers' \in Nat /\ attempts' \in Nat /\ tries' \in Nat
      /\ reconnecting' \in BOOLEAN /\ gaveUp' \in BOOLEAN
  <2>1. \/ Reconnect(FALSE) \/ Reconnect(reconnecting) \/ Stays
        \/ gaveUp' = TRUE /\ UNCHANGED <<timers, reconnecting, attempts, tries>>
    BY DEF ErrorReturns, AttemptOver
  <2>2. reconnecting \in BOOLEAN BY DEF TypeInv, Typed
  <2>3. CASE gaveUp' = TRUE /\ UNCHANGED <<timers, reconnecting, attempts, tries>>
    BY <2>3 DEF TypeInv, Typed
  <2> QED BY <2>1, <2>2, <2>3, ReconnectType, StaysType DEF TypeInv
<1>4. Linked' /\ stack' \in Seq(Frames) BY <1>1, <1>2, PopLinked
<1> QED BY <1>2, <1>3, <1>4 DEF TypeInv, Typed, managerVars, userVars

LEMMA OpenReturnsType ==
  ASSUME TypeInv, OpenReturns
  PROVE  TypeInv'
<1>1. Popped("open") BY PopFrame DEF OpenReturns, TypeInv
<1>2. UNCHANGED <<managerVars, engines, timers, gaveUp, suspended, userVars>>
  BY DEF OpenReturns
<1>3. reconnecting' \in BOOLEAN /\ attempts' \in Nat /\ tries' \in Nat
  <2>1. \/ reconnecting' = FALSE /\ attempts' = 0 /\ tries' = 0
        \/ UNCHANGED <<reconnecting, attempts, tries>>
    BY DEF OpenReturns
  <2>2. CASE reconnecting' = FALSE /\ attempts' = 0 /\ tries' = 0 BY <2>2
  <2>3. CASE UNCHANGED <<reconnecting, attempts, tries>> BY <2>3 DEF TypeInv, Typed
  <2> QED BY <2>1, <2>2, <2>3
<1> DEFINE l == Live(Len(engines))
<1>4. subs' = subs \cup {l} BY DEF OpenReturns, This
<1>5. Len(engines) \in Nat /\ Len(engines) > 0 /\ Len(stack) \in Nat
  BY <1>1, Lengths DEF Popped, TypeInv, Linked
<1>6. l \in Subscriptions /\ l.engine = Len(engines) /\ l.on = "live"
  BY <1>5 DEF Live, Subscriptions, Callbacks
<1> HIDE DEF l
<1>7. /\ \A s \in subs' : s.engine \in 1 .. Len(engines)
      /\ \A s \in subs' : s.on = "attempt" => s \in subs
  BY <1>4, <1>5, <1>6 DEF TypeInv, Linked
<1>8. Linked'
  <2>1. \A i \in 1 .. Len(stack') : i \in 1 .. Len(stack) /\ stack'[i] = stack[i]
    BY <1>1, <1>5 DEF Popped
  <2> QED BY <1>2, <1>7, <2>1 DEF TypeInv, Linked
<1>9. subs' \subseteq Subscriptions BY <1>4, <1>6 DEF TypeInv, Typed
<1>10. stack' \in Seq(Frames) BY <1>1 DEF Popped
<1> QED BY <1>2, <1>3, <1>8, <1>9, <1>10 DEF TypeInv, Typed, managerVars, userVars

LEMMA UserOpensType ==
  ASSUME TypeInv, NEW fn \in {"none", "user"}, UserOpens(fn)
  PROVE  TypeInv'
<1>1. /\ Open(fn) /\ fn \in Callbacks
      /\ UNCHANGED <<reconnection, timers, reconnecting, attempts, tries, stack, suspended, active>>
  BY DEF UserOpens, Callbacks
<1>2. Len(stack) \in Nat BY Lengths DEF TypeInv
<1>3. Linked'
  <2>1. Len(stack') \in Nat /\ Len(stack') <= Len(stack) BY <1>1, <1>2
  <2> QED BY <1>1, <2>1, OpenLinked
<1>4. calls' \in Nat /\ wanted' = TRUE /\ patient' \in BOOLEAN /\ gaveUp' = FALSE
  BY DEF UserOpens, Calls, TypeInv, Typed
<1> QED BY <1>1, <1>3, <1>4, OpenType DEF TypeInv, Typed

LEMMA SocketConnectsType ==
  ASSUME TypeInv, NEW n \in Namespaces, SocketConnects(n)
  PROVE  TypeInv'
<1>1. UNCHANGED <<reconnection, timers, reconnecting, attempts, tries, stack, suspended>>
  BY DEF SocketConnects
<1>2. /\ calls' \in Nat /\ wanted' = TRUE /\ patient' \in BOOLEAN /\ gaveUp' = FALSE
      /\ active' \subseteq Namespaces
  BY DEF SocketConnects, Calls, TypeInv, Typed
<1>3. Len(stack) \in Nat BY Lengths DEF TypeInv
<1>4. CASE reconnecting
  <2>1. UNCHANGED <<readyState, engines, subs, skipReconnect>> BY <1>4 DEF SocketConnects
  <2> QED BY <1>1, <1>2, <2>1 DEF TypeInv, Typed, Linked
<1>5. CASE ~reconnecting
  <2>1. Open("none") /\ "none" \in Callbacks BY <1>5 DEF SocketConnects, Callbacks
  <2>2. Len(stack') \in Nat /\ Len(stack') <= Len(stack) BY <1>1, <1>3
  <2>3. Linked' BY <1>1, <2>1, <2>2, OpenLinked
  <2> QED BY <1>1, <1>2, <2>1, <2>3, OpenType DEF TypeInv, Typed
<1> QED BY <1>4, <1>5

LEMMA SocketDisconnectsType ==
  ASSUME TypeInv, NEW n \in Namespaces, SocketDisconnects(n)
  PROVE  TypeInv'
<1>1. UNCHANGED <<reconnection, patient>> /\ calls' \in Nat /\ active' \subseteq Namespaces
  BY DEF SocketDisconnects, Calls, TypeInv, Typed
<1>2. CASE NoneActive
  <2>1. skipReconnect' = TRUE /\ reconnecting' = FALSE /\ wanted' = FALSE /\ OnClose(engines)
    BY <1>2 DEF SocketDisconnects
  <2>2. engines \in Seq(EngineStates) BY DEF TypeInv, Typed
  <2> QED BY <1>1, <2>1, <2>2, OnCloseType DEF TypeInv, Typed
<1>3. CASE ~NoneActive
  <2>1. UNCHANGED <<skipReconnect, wanted, readyState, engines, subs, retryVars, stack, suspended>>
    BY <1>3 DEF SocketDisconnects
  <2> QED BY <1>1, <2>1 DEF TypeInv, Typed, Linked, retryVars
<1> QED BY <1>2, <1>3

LEMMA SetReconnectionType ==
  ASSUME TypeInv, NEW v \in BOOLEAN, SetReconnection(v)
  PROVE  TypeInv'
<1>1. UNCHANGED <<readyState, engines, subs, retryVars, stack, suspended, active>>
  BY DEF SetReconnection
<1>2. calls' \in Nat /\ reconnection' \in BOOLEAN
  BY DEF SetReconnection, Calls, TypeInv, Typed
<1>3. skipReconnect' \in BOOLEAN /\ wanted' \in BOOLEAN /\ patient' \in BOOLEAN
  BY DEF SetReconnection
<1> QED BY <1>1, <1>2, <1>3 DEF TypeInv, Typed, Linked, retryVars

(* The callback of an attempt that is subscribed to. *)
LEMMA FnOfIs ==
  ASSUME TypeInv, NEW s \in subs, s.on = "attempt"
  PROVE  FnOf(s.engine) = s.fn /\ s.fn \in Callbacks
<1> DEFINE t == CHOOSE x \in subs : x.on = "attempt" /\ x.engine = s.engine
<1>1. t \in subs /\ t.on = "attempt" /\ t.engine = s.engine OBVIOUS
<1>2. t.fn = s.fn BY <1>1 DEF TypeInv, Linked
<1>3. s.fn \in Callbacks BY DEF TypeInv, Typed, Subscriptions
<1> QED BY <1>2, <1>3 DEF FnOf

LEMMA SubscribedFn ==
  ASSUME TypeInv, NEW e, Subscribed("attempt", e)
  PROVE  FnOf(e) \in Callbacks
BY FnOfIs DEF Subscribed

LEMMA EngineOpensType ==
  ASSUME TypeInv, NEW e \in DOMAIN engines, EngineOpens(e)
  PROVE  TypeInv'
<1>1. UNCHANGED <<skipReconnect, reconnection, reconnecting, attempts, tries, gaveUp,
                  suspended, userVars>>
      /\ engines' = [engines EXCEPT ![e] = "open"]
  BY DEF EngineOpens
<1>2. NowIs(e, "open") /\ e \in 1 .. Len(engines) /\ Len(engines) \in Nat
  BY <1>1, SetState, Lengths DEF TypeInv, EngineStates
<1>3. CASE Subscribed("attempt", e)
  <2>1. /\ subs' = {} /\ timers' = 0 /\ readyState' = "open"
        /\ Push("open", FnOf(e))
    BY <1>3 DEF EngineOpens, Cleanup
  <2>2. Pushed("open", FnOf(e))
    BY <1>3, <2>1, PushFrame, SubscribedFn DEF Frame, Frames, TypeInv
  <2>3. Linked' BY <1>1, <1>2, <2>1, <2>2, PushLinked DEF NowIs
  <2> QED BY <1>1, <1>2, <2>1, <2>2, <2>3 DEF TypeInv, Typed, NowIs, Pushed, States, userVars
<1>4. CASE ~Subscribed("attempt", e)
  <2>1. UNCHANGED <<subs, timers, readyState, stack>> BY <1>4 DEF EngineOpens
  <2> QED BY <1>1, <1>2, <2>1 DEF TypeInv, Typed, Linked, NowIs, userVars
<1> QED BY <1>3, <1>4

LEMMA OnErrorType ==
  ASSUME TypeInv, NEW e \in DOMAIN engines, OnError(e)
  PROVE  TypeInv'
<1>1. /\ UNCHANGED <<skipReconnect, reconnection, reconnecting, attempts, tries, gaveUp,
                     suspended, userVars>>
      /\ engines' = [engines EXCEPT ![e] = "closed"]
      /\ subs' = {} /\ timers' = 0 /\ readyState' = "closed" /\ Push("error", FnOf(e))
  BY DEF OnError, Cleanup
<1>2. NowIs(e, "closed") BY <1>1, SetState, Lengths DEF TypeInv, EngineStates
<1>3. Pushed("error", FnOf(e))
  BY <1>1, PushFrame, SubscribedFn DEF OnError, Frame, Frames, TypeInv
<1>4. Linked' BY <1>1, <1>2, <1>3, PushLinked DEF NowIs
<1> QED BY <1>1, <1>2, <1>3, <1>4 DEF TypeInv, Typed, NowIs, Pushed, States, userVars

LEMMA EngineStallsType ==
  ASSUME TypeInv, NEW e \in DOMAIN engines, EngineStalls(e)
  PROVE  TypeInv'
<1>1. UNCHANGED <<managerVars, subs, retryVars, stack, suspended, userVars>>
      /\ engines' = [engines EXCEPT ![e] = "stalling"]
  BY DEF EngineStalls
<1>2. NowIs(e, "stalling") BY <1>1, SetState, Lengths DEF TypeInv, EngineStates
<1> QED BY <1>1, <1>2 DEF TypeInv, Typed, Linked, NowIs, managerVars, retryVars, userVars

LEMMA EngineClosesType ==
  ASSUME TypeInv, NEW e \in DOMAIN engines, EngineCloses(e)
  PROVE  TypeInv'
<1> DEFINE es == [engines EXCEPT ![e] = "closed"]
<1>1. UNCHANGED <<skipReconnect, reconnection, reconnecting, userVars>> BY DEF EngineCloses
<1>2. es \in Seq(EngineStates) /\ Len(es) = Len(engines)
  BY ExceptSeq, Lengths DEF TypeInv, Typed, EngineStates
<1>3. CASE Subscribed("live", e)
  <2>1. OnClose(es) BY <1>3 DEF EngineCloses
  <2> HIDE DEF es
  <2> QED BY <1>1, <1>2, <2>1, OnCloseType DEF TypeInv, Typed, userVars
<1>4. CASE ~Subscribed("live", e)
  <2>1. /\ engines' = es
        /\ UNCHANGED <<readyState, subs, timers, attempts, tries, gaveUp, stack, suspended>>
    BY <1>4 DEF EngineCloses
  <2> HIDE DEF es
  <2> QED BY <1>1, <1>2, <2>1 DEF TypeInv, Typed, Linked, userVars
<1> QED BY <1>3, <1>4

LEMMA ParseErrorType ==
  ASSUME TypeInv, NEW e \in DOMAIN engines, ParseError(e)
  PROVE  TypeInv'
<1>1. UNCHANGED <<skipReconnect, reconnection, reconnecting, userVars>> /\ OnClose(engines)
  BY DEF ParseError
<1>2. engines \in Seq(EngineStates) BY DEF TypeInv, Typed
<1> QED BY <1>1, <1>2, OnCloseType DEF TypeInv, Typed, userVars

(* Every step keeps the types. *)
LEMMA NextType == TypeInv /\ [Next]_vars => TypeInv'
<1> SUFFICES ASSUME TypeInv, [Next]_vars PROVE TypeInv' OBVIOUS
<1>1. CASE User
  BY <1>1, UserOpensType, SocketConnectsType, SocketDisconnectsType, SetReconnectionType DEF User
<1>2. CASE Handlers
  BY <1>2, AttemptReturnsType, ClosedReturnsType, OpenReturnsType, ErrorReturnsType DEF Handlers
<1>3. CASE Resumes BY <1>3, CloseReturnsType DEF Resumes
<1>4. CASE Answers \/ TimesOut
  BY <1>4, EngineOpensType, OnErrorType
     DEF Answers, TimesOut, EngineFails, AttemptTimesOut
<1>5. CASE Losses
  BY <1>5, EngineStallsType, EngineClosesType, ParseErrorType DEF Losses
<1>6. CASE UNCHANGED vars
  BY <1>6 DEF vars, managerVars, retryVars, userVars, TypeInv, Typed, Linked
<1> QED BY <1>1, <1>2, <1>3, <1>4, <1>5, <1>6, TimerType DEF Next

LEMMA TypeInvTypeOK == TypeInv => TypeOK
<1> SUFFICES ASSUME TypeInv PROVE TypeOK OBVIOUS
<1>1. /\ \A s \in subs : /\ s.on \in {"attempt", "live"}
                         /\ s.engine \in 1 .. Len(engines)
                         /\ s.fn \in {"none", "user", "reconnect"}
  BY DEF TypeInv, Typed, Linked, Subscriptions, Callbacks
<1>2. \A i \in DOMAIN stack : stack[i].at \in {"attempt", "open", "error", "close"}
  BY Lengths DEF TypeInv, Frames
<1>3. suspended \subseteq DOMAIN engines BY Lengths DEF TypeInv, Linked
<1> QED BY <1>1, <1>2, <1>3 DEF TypeOK, TypeInv, Typed, States, EngineStates

(* The manager's variables keep their types, and its subscriptions refer to *)
(* engines that were made (manager.ts:96-136). *)
THEOREM TypeCorrect == Spec => []TypeOK
BY InitType, NextType, TypeInvTypeOK, PTL DEF Spec

(***************************************************************************)
(* No engine that nobody wants                                              *)
(***************************************************************************)
(* A manager that the user has not opened, or has closed, does not          *)
(* reconnect, or it has not begun: only the user ends skipReconnect then.   *)
Fresh     == Len(engines) = 0 /\ timers = 0 /\ Len(stack) = 0 /\ suspended = {}
WantedInv == wanted \/ skipReconnect \/ Fresh

LEMMA InitWanted == Init => WantedInv
BY EmptySeq DEF Init, WantedInv, Fresh

LEMMA UserWanted ==
  ASSUME TypeInv, WantedInv, User
  PROVE  WantedInv'
<1>1. CASE \E fn \in {"none", "user"} : UserOpens(fn)
  BY <1>1 DEF UserOpens, WantedInv
<1>2. CASE \E n \in Namespaces : SocketConnects(n)
  BY <1>2 DEF SocketConnects, WantedInv
<1>3. ASSUME NEW n \in Namespaces, SocketDisconnects(n) PROVE WantedInv'
  <2>1. CASE NoneActive BY <1>3, <2>1 DEF SocketDisconnects, WantedInv
  <2>2. CASE ~NoneActive
    <3>1. UNCHANGED <<skipReconnect, wanted, readyState, engines, subs, retryVars, stack, suspended>>
      BY <1>3, <2>2 DEF SocketDisconnects
    <3> QED BY <3>1 DEF WantedInv, Fresh, retryVars
  <2> QED BY <2>1, <2>2
<1>4. ASSUME NEW v \in BOOLEAN, SetReconnection(v) PROVE WantedInv'
  <2>1. /\ skipReconnect' = (skipReconnect \/ ~v) /\ wanted' = (wanted /\ v)
        /\ UNCHANGED <<engines, retryVars, stack, suspended>>
    BY <1>4 DEF SetReconnection
  <2>2. CASE v
    <3>1. wanted => wanted' BY <2>1, <2>2
    <3>2. skipReconnect => skipReconnect' BY <2>1
    <3>3. Fresh => Fresh' BY <2>1 DEF Fresh, retryVars
    <3> QED BY <3>1, <3>2, <3>3 DEF WantedInv
  <2>3. CASE ~v
    <3>1. skipReconnect' BY <2>1, <2>3
    <3> QED BY <3>1 DEF WantedInv
  <2> QED BY <2>2, <2>3
<1> QED BY <1>1, <1>2, <1>3, <1>4 DEF User

(* What is not a call of the user happens to a manager that has begun. *)
LEMMA BegunWanted ==
  ASSUME TypeInv, WantedInv, Handlers \/ Resumes \/ Answers \/ TimesOut \/ Losses \/ ReconnectTimer
  PROVE  (wanted \/ skipReconnect) /\ wanted' = wanted /\ calls' = calls
<1>1. ~Fresh
  <2>1. Handlers => Len(stack) > 0
    BY PopFrame DEF Handlers, AttemptReturns, ClosedReturns, OpenReturns, ErrorReturns, TypeInv, Popped
  <2>2. (\E e \in DOMAIN engines : TRUE) => Len(engines) # 0 BY Lengths DEF TypeInv
  <2>3. Resumes => suspended # {} BY DEF Resumes
  <2>4. ReconnectTimer => timers # 0 BY DEF ReconnectTimer, TypeInv, Typed
  <2> QED BY <2>1, <2>2, <2>3, <2>4 DEF Answers, TimesOut, Losses, Fresh
<1>2. wanted' = wanted /\ calls' = calls
  BY DEF Handlers, AttemptReturns, ClosedReturns, OpenReturns, ErrorReturns, Resumes,
         CloseReturns, Answers, TimesOut, EngineOpens, EngineFails, AttemptTimesOut, OnError,
         Losses, EngineStalls, EngineCloses, ParseError, ReconnectTimer, userVars
<1> QED BY <1>1, <1>2 DEF WantedInv

(* Only an attempt that is not called off makes an engine without a call. *)
LEMMA OnlyAttempt ==
  ASSUME TypeInv, Handlers \/ Resumes \/ Answers \/ TimesOut \/ Losses \/ ReconnectTimer
  PROVE  \/ AttemptReturns /\ ~skipReconnect
         \/ Len(engines') = Len(engines) /\ skipReconnect' = skipReconnect
<1>1. ASSUME AttemptReturns, skipReconnect PROVE UNCHANGED <<engines, skipReconnect>>
  BY <1>1 DEF AttemptReturns, CalledOff
<1>2. ASSUME ClosedReturns \/ OpenReturns \/ ErrorReturns \/ ReconnectTimer
      PROVE  UNCHANGED <<engines, skipReconnect>>
  BY <1>2 DEF ClosedReturns, OpenReturns, ErrorReturns, ReconnectTimer, managerVars
<1>3. ASSUME NEW e \in suspended, CloseReturns(e)
      PROVE  Len(engines') = Len(engines) /\ skipReconnect' = skipReconnect
  BY <1>3, SetState DEF CloseReturns, TypeInv, Linked, EngineStates, NowIs
<1>4. ASSUME NEW e \in DOMAIN engines, EngineOpens(e) \/ OnError(e) \/ EngineStalls(e)
      PROVE  Len(engines') = Len(engines) /\ skipReconnect' = skipReconnect
  <2>1. e \in 1 .. Len(engines) BY Lengths DEF TypeInv
  <2>2. skipReconnect' = skipReconnect
    BY <1>4 DEF EngineOpens, OnError, EngineStalls, managerVars
  <2> QED BY <1>4, <2>1, <2>2, SetState
          DEF EngineOpens, OnError, EngineStalls, TypeInv, EngineStates, NowIs
<1>5. ASSUME NEW e \in DOMAIN engines, EngineCloses(e)
      PROVE  Len(engines') = Len(engines) /\ skipReconnect' = skipReconnect
  <2> DEFINE es == [engines EXCEPT ![e] = "closed"]
  <2>1. es \in Seq(EngineStates) /\ Len(es) = Len(engines)
    BY ExceptSeq, Lengths DEF TypeInv, Typed, EngineStates
  <2>2. skipReconnect' = skipReconnect /\ (OnClose(es) \/ engines' = es)
    BY <1>5 DEF EngineCloses
  <2> HIDE DEF es
  <2> QED BY <2>1, <2>2, OnCloseShape DEF TypeInv
<1>6. ASSUME NEW e \in DOMAIN engines, ParseError(e)
      PROVE  Len(engines') = Len(engines) /\ skipReconnect' = skipReconnect
  <2>1. skipReconnect' = skipReconnect /\ OnClose(engines) BY <1>6 DEF ParseError
  <2>2. engines \in Seq(EngineStates) BY DEF TypeInv, Typed
  <2> QED BY <2>1, <2>2, OnCloseShape DEF TypeInv
<1> QED BY <1>1, <1>2, <1>3, <1>4, <1>5, <1>6
        DEF Handlers, Resumes, Answers, TimesOut, EngineFails, AttemptTimesOut, Losses

LEMMA NextWanted == TypeInv /\ WantedInv /\ [Next]_vars => WantedInv'
<1> SUFFICES ASSUME TypeInv, WantedInv, [Next]_vars PROVE WantedInv' OBVIOUS
<1>1. CASE User BY <1>1, UserWanted
<1>2. CASE Handlers \/ Resumes \/ Answers \/ TimesOut \/ Losses \/ ReconnectTimer
  <2>1. (wanted \/ skipReconnect) /\ wanted' = wanted BY <1>2, BegunWanted
  <2> QED BY <1>2, <2>1, OnlyAttempt DEF WantedInv
<1>3. CASE UNCHANGED vars
  BY <1>3 DEF vars, managerVars, retryVars, userVars, WantedInv, Fresh
<1> QED BY <1>1, <1>2, <1>3 DEF Next

LEMMA StepWanted ==
  TypeInv /\ WantedInv /\ [Next]_vars =>
    [Len(engines') > Len(engines) /\ calls' = calls => wanted]_vars
<1> SUFFICES ASSUME TypeInv, WantedInv, [Next]_vars,
                    Len(engines') > Len(engines), calls' = calls
             PROVE  wanted \/ UNCHANGED vars
  OBVIOUS
<1>1. CASE User
  <2>1. Calls BY <1>1 DEF User, UserOpens, SocketConnects, SocketDisconnects, SetReconnection
  <2> QED BY <2>1 DEF Calls, TypeInv, Typed
<1>2. CASE Handlers \/ Resumes \/ Answers \/ TimesOut \/ Losses \/ ReconnectTimer
  <2>1. Len(engines) \in Nat BY Lengths DEF TypeInv
  <2>2. ~skipReconnect BY <1>2, <2>1, OnlyAttempt
  <2> QED BY <1>2, <2>2, BegunWanted
<1> QED BY <1>1, <1>2 DEF Next

(* The manager makes no engine of its own accord once the last socket has   *)
(* been disconnected or reconnection switched off, whatever was suspended   *)
(* or running when that happened (manager.ts:574, onclose, reconnect).      *)
THEOREM NoUnwantedCorrect == Spec => NoUnwantedEngine
BY InitType, NextType, InitWanted, NextWanted, StepWanted, PTL DEF Spec, NoUnwantedEngine

(***************************************************************************)
(* A patient user: the inductive invariant                                  *)
(***************************************************************************)
Quiet   == Len(stack) = 0 /\ suspended = {}
One(at) == Len(stack) = 1 /\ stack[1].at = at

(* Only the manager's engine is in use or being closed, and a manager that  *)
(* is not in the middle of something listens to it.                         *)
EnginesInv ==
  /\ suspended \subseteq {This}
  /\ \A e \in 1 .. Len(engines) : Doing(e) => e = This /\ readyState # "closed"
  /\ \A e \in suspended : engines[e] = "closing"
  /\ IsOpen /\ Quiet => ~skipReconnect /\ Len(engines) > 0
  /\ readyState = "opening" /\ Quiet =>
       Subscribed("attempt", This) /\ engines[This] = "opening"
  /\ readyState = "open" /\ Quiet =>
       Subscribed("live", This) /\ engines[This] \in {"open", "stalling"}

(* Handlers only pile up when a listener disconnects the last socket: what  *)
(* piles up is onclose, and skipReconnect is set.                           *)
StackInv ==
  /\ \A i \in 2 .. Len(stack) : stack[i].at = "close"
  /\ Len(stack) > 1 => skipReconnect
  /\ Len(stack) > 0 =>
       \/ readyState = "closed" /\ (stack[1].at = "open" => skipReconnect)
       \/ suspended # {} /\ skipReconnect
       \/ /\ One("open") /\ suspended = {} /\ ~skipReconnect
          /\ readyState = "open" /\ Len(engines) > 0 /\ engines[This] = "open"
  /\ Len(stack) > 0 /\ suspended # {} => skipReconnect
  /\ ~Quiet /\ skipReconnect => active = {}

(* One reconnection at a time: it waits for its timer, for the listeners of *)
(* "reconnect_attempt", for its engine, or for the listeners of the result. *)
TimerInv ==
  /\ timers > 0 => timers = 1 /\ reconnecting /\ Quiet /\ readyState = "closed"
  /\ tries + timers <= attempts /\ attempts <= Attempts
  /\ ~reconnecting /\ suspended = {} => attempts = 0
  /\ reconnecting => ~skipReconnect /\ reconnection /\ suspended = {}
  /\ reconnecting =>
       \/ timers = 1
       \/ One("attempt") /\ readyState = "closed"
       \/ Len(stack) = 0 /\ readyState = "opening" /\ FnOf(This) = "reconnect"
       \/ One("open") /\ readyState = "open" /\ stack[1].fn = "reconnect"
       \/ One("error") /\ readyState = "closed" /\ stack[1].fn = "reconnect"

(* Outside a reconnection, what belonged to one has been called off.        *)
LoopInv ==
  ~reconnecting =>
    /\ Len(stack) > 0 /\ stack[1].at = "attempt" => skipReconnect
    /\ Len(stack) > 0 /\ stack[1].at = "error" /\ stack[1].fn = "reconnect" => skipReconnect
    /\ Quiet /\ readyState = "opening" => FnOf(This) # "reconnect"

(* A manager with an active socket that does nothing has given up.          *)
GiveUpInv == Quiet /\ ~IsOpen /\ ~reconnecting /\ active # {} => gaveUp

Orderly    == EnginesInv /\ StackInv /\ TimerInv /\ LoopInv /\ GiveUpInv
PatientInv == patient => Orderly

LEMMA InitOrderly == Init => Orderly
<1> SUFFICES ASSUME Init PROVE Orderly OBVIOUS
<1>1. /\ Len(stack) = 0 /\ suspended = {} /\ timers = 0 /\ attempts = 0 /\ tries = 0
      /\ ~reconnecting /\ ~skipReconnect /\ active = {}
  BY EmptySeq DEF Init
<1>2. TypeInv BY InitType
<1>3. TimerInv BY <1>1, AttemptsAssumption DEF TimerInv
<1>4. StackInv /\ GiveUpInv BY <1>1 DEF StackInv, Quiet, GiveUpInv
<1>5. CASE engines = <<>> /\ readyState = "closed"
  <2>1. Len(engines) = 0 BY <1>5, EmptySeq
  <2> QED BY <1>1, <1>3, <1>4, <1>5, <2>1 DEF Orderly, EnginesInv, LoopInv, IsOpen
<1>6. CASE engines = <<"opening">> /\ readyState = "opening" /\ subs = {Attempt(1, "none")}
  <2>1. Len(engines) = 1 /\ engines[1] = "opening" BY <1>6
  <2> DEFINE a == Attempt(1, "none")
  <2>2. a \in subs /\ a.on = "attempt" /\ a.engine = 1 /\ a.fn = "none"
    BY <1>6 DEF Attempt
  <2> HIDE DEF a
  <2>3. FnOf(1) = "none" /\ Subscribed("attempt", 1) BY <1>2, <2>2, FnOfIs DEF Subscribed
  <2>4. EnginesInv BY <1>1, <1>6, <2>1, <2>3 DEF EnginesInv, This, Doing, IsOpen
  <2>5. LoopInv BY <1>1, <2>1, <2>3 DEF LoopInv, This
  <2> QED BY <1>3, <1>4, <2>4, <2>5 DEF Orderly
<1> QED BY <1>5, <1>6 DEF Init

(***************************************************************************)
(* A patient user: what the actions share                                   *)
(***************************************************************************)
(* A handler other than onclose waits alone. *)
LEMMA Top ==
  ASSUME TypeInv, Orderly, NEW at, Popped(at)
  PROVE  /\ Len(stack) \in Nat \ {0} /\ Len(stack') = Len(stack) - 1
         /\ at # "close" => One(at) /\ Len(stack') = 0
         /\ \A i \in 1 .. Len(stack') : stack'[i] = stack[i]
<1>1. Len(stack) \in Nat /\ Len(stack) > 0 /\ stack[Len(stack)].at = at
  BY Lengths DEF TypeInv, Popped
<1>2. at # "close" => Len(stack) = 1
  <2>1. Len(stack) # 1 => Len(stack) \in 2 .. Len(stack) BY <1>1
  <2> QED BY <1>1, <2>1 DEF Orderly, StackInv
<1> QED BY <1>1, <1>2 DEF Popped, One

(* While a listener runs, a reconnection is in the phase of that listener.  *)
LEMMA InPhase ==
  ASSUME TypeInv, Orderly, Len(stack) > 0
  PROVE  /\ timers = 0
         /\ reconnecting => \/ One("attempt")
                            \/ One("open") /\ stack[1].fn = "reconnect"
                            \/ One("error") /\ stack[1].fn = "reconnect"
BY Lengths DEF TypeInv, Typed, Orderly, TimerInv, Quiet

(* An engine that does something while no handler waits is the manager's,   *)
(* and nobody has asked for it to be closed.                                *)
LEMMA InUse ==
  ASSUME TypeInv, Orderly, Len(stack) = 0, NEW e \in 1 .. Len(engines), Doing(e)
  PROVE  /\ e = This /\ Quiet /\ ~skipReconnect /\ timers = 0
         /\ \/ /\ readyState = "opening" /\ engines[e] = "opening"
               /\ Subscribed("attempt", e)
               /\ reconnecting <=> FnOf(e) = "reconnect"
            \/ /\ readyState = "open" /\ engines[e] \in {"open", "stalling"}
               /\ Subscribed("live", e) /\ ~reconnecting
<1>1. e = This /\ readyState # "closed" BY DEF Orderly, EnginesInv
<1>2. suspended = {}
  <2>1. This \notin suspended BY <1>1 DEF Orderly, EnginesInv, Doing
  <2> QED BY <2>1 DEF Orderly, EnginesInv
<1>3. Quiet /\ IsOpen /\ timers = 0
  BY <1>1, <1>2 DEF Quiet, IsOpen, TypeInv, Typed, States, Orderly, TimerInv
<1>4. ~skipReconnect BY <1>3 DEF Orderly, EnginesInv
<1>5. CASE readyState = "opening"
  <2>1. engines[e] = "opening" /\ Subscribed("attempt", e)
    BY <1>1, <1>3, <1>5 DEF Orderly, EnginesInv
  <2>2. reconnecting => FnOf(e) = "reconnect"
    BY <1>1, <1>3, <1>5 DEF Orderly, TimerInv, One
  <2>3. ~reconnecting => FnOf(e) # "reconnect"
    BY <1>1, <1>3, <1>5 DEF Orderly, LoopInv
  <2> QED BY <1>1, <1>3, <1>4, <1>5, <2>1, <2>2, <2>3
<1>6. CASE readyState = "open"
  <2>1. engines[e] \in {"open", "stalling"} /\ Subscribed("live", e)
    BY <1>1, <1>3, <1>6 DEF Orderly, EnginesInv
  <2>2. ~reconnecting BY <1>3, <1>6 DEF Orderly, TimerInv, One
  <2> QED BY <1>1, <1>3, <1>4, <1>6, <2>1, <2>2
<1> QED BY <1>3, <1>5, <1>6 DEF IsOpen

(* The callback of the attempt in a set of subscriptions. *)
LEMMA TheFn ==
  ASSUME NEW S, NEW s \in S, s.on = "attempt",
         \A t \in S : t.on = "attempt" /\ t.engine = s.engine => t.fn = s.fn
  PROVE  (CHOOSE t \in S : t.on = "attempt" /\ t.engine = s.engine).fn = s.fn
OBVIOUS

(* An engine is made when there is none. *)
LEMMA MakesOrderly ==
  ASSUME TypeInv, TypeInv', Orderly, Added, NEW fn \in Callbacks,
         readyState = "closed", readyState' = "opening", ~skipReconnect',
         subs' = subs \cup {Attempt(Len(engines) + 1, fn)},
         suspended = {}, suspended' = {}, Len(stack') = 0, timers = 0, timers' = 0,
         UNCHANGED <<tries, attempts, reconnecting, reconnection>>,
         reconnecting <=> fn = "reconnect"
  PROVE  Orderly'
<1> DEFINE a == Attempt(Len(engines) + 1, fn)
<1>1. Len(engines) \in Nat /\ Len(engines') = Len(engines) + 1 BY Lengths DEF TypeInv, Added
<1>2. a \in subs' /\ a.on = "attempt" /\ a.engine = Len(engines') /\ a.fn = fn
  BY <1>1 DEF Attempt
<1> HIDE DEF a
<1>3. FnOf(Len(engines))' = fn
  <2>1. \A t \in subs' : t.on = "attempt" /\ t.engine = a.engine => t.fn = a.fn
    BY <1>2 DEF TypeInv, Linked
  <2>2. (CHOOSE t \in subs' : t.on = "attempt" /\ t.engine = a.engine).fn = a.fn
    BY <1>2, <2>1, TheFn
  <2> QED BY <1>2, <2>2 DEF FnOf
<1>4. Subscribed("attempt", This)' BY <1>2 DEF Subscribed, This
<1>5. \A e \in 1 .. Len(engines') : Doing(e)' => e = Len(engines')
  <2>1. \A e \in 1 .. Len(engines) : ~Doing(e) BY DEF Orderly, EnginesInv
  <2>2. \A e \in 1 .. Len(engines') : e # Len(engines') => e \in 1 .. Len(engines) BY <1>1
  <2> QED BY <2>1, <2>2 DEF Added, Doing
<1>6. EnginesInv' BY <1>1, <1>4, <1>5 DEF EnginesInv, Added, This, IsOpen, Quiet
<1>7. StackInv' BY DEF StackInv, Quiet
<1>8. TimerInv'
  <2>1. reconnecting => reconnection BY DEF Orderly, TimerInv
  <2>2. ~reconnecting => attempts = 0 BY DEF Orderly, TimerInv
  <2>3. tries <= attempts /\ attempts <= Attempts BY DEF Orderly, TimerInv, TypeInv, Typed
  <2> QED BY <1>3, <2>1, <2>2, <2>3 DEF TimerInv, This, TypeInv, Typed
<1>9. LoopInv' /\ GiveUpInv' BY <1>3 DEF LoopInv, GiveUpInv, This, IsOpen
<1> QED BY <1>6, <1>7, <1>8, <1>9 DEF Orderly

(* onclose waits for the engine, which the last disconnect() or a packet    *)
(* that cannot be decoded has closed.                                       *)
LEMMA WaitsOrderly ==
  ASSUME TypeInv, Orderly, Waits(engines), Len(engines') = Len(engines), timers' = 0,
         reconnecting' = FALSE,
         \/ skipReconnect' /\ active' = {}
         \/ ~skipReconnect' /\ Len(stack) = 0
  PROVE  Orderly'
<1>1. suspended' = {This}' /\ stack' = stack /\ UNCHANGED <<readyState, attempts, tries>>
  BY DEF Waits, This, Orderly, EnginesInv
<1>2. Len(engines) \in Nat /\ Len(stack) \in Nat BY Lengths DEF TypeInv
<1>3. \A e \in 1 .. Len(engines) : ~Doing(e)'
  BY DEF Waits, Orderly, EnginesInv, Doing, This
<1>4. \A e \in suspended' : engines'[e] = "closing" BY <1>1, <1>2 DEF Waits, This
<1>5. EnginesInv' BY <1>1, <1>3, <1>4 DEF EnginesInv, Quiet
<1>6. StackInv' BY <1>1, <1>2 DEF StackInv, Orderly, Quiet
<1>7. TimerInv' BY <1>1 DEF TimerInv, Orderly, TypeInv, Typed
<1>8. LoopInv'
  <2>1. Len(stack) > 0 => skipReconnect' BY <1>2
  <2> QED BY <1>1, <2>1 DEF LoopInv, Quiet
<1>9. GiveUpInv' BY <1>1 DEF GiveUpInv, Quiet
<1> QED BY <1>5, <1>6, <1>7, <1>8, <1>9 DEF Orderly

(* onclose runs through to its listeners. *)
LEMMA FinishesOrderly ==
  ASSUME TypeInv, Orderly, NEW es \in Seq(EngineStates), Finishes(es),
         Len(engines') = Len(engines), timers' = 0, reconnecting' = FALSE,
         \A f \in 1 .. Len(engines) : es[f] = engines[f] \/ (es[f] = "closed" /\ Doing(f)),
         \/ skipReconnect' /\ active' = {}
         \/ ~skipReconnect' /\ Len(stack) = 0 /\ suspended = {}
  PROVE  Orderly'
<1>1. suspended' = suspended /\ readyState' = "closed" /\ attempts' = 0 /\ tries' = 0
  BY DEF Finishes
<1>2. Len(engines) \in Nat /\ Len(stack) \in Nat BY Lengths DEF TypeInv
<1>3. /\ Len(stack') = Len(stack) + 1
      /\ \A i \in 1 .. Len(stack) : stack'[i] = stack[i]
      /\ stack'[Len(stack) + 1].at = "close"
  BY DEF Finishes, Pushed
<1>4. \A e \in 1 .. Len(engines) : ~Doing(e)'
  <2>1. ASSUME NEW e \in 1 .. Len(engines), Doing(e)' PROVE FALSE
    <3>1. engines'[e] \in {"opening", "open", "stalling"} BY <2>1 DEF Doing
    <3>2. es[e] = engines[e] /\ engines'[e] = es[e] BY <3>1 DEF Finishes
    <3>3. e = Len(engines) BY <2>1, <3>1, <3>2 DEF Orderly, EnginesInv, Doing, This
    <3> QED BY <3>1, <3>2, <3>3 DEF Finishes
  <2> QED BY <2>1
<1>5. \A e \in suspended' : engines'[e] = "closing"
  <2>1. ASSUME NEW e \in suspended PROVE engines'[e] = "closing"
    <3>1. e \in 1 .. Len(engines) /\ engines[e] = "closing"
      BY DEF TypeInv, Linked, Orderly, EnginesInv
    <3>2. es[e] = "closing" BY <3>1 DEF Doing
    <3> QED BY <3>1, <3>2 DEF Finishes
  <2> QED BY <1>1, <2>1
<1>6. EnginesInv' BY <1>1, <1>3, <1>4, <1>5 DEF EnginesInv, Quiet, IsOpen, Orderly, This
<1>7. StackInv'
  <2>1. \A i \in 2 .. Len(stack') : stack'[i].at = "close"
    <3>1. \A i \in 2 .. Len(stack') : i \in 2 .. Len(stack) \/ i = Len(stack) + 1 BY <1>2, <1>3
    <3>2. \A i \in 2 .. Len(stack) : i \in 1 .. Len(stack) BY <1>2
    <3> QED BY <1>3, <3>1, <3>2 DEF Orderly, StackInv
  <2>2. stack'[1].at = "open" => skipReconnect' BY <1>2, <1>3
  <2> QED BY <1>1, <1>2, <1>3, <2>1, <2>2 DEF StackInv, Quiet
<1>8. TimerInv' BY <1>1, AttemptsAssumption DEF TimerInv
<1>9. LoopInv' /\ GiveUpInv'
  <2>1. ~skipReconnect' => stack'[1].at = "close" BY <1>2, <1>3
  <2> QED BY <1>1, <1>2, <1>3, <2>1 DEF LoopInv, GiveUpInv, Quiet
<1> QED BY <1>6, <1>7, <1>8, <1>9 DEF Orderly

(***************************************************************************)
(* A patient user: the actions                                              *)
(***************************************************************************)
LEMMA SameOrderly ==
  ASSUME Orderly,
         UNCHANGED <<managerVars, engines, subs, timers, reconnecting, attempts, tries,
                     stack, suspended>>,
         ~Quiet /\ skipReconnect => active' = {},
         GiveUpInv'
  PROVE  Orderly'
<1>1. UNCHANGED <<readyState, skipReconnect, reconnection, engines, subs, timers,
                  reconnecting, attempts, tries, stack, suspended>>
  BY DEF managerVars
<1>2. EnginesInv'
  BY <1>1 DEF Orderly, EnginesInv, This, Doing, IsOpen, Quiet, Subscribed
<1>3. StackInv' BY <1>1 DEF Orderly, StackInv, One, Quiet, This
<1>4. FnOf(This)' = FnOf(This) BY <1>1 DEF FnOf, This
<1>5. TimerInv' BY <1>1, <1>4 DEF Orderly, TimerInv, One, Quiet
<1>6. LoopInv' BY <1>1, <1>4 DEF Orderly, LoopInv, Quiet
<1> QED BY <1>2, <1>3, <1>5, <1>6 DEF Orderly

(* open() by the user, on a manager that is settled or already open. *)
LEMMA OpensOrderly ==
  ASSUME TypeInv, TypeInv', Orderly, NEW fn \in {"none", "user"}, Open(fn),
         ~reconnecting \/ IsOpen,
         IsOpen \/ Quiet,
         UNCHANGED <<reconnection, timers, reconnecting, attempts, tries, stack, suspended>>,
         ~Quiet /\ skipReconnect => active' = {}
  PROVE  Orderly'
<1>1. CASE IsOpen
  <2>1. UNCHANGED <<readyState, engines, subs, skipReconnect>> BY <1>1 DEF Open
  <2>2. GiveUpInv' BY <1>1, <2>1 DEF GiveUpInv, IsOpen
  <2> QED BY <2>1, <2>2, SameOrderly DEF managerVars
<1>2. CASE ~IsOpen
  <2>1. /\ Added /\ readyState' = "opening" /\ skipReconnect' = FALSE
        /\ subs' = subs \cup {Attempt(Len(engines) + 1, fn)}
    BY <1>2, OpenShape DEF TypeInv
  <2>2. readyState = "closed" BY <1>2 DEF IsOpen, TypeInv, Typed, States
  <2>3. timers = 0 BY <1>2 DEF Orderly, TimerInv, TypeInv, Typed
  <2>4. fn \in Callbacks /\ fn # "reconnect" BY DEF Callbacks
  <2> QED BY <1>2, <2>1, <2>2, <2>3, <2>4, MakesOrderly DEF Quiet
<1> QED BY <1>1, <1>2

LEMMA UserOpensOrderly ==
  ASSUME TypeInv, TypeInv', Orderly, NEW fn \in {"none", "user"}, UserOpens(fn), patient'
  PROVE  Orderly'
<1>1. /\ Open(fn) /\ (Settled \/ OpensNothing)
      /\ UNCHANGED <<reconnection, timers, reconnecting, attempts, tries, stack, suspended,
                     active>>
  BY DEF UserOpens
<1>2. (~reconnecting \/ IsOpen) /\ (IsOpen \/ Quiet)
  BY <1>1, Lengths DEF Settled, OpensNothing, Quiet, TypeInv
<1>3. ~Quiet /\ skipReconnect => active' = {} BY <1>1 DEF Orderly, StackInv
<1> QED BY <1>1, <1>2, <1>3, OpensOrderly

LEMMA SocketConnectsOrderly ==
  ASSUME TypeInv, TypeInv', Orderly, NEW n \in Namespaces, SocketConnects(n), patient'
  PROVE  Orderly'
<1>1. /\ Settled \/ OpensNothing \/ reconnecting
      /\ UNCHANGED <<reconnection, timers, reconnecting, attempts, tries, stack, suspended>>
  BY DEF SocketConnects
<1>2. CASE reconnecting
  <2>1. UNCHANGED <<readyState, engines, subs, skipReconnect>> BY <1>2 DEF SocketConnects
  <2>2. ~skipReconnect BY <1>2 DEF Orderly, TimerInv
  <2>3. GiveUpInv' BY <1>1, <1>2 DEF GiveUpInv
  <2> QED BY <1>1, <2>1, <2>2, <2>3, SameOrderly DEF managerVars
<1>3. CASE ~reconnecting
  <2>1. Open("none") BY <1>3 DEF SocketConnects
  <2>2. IsOpen \/ Quiet
    BY <1>1, <1>3, Lengths DEF Settled, OpensNothing, Quiet, TypeInv
  <2>3. ~Quiet => ~skipReconnect
    <3>1. ASSUME ~Quiet PROVE IsOpen /\ suspended = {} /\ Len(stack) > 0
      BY <1>1, <1>3, <3>1, Lengths DEF Settled, OpensNothing, Quiet, TypeInv
    <3> QED BY <3>1 DEF Orderly, StackInv, IsOpen
  <2> QED BY <1>1, <1>3, <2>1, <2>2, <2>3, OpensOrderly
<1> QED BY <1>2, <1>3

LEMMA SocketDisconnectsOrderly ==
  ASSUME TypeInv, Orderly, NEW n \in Namespaces, SocketDisconnects(n)
  PROVE  Orderly'
<1>1. active' = active \ {n} BY DEF SocketDisconnects
<1>2. CASE NoneActive
  <2>1. /\ skipReconnect' /\ reconnecting' = FALSE /\ active' = {} /\ OnClose(engines)
    BY <1>2 DEF SocketDisconnects, NoneActive
  <2>2. engines \in Seq(EngineStates) BY DEF TypeInv, Typed
  <2>3. /\ timers' = 0 /\ Len(engines') = Len(engines)
        /\ Waits(engines) \/ Finishes(engines)
    BY <2>1, <2>2, OnCloseShape DEF TypeInv
  <2>4. CASE Waits(engines) BY <2>1, <2>3, <2>4, WaitsOrderly
  <2>5. CASE Finishes(engines)
    <3> DEFINE es == engines
    <3>1. \A f \in 1 .. Len(engines) :
            es[f] = engines[f] \/ (es[f] = "closed" /\ Doing(f))
      OBVIOUS
    <3>2. es \in Seq(EngineStates) /\ Finishes(es) BY <2>2, <2>5
    <3> HIDE DEF es
    <3> QED BY <2>1, <2>3, <3>1, <3>2, FinishesOrderly
  <2> QED BY <2>3, <2>4, <2>5
<1>3. CASE ~NoneActive
  <2>1. UNCHANGED <<skipReconnect, wanted, readyState, engines, subs, retryVars, stack,
                    suspended, reconnection>>
    BY <1>3 DEF SocketDisconnects
  <2>2. ~Quiet /\ skipReconnect => active' = {} BY <1>1 DEF Orderly, StackInv
  <2>3. GiveUpInv'
    BY <1>1, <2>1 DEF Orderly, GiveUpInv, Quiet, IsOpen, retryVars
  <2> QED BY <2>1, <2>2, <2>3, SameOrderly DEF managerVars, retryVars
<1> QED BY <1>2, <1>3

LEMMA SetReconnectionOrderly ==
  ASSUME TypeInv, Orderly, NEW v \in BOOLEAN, SetReconnection(v), patient'
  PROVE  Orderly'
<1>1. /\ Settled /\ (v \/ ~IsOpen) /\ skipReconnect' = (skipReconnect \/ ~v)
      /\ UNCHANGED <<readyState, engines, subs, timers, reconnecting, attempts, tries, gaveUp,
                     stack, suspended, active>>
  BY DEF SetReconnection, retryVars
<1>2. Quiet /\ ~reconnecting /\ Len(stack) = 0
  BY <1>1, Lengths DEF Settled, Quiet, TypeInv
<1>3. EnginesInv'
  <2>1. IsOpen => (skipReconnect' <=> skipReconnect) BY <1>1
  <2> QED BY <1>1, <2>1 DEF Orderly, EnginesInv, This, Doing, IsOpen, Quiet, Subscribed
<1>4. StackInv' BY <1>1, <1>2 DEF StackInv, Quiet
<1>5. TimerInv' BY <1>1, <1>2 DEF Orderly, TimerInv
<1>6. FnOf(This)' = FnOf(This) BY <1>1 DEF FnOf, This
<1>7. LoopInv' BY <1>1, <1>2, <1>6 DEF Orderly, LoopInv, Quiet
<1>8. GiveUpInv' BY <1>1 DEF Orderly, GiveUpInv, Quiet, IsOpen
<1> QED BY <1>3, <1>4, <1>5, <1>7, <1>8 DEF Orderly

LEMMA TimerOrderly ==
  ASSUME TypeInv, Orderly, ReconnectTimer
  PROVE  Orderly'
<1>1. /\ UNCHANGED <<readyState, skipReconnect, reconnection, engines, subs, reconnecting,
                     attempts, gaveUp, suspended, active>>
      /\ timers' = timers - 1 /\ timers > 0
  BY DEF ReconnectTimer, managerVars, userVars
<1>2. timers = 1 /\ reconnecting /\ Quiet /\ readyState = "closed" /\ ~skipReconnect
  BY <1>1 DEF Orderly, TimerInv
<1>3. Pushed("attempt", "reconnect") /\ tries' = tries + 1
  BY <1>2, PushFrame DEF ReconnectTimer, Frame, Frames, Callbacks, TypeInv
<1>4. Len(stack') = 1 /\ stack'[1].at = "attempt" BY <1>2, <1>3 DEF Pushed, Quiet
<1>5. EnginesInv'
  BY <1>1, <1>2, <1>4 DEF Orderly, EnginesInv, This, Doing, IsOpen, Quiet
<1>6. StackInv' BY <1>1, <1>2, <1>4 DEF StackInv, Quiet
<1>7. TimerInv' BY <1>1, <1>2, <1>3, <1>4 DEF Orderly, TimerInv, One, TypeInv, Typed
<1>8. LoopInv' /\ GiveUpInv' BY <1>1, <1>2 DEF LoopInv, GiveUpInv
<1> QED BY <1>5, <1>6, <1>7, <1>8 DEF Orderly

(* The listeners of an attempt return: it is made, unless it is called off. *)
LEMMA AttemptOrderly ==
  ASSUME TypeInv, TypeInv', Orderly, AttemptReturns
  PROVE  Orderly'
<1>1. Popped("attempt") BY PopFrame DEF AttemptReturns, TypeInv
<1>2. UNCHANGED <<reconnection, timers, reconnecting, attempts, tries, gaveUp, suspended,
                  active>>
  BY DEF AttemptReturns, retryVars, userVars
<1>3. Len(stack) > 0 /\ One("attempt") /\ Len(stack') = 0 /\ timers = 0
  BY <1>1, Top, InPhase
<1>4. CASE skipReconnect
  <2>1. UNCHANGED <<readyState, engines, subs, skipReconnect>>
    BY <1>4 DEF AttemptReturns, CalledOff
  <2>2. ~reconnecting /\ active = {}
    BY <1>3, <1>4 DEF Orderly, TimerInv, StackInv, Quiet
  <2>3. readyState = "closed" \/ suspended # {} BY <1>3 DEF Orderly, StackInv, One
  <2>4. EnginesInv'
    BY <1>2, <1>3, <2>1, <2>3
       DEF Orderly, EnginesInv, This, Doing, IsOpen, Quiet, Subscribed
  <2>5. StackInv' BY <1>2, <1>3, <2>2 DEF StackInv, Quiet
  <2>6. TimerInv' BY <1>2, <1>3, <2>2 DEF Orderly, TimerInv
  <2>7. LoopInv' /\ GiveUpInv'
    BY <1>2, <1>3, <2>1, <2>2, <2>3 DEF LoopInv, GiveUpInv, Quiet
  <2> QED BY <2>4, <2>5, <2>6, <2>7 DEF Orderly
<1>5. CASE ~skipReconnect
  <2>1. Open("reconnect") BY <1>5 DEF AttemptReturns, CalledOff
  <2>2. suspended = {} /\ readyState = "closed" /\ reconnecting
    BY <1>3, <1>5 DEF Orderly, StackInv, LoopInv, One
  <2>3. /\ Added /\ readyState' = "opening" /\ ~skipReconnect'
        /\ subs' = subs \cup {Attempt(Len(engines) + 1, "reconnect")}
    BY <2>1, <2>2, OpenShape DEF TypeInv, IsOpen
  <2>4. "reconnect" \in Callbacks BY DEF Callbacks
  <2>5. timers' = 0 /\ suspended' = {} BY <1>2, <1>3, <2>2
  <2>6. UNCHANGED <<tries, attempts, reconnecting, reconnection>> BY <1>2
  <2> QED BY <1>3, <2>2, <2>3, <2>4, <2>5, <2>6, MakesOrderly
<1> QED BY <1>4, <1>5

(* What the listeners of "close" and "error" leave on their return. *)
LEMMA ReturnsOrderly ==
  ASSUME TypeInv, Orderly, NEW at \in {"close", "error"}, Popped(at),
         UNCHANGED <<managerVars, engines, subs, suspended, active>>
  PROVE  /\ EnginesInv' /\ StackInv' /\ Len(stack) > 0
         /\ readyState = "closed" \/ suspended # {}
         /\ skipReconnect => active = {} /\ ~reconnecting
         /\ ~skipReconnect => Quiet' /\ readyState = "closed" /\ suspended = {}
<1>1. UNCHANGED <<readyState, skipReconnect, reconnection>> BY DEF managerVars
<1>2. /\ Len(stack) \in Nat \ {0} /\ Len(stack') = Len(stack) - 1
      /\ at # "close" => One(at) /\ Len(stack') = 0
      /\ \A i \in 1 .. Len(stack') : stack'[i] = stack[i]
  BY Top
<1>3. ~One("open") BY <1>2 DEF One, Popped
<1>4. /\ readyState = "closed" \/ suspended # {}
      /\ ~skipReconnect => Len(stack') = 0 /\ readyState = "closed" /\ suspended = {}
  BY <1>2, <1>3 DEF Orderly, StackInv
<1>5. skipReconnect => active = {} /\ ~reconnecting
  BY <1>2 DEF Orderly, StackInv, TimerInv, Quiet
<1>6. EnginesInv'
  BY <1>1, <1>4 DEF Orderly, EnginesInv, This, Doing, IsOpen, Quiet, Subscribed
<1>7. StackInv'
  <2>1. \A i \in 2 .. Len(stack') : stack'[i].at = "close"
    BY <1>2 DEF Orderly, StackInv
  <2>2. Len(stack') > 0 => skipReconnect BY <1>4
  <2>3. readyState' = "closed" \/ suspended' # {} BY <1>1, <1>4
  <2> QED BY <1>1, <1>5, <2>1, <2>2, <2>3 DEF StackInv
<1> QED BY <1>1, <1>2, <1>4, <1>5, <1>6, <1>7 DEF Quiet

LEMMA ClosedOrderly ==
  ASSUME TypeInv, TypeInv', Orderly, ClosedReturns
  PROVE  Orderly'
<1>1. Popped("close") BY PopFrame DEF ClosedReturns, TypeInv
<1>2. UNCHANGED <<managerVars, engines, subs, suspended, active>>
  BY DEF ClosedReturns, userVars
<1>3. /\ EnginesInv' /\ StackInv' /\ Len(stack) > 0
      /\ readyState = "closed" \/ suspended # {}
      /\ skipReconnect => active = {} /\ ~reconnecting
      /\ ~skipReconnect => Quiet' /\ readyState = "closed" /\ suspended = {}
  BY <1>1, <1>2, ReturnsOrderly
<1>4. timers = 0 /\ ~reconnecting
  <2>1. stack[1].at = "close" \/ skipReconnect
    <3>1. Len(stack) \in Nat BY Lengths DEF TypeInv
    <3> QED BY <1>1, <3>1 DEF Orderly, StackInv, Popped
  <2> QED BY <1>3, <2>1, InPhase DEF One
<1>5. UNCHANGED <<readyState, skipReconnect, reconnection>> BY <1>2 DEF managerVars
<1>6. CASE reconnection /\ ~skipReconnect
  <2>1. Reconnect(FALSE)
    <3>1. reconnecting = FALSE BY <1>4 DEF TypeInv, Typed
    <3> QED BY <1>6, <3>1 DEF ClosedReturns
  <2>2. attempts = 0 BY <1>3, <1>4, <1>6 DEF Orderly, TimerInv
  <2>3. tries = 0 BY <1>4, <2>2 DEF Orderly, TimerInv, TypeInv, Typed
  <2>4. attempts' = 1 /\ reconnecting' /\ timers' = 1 /\ tries' = 0
    <3>1. ~(FALSE \/ skipReconnect) /\ ~(attempts >= Attempts)
      BY <1>6, <2>2, AttemptsAssumption
    <3>2. /\ attempts' = attempts + 1 /\ reconnecting' = TRUE
          /\ timers' = timers + 1 /\ tries' = tries
      BY <2>1, <3>1 DEF Reconnect, GivesUp
    <3> QED BY <1>4, <2>2, <2>3, <3>2
  <2>5. TimerInv' BY <1>2, <1>3, <1>5, <1>6, <2>4, AttemptsAssumption DEF TimerInv
  <2> QED BY <1>3, <2>4, <2>5 DEF Orderly, LoopInv, GiveUpInv
<1>7. CASE ~(reconnection /\ ~skipReconnect)
  <2>1. /\ gaveUp' = (gaveUp \/ ~reconnection)
        /\ UNCHANGED <<timers, reconnecting, attempts, tries>>
    BY <1>7 DEF ClosedReturns, Stays
  <2>2. TimerInv' BY <1>2, <1>4, <2>1 DEF Orderly, TimerInv
  <2>3. LoopInv'
    <3>1. Len(stack') > 0 => skipReconnect' BY <1>3, <1>5 DEF Quiet
    <3> QED BY <1>2, <1>3, <1>5, <3>1 DEF LoopInv, Quiet
  <2>4. ~skipReconnect => gaveUp' BY <1>7, <2>1
  <2>5. GiveUpInv' BY <1>2, <1>3, <2>4 DEF GiveUpInv
  <2> QED BY <1>3, <2>2, <2>3, <2>5 DEF Orderly
<1> QED BY <1>6, <1>7

(* An attempt has failed and its callback is called: the next one is        *)
(* scheduled, or the manager gives up, unless it was called off.            *)
LEMMA RetriesOrderly ==
  ASSUME TypeInv, Orderly, Reconnect(FALSE), EnginesInv', StackInv',
         Len(stack) > 0, reconnection,
         UNCHANGED <<managerVars, engines, subs, suspended, active>>,
         readyState = "closed" \/ suspended # {},
         skipReconnect => active = {} /\ ~reconnecting /\ Len(stack') = 0,
         ~skipReconnect => Quiet' /\ readyState = "closed" /\ suspended = {}
  PROVE  Orderly'
<1>1. UNCHANGED <<readyState, skipReconnect, reconnection>> BY DEF managerVars
<1>2. timers = 0 /\ tries <= attempts /\ attempts <= Attempts
  BY InPhase DEF Orderly, TimerInv, TypeInv, Typed
<1>3. Typed /\ FALSE \in BOOLEAN BY DEF TypeInv
<1>4. CASE skipReconnect
  <2>1. reconnecting' = FALSE /\ UNCHANGED <<attempts, timers, tries, gaveUp>>
    BY <1>4 DEF Reconnect
  <2>2. TimerInv' BY <1>2, <1>4, <2>1 DEF Orderly, TimerInv
  <2>3. LoopInv' /\ GiveUpInv' BY <1>1, <1>4 DEF LoopInv, GiveUpInv, Quiet
  <2> QED BY <2>2, <2>3 DEF Orderly
<1>5. CASE ~skipReconnect /\ attempts >= Attempts
  <2>1. /\ attempts' = 0 /\ tries' = 0 /\ reconnecting' = FALSE /\ gaveUp'
        /\ timers' = timers
    BY <1>5 DEF Reconnect, GivesUp
  <2>2. TimerInv' BY <1>2, <2>1, AttemptsAssumption DEF TimerInv
  <2>3. LoopInv' /\ GiveUpInv' BY <1>1, <1>5, <2>1 DEF LoopInv, GiveUpInv, Quiet
  <2> QED BY <2>2, <2>3 DEF Orderly
<1>6. CASE ~skipReconnect /\ ~(attempts >= Attempts)
  <2>1. /\ attempts' = attempts + 1 /\ reconnecting' = TRUE
        /\ timers' = timers + 1 /\ tries' = tries
    BY <1>6 DEF Reconnect, GivesUp
  <2>2. attempts' <= Attempts /\ tries' + timers' <= attempts' /\ timers' = 1
    BY <1>2, <1>3, <1>6, <2>1, AttemptsAssumption DEF Typed
  <2>3. TimerInv' BY <1>1, <1>5, <1>6, <2>1, <2>2 DEF TimerInv, Quiet
  <2>4. LoopInv' /\ GiveUpInv' BY <2>1 DEF LoopInv, GiveUpInv
  <2> QED BY <2>3, <2>4 DEF Orderly
<1> QED BY <1>4, <1>5, <1>6

LEMMA ErrorOrderly ==
  ASSUME TypeInv, Orderly, ErrorReturns
  PROVE  Orderly'
<1>1. Popped("error") BY PopFrame DEF ErrorReturns, TypeInv
<1>2. UNCHANGED <<managerVars, engines, subs, suspended, active>>
  BY DEF ErrorReturns, userVars
<1>3. /\ EnginesInv' /\ StackInv' /\ Len(stack) > 0
      /\ readyState = "closed" \/ suspended # {}
      /\ skipReconnect => active = {} /\ ~reconnecting
      /\ ~skipReconnect => Quiet' /\ readyState = "closed" /\ suspended = {}
  BY <1>1, <1>2, ReturnsOrderly
<1>4. One("error") /\ Len(stack') = 0 /\ Fn = stack[1].fn BY <1>1, Top DEF One, Fn
<1>5. UNCHANGED <<readyState, skipReconnect, reconnection>> BY <1>2 DEF managerVars
<1>6. /\ timers = 0 /\ tries <= attempts /\ attempts <= Attempts
      /\ reconnecting => Fn = "reconnect"
      /\ ~reconnecting /\ suspended = {} => attempts = 0
      /\ reconnecting => reconnection
  BY <1>3, <1>4, InPhase DEF Orderly, TimerInv, One, TypeInv, Typed
<1>7. ASSUME ~reconnecting, UNCHANGED <<timers, reconnecting, attempts, tries>>,
             gaveUp' \/ skipReconnect \/ suspended # {}
      PROVE  Orderly'
  <2>1. TimerInv' BY <1>2, <1>5, <1>6, <1>7 DEF TimerInv, TypeInv, Typed
  <2>2. LoopInv' BY <1>2, <1>3, <1>4, <1>5 DEF LoopInv, Quiet
  <2>3. GiveUpInv' BY <1>2, <1>3, <1>7 DEF GiveUpInv, Quiet
  <2> QED BY <1>3, <2>1, <2>2, <2>3 DEF Orderly
<1>8. CASE Fn = "reconnect" /\ Reconnect(AttemptOver)
  <2>1. Reconnect(FALSE) BY <1>8 DEF AttemptOver
  <2>2. CASE reconnection
    BY <1>2, <1>3, <1>4, <2>1, <2>2, RetriesOrderly
  <2>3. CASE ~reconnection
    <3>1. ~reconnecting BY <1>6, <2>3
    <3>2. skipReconnect BY <1>3, <1>4, <1>8, <3>1 DEF Orderly, LoopInv, One
    <3>3. reconnecting' = FALSE /\ UNCHANGED <<attempts, timers, tries>>
      BY <2>1, <3>2 DEF Reconnect
    <3>4. reconnecting' = reconnecting BY <3>1, <3>3 DEF TypeInv, Typed
    <3> QED BY <1>7, <3>1, <3>2, <3>3, <3>4
  <2> QED BY <2>2, <2>3
<1>9. CASE /\ Fn = "user" /\ gaveUp' = TRUE
           /\ UNCHANGED <<timers, reconnecting, attempts, tries>>
  BY <1>6, <1>7, <1>9
<1>10. CASE /\ Fn = "none"
            /\ IF ~reconnecting /\ reconnection /\ attempts = 0
               THEN Reconnect(reconnecting) ELSE Stays
  <2>1. ~reconnecting BY <1>6, <1>10
  <2>2. CASE reconnection /\ attempts = 0
    <3>1. Reconnect(FALSE)
      <4>1. reconnecting = FALSE BY <2>1 DEF TypeInv, Typed
      <4> QED BY <1>10, <2>2, <4>1
    <3> QED BY <1>2, <1>3, <1>4, <2>2, <3>1, RetriesOrderly
  <2>3. CASE ~(reconnection /\ attempts = 0)
    <3>1. Stays BY <1>10, <2>3
    <3>2. gaveUp' \/ suspended # {} BY <1>6, <2>1, <2>3, <3>1 DEF Stays
    <3> QED BY <1>7, <2>1, <3>1, <3>2 DEF Stays
  <2> QED BY <2>2, <2>3
<1> QED BY <1>8, <1>9, <1>10 DEF ErrorReturns

LEMMA OpenReturnsOrderly ==
  ASSUME TypeInv, Orderly, OpenReturns
  PROVE  Orderly'
<1>1. Popped("open") BY PopFrame DEF OpenReturns, TypeInv
<1>2. UNCHANGED <<readyState, skipReconnect, reconnection, engines, timers, gaveUp, suspended,
                  active>>
  BY DEF OpenReturns, managerVars, userVars
<1>3. /\ Len(stack) > 0 /\ One("open") /\ Len(stack') = 0 /\ Fn = stack[1].fn
      /\ timers = 0
  BY <1>1, Top, InPhase DEF One, Fn
<1>4. /\ subs' = subs \cup {Live(This)}
      /\ IF Fn = "reconnect"
         THEN reconnecting' = FALSE /\ attempts' = 0 /\ tries' = 0
         ELSE UNCHANGED <<reconnecting, attempts, tries>>
  BY DEF OpenReturns
<1>5. reconnecting' = FALSE
  <2>1. reconnecting => Fn = "reconnect" BY <1>3, InPhase DEF One
  <2> QED BY <1>4, <2>1 DEF TypeInv, Typed
<1>6. Subscribed("live", This)'
  <2>1. Live(This) \in subs' BY <1>4
  <2>2. This' = This BY <1>2 DEF This
  <2> QED BY <2>1, <2>2 DEF Subscribed, Live
<1>7. \/ skipReconnect /\ active = {} /\ (readyState = "closed" \/ suspended # {})
      \/ /\ ~skipReconnect /\ readyState = "open" /\ suspended = {}
         /\ Len(engines) > 0 /\ engines[This] = "open"
  BY <1>3 DEF Orderly, StackInv, Quiet, One
<1>8. EnginesInv'
  <2>1. Quiet' /\ IsOpen' => readyState = "open" /\ ~skipReconnect
                             /\ Len(engines) > 0 /\ engines[This] = "open"
    BY <1>2, <1>7 DEF Quiet, IsOpen
  <2>2. /\ suspended' \subseteq {This}' /\ \A e \in suspended' : engines'[e] = "closing"
        /\ \A e \in 1 .. Len(engines') : Doing(e)' => e = This' /\ readyState' # "closed"
    BY <1>2 DEF Orderly, EnginesInv, Doing, This
  <2>3. readyState' = "opening" => ~Quiet' BY <1>2, <2>1 DEF IsOpen
  <2> QED BY <1>2, <1>6, <2>1, <2>2, <2>3 DEF EnginesInv, IsOpen, This
<1>9. StackInv' BY <1>2, <1>3, <1>7 DEF StackInv, Quiet
<1>10. TimerInv'
  <2>1. tries' <= attempts' /\ attempts' <= Attempts /\ tries' \in Nat
    BY <1>3, <1>4, AttemptsAssumption DEF Orderly, TimerInv, TypeInv, Typed
  <2>2. suspended = {} => attempts' = 0
    <3>1. ~reconnecting /\ suspended = {} => attempts = 0 BY DEF Orderly, TimerInv
    <3>2. reconnecting => Fn = "reconnect" BY <1>3, InPhase DEF One
    <3> QED BY <1>4, <3>1, <3>2
  <2> QED BY <1>2, <1>3, <1>5, <2>1, <2>2 DEF TimerInv
<1>11. LoopInv' BY <1>2, <1>3, <1>7 DEF LoopInv, Quiet
<1>12. GiveUpInv' BY <1>2, <1>7 DEF GiveUpInv, IsOpen
<1> QED BY <1>8, <1>9, <1>10, <1>11, <1>12 DEF Orderly

LEMMA CloseReturnsOrderly ==
  ASSUME TypeInv, Orderly, NEW e \in suspended, CloseReturns(e)
  PROVE  Orderly'
<1>1. /\ UNCHANGED <<subs, timers, reconnecting, gaveUp, skipReconnect, reconnection, active>>
      /\ engines' = [engines EXCEPT ![e] = "closed"]
      /\ suspended' = suspended \ {e} /\ stack = <<>>
      /\ attempts' = 0 /\ tries' = 0 /\ readyState' = "closed" /\ Push("close", "none")
  BY DEF CloseReturns, CloseRest, MarkClosed, userVars
<1>2. NowIs(e, "closed") /\ e = This /\ suspended' = {}
  BY <1>1, SetState DEF TypeInv, Linked, EngineStates, Orderly, EnginesInv
<1>3. Len(stack') = 1 /\ stack'[1].at = "close"
  <2>1. Pushed("close", "none") BY <1>1, PushFrame DEF Frame, Frames, Callbacks, TypeInv
  <2>2. Len(stack) = 0 BY <1>1, EmptySeq
  <2> QED BY <2>1, <2>2 DEF Pushed
<1>4. timers = 0 /\ ~reconnecting
  BY DEF Orderly, TimerInv, Quiet, TypeInv, Typed
<1>5. EnginesInv'
  <2>1. \A f \in 1 .. Len(engines) : ~Doing(f)'
    BY <1>2 DEF NowIs, Doing, Orderly, EnginesInv
  <2> QED BY <1>1, <1>2, <2>1 DEF EnginesInv, IsOpen, NowIs
<1>6. StackInv' BY <1>1, <1>2, <1>3 DEF Orderly, StackInv, Quiet
<1>7. TimerInv' BY <1>1, <1>4, AttemptsAssumption DEF TimerInv
<1>8. LoopInv' /\ GiveUpInv' BY <1>1, <1>3 DEF LoopInv, GiveUpInv, Quiet
<1> QED BY <1>5, <1>6, <1>7, <1>8 DEF Orderly

LEMMA EngineOpensOrderly ==
  ASSUME TypeInv, Orderly, NEW e \in DOMAIN engines, EngineOpens(e)
  PROVE  Orderly'
<1>1. /\ e \in 1 .. Len(engines) /\ engines[e] = "opening" /\ Len(stack) = 0
      /\ engines' = [engines EXCEPT ![e] = "open"]
      /\ UNCHANGED <<skipReconnect, reconnection, reconnecting, attempts, tries, gaveUp,
                     suspended, active>>
  BY Lengths DEF EngineOpens, TypeInv, userVars
<1>2. /\ e = This /\ Quiet /\ ~skipReconnect /\ timers = 0 /\ Subscribed("attempt", e)
      /\ readyState = "opening" /\ (reconnecting <=> FnOf(e) = "reconnect")
  BY <1>1, InUse DEF Doing
<1>3. NowIs(e, "open") BY <1>1, SetState DEF TypeInv, EngineStates
<1>4. /\ timers' = 0 /\ readyState' = "open" /\ Push("open", FnOf(e))
  BY <1>2 DEF EngineOpens, Cleanup
<1>5. Len(stack') = 1 /\ stack'[1].at = "open" /\ stack'[1].fn = FnOf(e)
  <2>1. Pushed("open", FnOf(e))
    BY <1>2, <1>4, PushFrame, SubscribedFn DEF Frame, Frames, TypeInv
  <2> QED BY <1>1, <2>1 DEF Pushed
<1>6. Len(engines') = Len(engines) /\ Len(engines) > 0 /\ engines'[This'] = "open"
  BY <1>1, <1>2, <1>3 DEF NowIs, This
<1>7. EnginesInv'
  <2>1. \A f \in 1 .. Len(engines) : Doing(f)' => f = This
    BY <1>2, <1>3 DEF NowIs, Doing, Orderly, EnginesInv
  <2> QED BY <1>1, <1>2, <1>4, <1>5, <1>6, <2>1 DEF EnginesInv, Quiet, This
<1>8. StackInv' BY <1>1, <1>2, <1>4, <1>5, <1>6 DEF StackInv, Quiet, One
<1>9. TimerInv'
  BY <1>1, <1>2, <1>4, <1>5 DEF Orderly, TimerInv, One, TypeInv, Typed
<1>10. LoopInv' /\ GiveUpInv' BY <1>4, <1>5 DEF LoopInv, GiveUpInv, Quiet
<1> QED BY <1>7, <1>8, <1>9, <1>10 DEF Orderly

LEMMA OnErrorOrderly ==
  ASSUME TypeInv, Orderly, NEW e \in DOMAIN engines, OnError(e)
  PROVE  Orderly'
<1>1. /\ e \in 1 .. Len(engines) /\ engines[e] = "opening" /\ Len(stack) = 0
      /\ engines' = [engines EXCEPT ![e] = "closed"]
      /\ UNCHANGED <<skipReconnect, reconnection, reconnecting, attempts, tries, gaveUp,
                     suspended, active>>
      /\ timers' = 0 /\ readyState' = "closed" /\ Push("error", FnOf(e))
  BY Lengths DEF OnError, TypeInv, userVars, Cleanup
<1>2. /\ e = This /\ Quiet /\ ~skipReconnect /\ timers = 0 /\ Subscribed("attempt", e)
      /\ readyState = "opening" /\ (reconnecting <=> FnOf(e) = "reconnect")
  BY <1>1, InUse DEF Doing
<1>3. NowIs(e, "closed") BY <1>1, SetState DEF TypeInv, EngineStates
<1>4. Len(stack') = 1 /\ stack'[1].at = "error" /\ stack'[1].fn = FnOf(e)
  <2>1. Pushed("error", FnOf(e))
    BY <1>1, <1>2, PushFrame, SubscribedFn DEF Frame, Frames, TypeInv
  <2> QED BY <1>1, <2>1 DEF Pushed
<1>5. EnginesInv'
  <2>1. \A f \in 1 .. Len(engines) : ~Doing(f)'
    BY <1>2, <1>3 DEF NowIs, Doing, Orderly, EnginesInv
  <2> QED BY <1>1, <1>2, <1>3, <2>1 DEF EnginesInv, Quiet, IsOpen, NowIs
<1>6. StackInv' BY <1>1, <1>2, <1>4 DEF StackInv, Quiet, One
<1>7. TimerInv'
  BY <1>1, <1>2, <1>4 DEF Orderly, TimerInv, One, TypeInv, Typed
<1>8. LoopInv' /\ GiveUpInv' BY <1>1, <1>2, <1>4 DEF LoopInv, GiveUpInv, Quiet
<1> QED BY <1>5, <1>6, <1>7, <1>8 DEF Orderly

LEMMA EngineStallsOrderly ==
  ASSUME TypeInv, Orderly, NEW e \in DOMAIN engines, EngineStalls(e)
  PROVE  Orderly'
<1>1. /\ e \in 1 .. Len(engines) /\ engines[e] = "open" /\ Len(stack) = 0
      /\ engines' = [engines EXCEPT ![e] = "stalling"]
      /\ UNCHANGED <<readyState, skipReconnect, reconnection, subs, timers, reconnecting,
                     attempts, tries, gaveUp, stack, suspended, active>>
  BY Lengths DEF EngineStalls, TypeInv, managerVars, retryVars, userVars
<1>2. /\ e = This /\ Quiet /\ ~skipReconnect /\ timers = 0 /\ Subscribed("live", e)
      /\ readyState = "open" /\ ~reconnecting
  BY <1>1, InUse DEF Doing
<1>3. NowIs(e, "stalling") BY <1>1, SetState DEF TypeInv, EngineStates
<1>4. EnginesInv'
  <2>1. \A f \in 1 .. Len(engines) : Doing(f)' => f = This
    BY <1>2, <1>3 DEF NowIs, Doing, Orderly, EnginesInv
  <2>2. This' = This /\ Subscribed("live", This)' /\ Len(engines') > 0
    BY <1>1, <1>2, <1>3 DEF NowIs, This, Subscribed
  <2> QED BY <1>1, <1>2, <1>3, <2>1, <2>2 DEF EnginesInv, Quiet, NowIs, This
<1>5. StackInv' BY <1>1, <1>2 DEF StackInv, Quiet
<1>6. TimerInv' BY <1>1, <1>2 DEF Orderly, TimerInv
<1>7. LoopInv' /\ GiveUpInv' BY <1>1, <1>2 DEF LoopInv, GiveUpInv, Quiet, IsOpen
<1> QED BY <1>4, <1>5, <1>6, <1>7 DEF Orderly

LEMMA EngineClosesOrderly ==
  ASSUME TypeInv, Orderly, NEW e \in DOMAIN engines, EngineCloses(e)
  PROVE  Orderly'
<1> DEFINE es == [engines EXCEPT ![e] = "closed"]
<1>1. /\ e \in 1 .. Len(engines) /\ Len(stack) = 0
      /\ \/ engines[e] \in {"open", "stalling"}
         \/ engines[e] = "opening" /\ ~Subscribed("attempt", e)
      /\ UNCHANGED <<skipReconnect, reconnection, reconnecting, active>>
  BY Lengths DEF EngineCloses, TypeInv, userVars
<1>2. /\ e = This /\ Quiet /\ ~skipReconnect /\ Subscribed("live", e) /\ ~reconnecting
  BY <1>1, InUse DEF Doing
<1>3. OnClose(es) BY <1>2 DEF EngineCloses
<1>4. /\ es \in Seq(EngineStates) /\ Len(es) = Len(engines) /\ es[e] = "closed"
      /\ \A f \in 1 .. Len(engines) : f # e => es[f] = engines[f]
  BY <1>1, ExceptSeq, Lengths DEF TypeInv, Typed, EngineStates
<1> HIDE DEF es
<1>5. timers' = 0 /\ Len(engines') = Len(engines) /\ (Waits(es) \/ Finishes(es))
  BY <1>3, <1>4, OnCloseShape DEF TypeInv
<1>6. Finishes(es) BY <1>2, <1>4, <1>5 DEF Waits, This
<1>7. \A f \in 1 .. Len(engines) : es[f] = engines[f] \/ (es[f] = "closed" /\ Doing(f))
  BY <1>1, <1>4 DEF Doing
<1>8. reconnecting' = FALSE BY <1>1, <1>2 DEF TypeInv, Typed
<1> QED BY <1>1, <1>2, <1>4, <1>5, <1>6, <1>7, <1>8, FinishesOrderly DEF Quiet

LEMMA ParseErrorOrderly ==
  ASSUME TypeInv, Orderly, NEW e \in DOMAIN engines, ParseError(e)
  PROVE  Orderly'
<1>1. /\ e \in 1 .. Len(engines) /\ engines[e] = "open" /\ Len(stack) = 0
      /\ UNCHANGED <<skipReconnect, reconnection, reconnecting, active>>
      /\ OnClose(engines) /\ engines \in Seq(EngineStates)
  BY Lengths DEF ParseError, TypeInv, Typed, userVars
<1>2. e = This /\ ~skipReconnect /\ ~reconnecting BY <1>1, InUse DEF Doing
<1>3. /\ timers' = 0 /\ Len(engines') = Len(engines)
      /\ Waits(engines) \/ Finishes(engines)
  BY <1>1, OnCloseShape DEF TypeInv
<1>4. Waits(engines) BY <1>1, <1>2, <1>3 DEF Finishes, This
<1>5. reconnecting' = FALSE BY <1>1, <1>2 DEF TypeInv, Typed
<1> QED BY <1>1, <1>2, <1>3, <1>4, <1>5, WaitsOrderly

(* Every step of a patient user's manager keeps it orderly; patience, once  *)
(* lost, does not return. *)
LEMMA NextOrderly == TypeInv /\ PatientInv /\ [Next]_vars => PatientInv'
<1> SUFFICES ASSUME TypeInv, PatientInv, [Next]_vars, patient' PROVE Orderly'
  BY DEF PatientInv
<1>1. TypeInv' BY NextType
<1>2. Orderly
  <2>1. patient
    <3>1. CASE \E fn \in {"none", "user"} : UserOpens(fn) BY <3>1 DEF UserOpens
    <3>2. CASE \E n \in Namespaces : SocketConnects(n) BY <3>2 DEF SocketConnects
    <3>3. CASE \E n \in Namespaces : SocketDisconnects(n)
      BY <3>3 DEF SocketDisconnects, TypeInv, Typed
    <3>4. CASE \E v \in BOOLEAN : SetReconnection(v) BY <3>4 DEF SetReconnection
    <3>5. CASE Handlers \/ Resumes \/ Answers \/ TimesOut \/ Losses \/ ReconnectTimer
      BY <3>5
         DEF Handlers, AttemptReturns, ClosedReturns, OpenReturns, ErrorReturns, Resumes,
             CloseReturns, Answers, TimesOut, EngineOpens, EngineFails, AttemptTimesOut,
             OnError, Losses, EngineStalls, EngineCloses, ParseError, ReconnectTimer, userVars
    <3>6. CASE UNCHANGED vars BY <3>6 DEF vars, userVars
    <3> QED BY <3>1, <3>2, <3>3, <3>4, <3>5, <3>6 DEF Next, User
  <2> QED BY <2>1 DEF PatientInv
<1>3. CASE User
  BY <1>1, <1>2, <1>3, UserOpensOrderly, SocketConnectsOrderly, SocketDisconnectsOrderly,
     SetReconnectionOrderly DEF User
<1>4. CASE Handlers
  BY <1>1, <1>2, <1>4, AttemptOrderly, ClosedOrderly, OpenReturnsOrderly, ErrorOrderly
     DEF Handlers
<1>5. CASE Resumes BY <1>2, <1>5, CloseReturnsOrderly DEF Resumes
<1>6. CASE Answers \/ TimesOut
  BY <1>2, <1>6, EngineOpensOrderly, OnErrorOrderly
     DEF Answers, TimesOut, EngineFails, AttemptTimesOut
<1>7. CASE Losses
  BY <1>2, <1>7, EngineStallsOrderly, EngineClosesOrderly, ParseErrorOrderly DEF Losses
<1>8. CASE ReconnectTimer BY <1>2, <1>8, TimerOrderly
<1>9. CASE UNCHANGED vars
  <2>1. UNCHANGED <<managerVars, engines, subs, timers, reconnecting, attempts, tries,
                    stack, suspended>> /\ UNCHANGED <<active, gaveUp>>
    BY <1>9 DEF vars, retryVars, userVars
  <2>2. GiveUpInv'
    BY <1>2, <2>1 DEF Orderly, GiveUpInv, Quiet, IsOpen, managerVars
  <2>3. ~Quiet /\ skipReconnect => active' = {} BY <1>2, <2>1 DEF Orderly, StackInv
  <2> QED BY <1>2, <2>1, <2>2, <2>3, SameOrderly
<1> QED BY <1>3, <1>4, <1>5, <1>6, <1>7, <1>8, <1>9 DEF Next

LEMMA InitPatient == Init => PatientInv
BY InitOrderly DEF PatientInv

(***************************************************************************)
(* What a patient user can rely on                                          *)
(***************************************************************************)
LEMMA OrderlyOneTimer == TypeInv /\ PatientInv => OneTimer
BY DEF TypeInv, Typed, PatientInv, Orderly, TimerInv, OneTimer

(* At most one reconnection timer is pending (manager.ts:308, reconnect and *)
(* cleanup), with any number of sockets, attempts, engines and calls.       *)
THEOREM OneTimerCorrect == Spec => []OneTimer
BY InitType, NextType, InitPatient, NextOrderly, OrderlyOneTimer, PTL DEF Spec

LEMMA OrderlyAttempts == TypeInv /\ PatientInv => AttemptsBounded
BY AttemptsAssumption
   DEF TypeInv, Typed, PatientInv, Orderly, TimerInv, AttemptsBounded

(* A reconnection makes at most reconnectionAttempts attempts, for every    *)
(* value of the option (reconnect and its timer). *)
THEOREM AttemptsBoundedCorrect == Spec => []AttemptsBounded
BY InitType, NextType, InitPatient, NextOrderly, OrderlyAttempts, PTL DEF Spec

LEMMA OrderlyNoLeak == TypeInv /\ PatientInv => NoLeakedEngine
BY Lengths DEF TypeInv, PatientInv, Orderly, EnginesInv, NoLeakedEngine

(* No engine but the manager's is in use: open, onclose and onError never   *)
(* leave one behind, however many are made. *)
THEOREM NoLeakCorrect == Spec => []NoLeakedEngine
BY InitType, NextType, InitPatient, NextOrderly, OrderlyNoLeak, PTL DEF Spec

LEMMA OrderlyBusy == TypeInv /\ PatientInv => NeverIdle
<1> SUFFICES ASSUME TypeInv, PatientInv, patient, stack = <<>>, suspended = {}, active # {},
                    reconnection
             PROVE  Busy
  BY DEF NeverIdle
<1>1. Orderly /\ Quiet /\ Len(stack) = 0 BY Lengths DEF PatientInv, Quiet, TypeInv
<1>2. CASE IsOpen
  <2>1. Len(engines) > 0 /\ engines # <<>> BY <1>1, <1>2, Lengths DEF Orderly, EnginesInv, TypeInv
  <2> QED BY <1>1, <1>2, <2>1 DEF Orderly, EnginesInv, IsOpen, Busy, Listens, Doing
<1>3. CASE ~IsOpen /\ reconnecting
  <2>1. timers = 1 BY <1>1, <1>3 DEF Orderly, TimerInv, One, IsOpen
  <2> QED BY <2>1 DEF Busy
<1>4. CASE ~IsOpen /\ ~reconnecting
  BY <1>1, <1>4 DEF Orderly, GiveUpInv, Busy
<1> QED BY <1>2, <1>3, <1>4

(* A manager with an active socket is never left idle: it listens to an     *)
(* engine, waits for its timer or has told the user that it gave up         *)
(* (onclose, onError, reconnect, maybeReconnectOnOpen).                      *)
THEOREM NeverIdleCorrect == Spec => []NeverIdle
BY InitType, NextType, InitPatient, NextOrderly, OrderlyBusy, PTL DEF Spec
=============================================================================
