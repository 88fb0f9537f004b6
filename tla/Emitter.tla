-------------------------------- MODULE Emitter --------------------------------
(***************************************************************************)
(* One event of an Emitter (component-emitter.ts): its listeners and the    *)
(* emissions that are running.                                              *)
(*                                                                          *)
(* emitReserved runs all listeners in one new thread, over the live array.  *)
(* A listener may call the emitter, and it may wait: between two listeners  *)
(* of an emission anything can happen, other emissions included.            *)
(*                                                                          *)
(* Arrays are objects: an emission keeps the one it began with even when    *)
(* the map has forgotten it.  `heap' holds every array ever made, and       *)
(* `callbacks' the one that the map has for the event, 0 for none.          *)
(***************************************************************************)
EXTENDS Naturals, Sequences, FiniteSets, SequencesExt

CONSTANTS
  Listeners,        \* the functions that are registered
  MaxRegistrations, \* bound: calls of on() and once()
  MaxEmits          \* bound: emissions

ASSUME EmitterBounds == MaxRegistrations \in Nat /\ MaxEmits \in Nat

VARIABLES
  heap, callbacks,
  emissions,  \* every emission, with the listeners it has called
  made,       \* registrations so far: they are numbered
  removed,    \* history: registrations that off(ev, ...) removed
  forgotten   \* history: registrations that off() made the map forget

vars == <<heap, callbacks, emissions, made, removed, forgotten>>

(* Operators named Fault... are not part of the model: each is a plausible *)
(* bug, which a mutated run puts in the place of the definition after it.  *)
FaultRegistration(l, once) ==
  [fn |-> IF once THEN "cb" ELSE l, once |-> once, number |-> made + 1]
(* A listener that once() wraps is an object with its function.             *)
Registration(l, once) == [fn |-> l, once |-> once, number |-> made + 1]

Numbers(list) == {list[i].number : i \in DOMAIN list}
Current == IF callbacks = 0 THEN <<>> ELSE heap[callbacks]

(***************************************************************************)
(* Registration                                                             *)
(***************************************************************************)
FaultPush(list, r) == <<r>> \o list
Push(list, r) == Append(list, r)

(* on(): the array is made when the map has none.                           *)
Register(l, once) ==
  /\ made < MaxRegistrations
  /\ made' = made + 1
  /\ IF callbacks = 0
     THEN /\ heap' = Append(heap, Push(<<>>, Registration(l, once)))
          /\ callbacks' = Len(heap) + 1
     ELSE /\ heap' = [heap EXCEPT ![callbacks] = Push(@, Registration(l, once))]
          /\ UNCHANGED callbacks
  /\ UNCHANGED <<emissions, removed, forgotten>>

On(l)   == Register(l, FALSE)
Once(l) == Register(l, TRUE)

(***************************************************************************)
(* Removal                                                                  *)
(***************************************************************************)
(* What a removal at the places `at' of the current array means to the      *)
(* emissions that are past them: the rest of the array moves towards them.  *)
Shifted(places) ==
  [e \in DOMAIN emissions |->
     IF emissions[e].array = callbacks
     THEN [emissions[e] EXCEPT !.shifts =
             @ + Cardinality({i \in places : i <= emissions[e].at})]
     ELSE emissions[e]]

FaultForgets(list) == TRUE
Forgets(list) == list = <<>>

(* The first registration of l, by its function. *)
First(l) ==
  {i \in DOMAIN Current : /\ Current[i].fn = l
                          /\ \A j \in 1 .. i - 1 : Current[j].fn # l}

FaultSpliced(list, i) == IF i < Len(list) THEN RemoveAt(list, i + 1) ELSE list
Spliced(list, i) == RemoveAt(list, i)

(* off(ev, l) removes one registration; the map forgets an array that is    *)
(* empty then.                                                              *)
OffFound(l) ==
  /\ \E i \in First(l) :
       LET rest == Spliced(Current, i)
       IN /\ heap' = [heap EXCEPT ![callbacks] = rest]
          /\ callbacks' = IF Forgets(rest) THEN 0 ELSE callbacks
          /\ emissions' = Shifted({i})
          /\ removed' = removed \cup {Current[i].number}
  /\ UNCHANGED <<made, forgotten>>

(* off(ev): the array is emptied, and stays in the map.                     *)
OffEvent ==
  /\ Current # <<>>
  /\ heap' = [heap EXCEPT ![callbacks] = <<>>]
  /\ emissions' = Shifted(DOMAIN Current)
  /\ removed' = removed \cup Numbers(Current)
  /\ UNCHANGED <<callbacks, made, forgotten>>

(* off(): the map is emptied, and the array stays as it is.                 *)
OffAll ==
  /\ callbacks # 0
  /\ callbacks' = 0
  /\ forgotten' = forgotten \cup Numbers(Current)
  /\ UNCHANGED <<heap, emissions, made, removed>>

(* off(ev, l) for an l that has none forgets an empty array all the same.   *)
OffMissed(l) == First(l) = {} /\ Forgets(Current) /\ OffAll

Off(l) == OffFound(l) \/ OffMissed(l)

(***************************************************************************)
(* Emission                                                                 *)
(***************************************************************************)
Emission(array, at, called, status) ==
  [array |-> array, at |-> at, called |-> called, status |-> status, shifts |-> 0]

(* The first listener runs before emit() returns. *)
Emit ==
  /\ Len(emissions) < MaxEmits
  /\ callbacks # 0
  /\ emissions' = Append(emissions,
       IF Current = <<>> THEN Emission(callbacks, 0, <<>>, "done")
       ELSE Emission(callbacks, 1, <<Current[1].number>>, "running"))
  /\ UNCHANGED <<heap, callbacks, made, removed, forgotten>>

FaultNextPlace(e) == emissions[e].at + 2
NextPlace(e) == emissions[e].at + 1

NextListener(e) == heap[emissions[e].array][NextPlace(e)].number

(* The listener that an emission is in returns: the next one is called.     *)
Continue(e) ==
  /\ emissions[e].status = "running"
  /\ emissions' =
       IF NextPlace(e) <= Len(heap[emissions[e].array])
       THEN [emissions EXCEPT ![e].at = NextPlace(e),
                              ![e].called = Append(@, NextListener(e))]
       ELSE [emissions EXCEPT ![e].status = "done"]
  /\ UNCHANGED <<heap, callbacks, made, removed, forgotten>>

(* It throws: the thread of the emission ends. *)
Throw(e) ==
  /\ emissions[e].status = "running"
  /\ emissions' = [emissions EXCEPT ![e].status = "failed"]
  /\ UNCHANGED <<heap, callbacks, made, removed, forgotten>>

Init ==
  /\ heap = <<>> /\ callbacks = 0
  /\ emissions = <<>>
  /\ made = 0 /\ removed = {} /\ forgotten = {}

Next ==
  \/ \E l \in Listeners : On(l) \/ Once(l) \/ Off(l)
  \/ OffEvent \/ OffAll \/ Emit
  \/ \E e \in DOMAIN emissions : Continue(e) \/ Throw(e)

Spec == Init /\ [][Next]_vars

(***************************************************************************)
(* Properties                                                               *)
(***************************************************************************)
(* The state is well formed. *)
TypeOK ==
  /\ \A a \in DOMAIN heap : \A i \in DOMAIN heap[a] :
       /\ heap[a][i].fn \in Listeners /\ heap[a][i].once \in BOOLEAN
       /\ heap[a][i].number \in 1 .. made
  /\ callbacks \in 0 .. Len(heap)
  /\ \A e \in DOMAIN emissions :
       /\ emissions[e].array \in DOMAIN heap
       /\ emissions[e].at \in Nat /\ emissions[e].shifts \in Nat
       /\ emissions[e].called \in Seq(1 .. made)
       /\ emissions[e].status \in {"running", "done", "failed"}
  /\ made \in 0 .. MaxRegistrations
  /\ removed \subseteq 1 .. made /\ forgotten \subseteq 1 .. made

(* An emission calls listeners in the order in which they were registered,  *)
(* and none of them twice, whatever they do to the list it runs over        *)
(* (for ... of the live array, emitReserved).                               *)
InRegistrationOrder ==
  \A e \in DOMAIN emissions : LET c == emissions[e].called
    IN \A i, j \in DOMAIN c : i < j => c[i] < c[j]

Passed(e) ==
  {n \in DOMAIN heap[emissions[e].array] : n <= emissions[e].at}
Missed(e) ==
  {n \in Passed(e) : heap[emissions[e].array][n].number \notin ToSet(emissions[e].called)}

(* A listener is passed over only when one that was called already has been *)
(* removed: one for each removal at most, and never without one.            *)
MissedByRemoval ==
  \A e \in DOMAIN emissions : Cardinality(Missed(e)) <= emissions[e].shifts

(* A listener that is registered and was not removed is in the array that   *)
(* the next emission runs over (on, off): none is left in an array that the *)
(* map has forgotten.                                                       *)
NoneOrphaned ==
  1 .. made \subseteq Numbers(Current) \cup removed \cup forgotten

(* After off(ev, ...) has returned, no emission calls the listener again,   *)
(* not even one that was running (emitReserved does not copy the list).     *)
(* off() without an event gives no such promise.                            *)
OffIsFinal ==
  [][\A e \in DOMAIN emissions :
       LET c == emissions'[e].called
       IN Len(c) > Len(emissions[e].called) => Last(c) \notin removed]_vars
=============================================================================
