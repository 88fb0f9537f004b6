----------------------------- MODULE Emitter_proofs -----------------------------
(***************************************************************************)
(* Proofs about Emitter: types, the order in which an emission calls its    *)
(* listeners, that no registration is lost, and that a removal is final,    *)
(* for any set of listeners and any number of registrations and emissions.  *)
(***************************************************************************)
EXTENDS Emitter, SequenceTheorems, FiniteSetTheorems, TLAPS

(* A registered listener, and an emission. *)
Entry == [fn : Listeners, once : BOOLEAN, number : Nat]
Running == [array : Nat, at : Nat, called : Seq(Nat),
            status : {"running", "done", "failed"}, shifts : Nat]

Typed ==
  /\ heap \in Seq(Seq(Entry)) /\ callbacks \in 0 .. Len(heap)
  /\ emissions \in Seq(Running)
  /\ made \in 0 .. MaxRegistrations

(* Numbers are those of registrations, and emissions run over arrays.       *)
Numbered ==
  /\ \A a \in DOMAIN heap : \A i \in DOMAIN heap[a] : heap[a][i].number \in 1 .. made
  /\ \A e \in DOMAIN emissions :
       /\ emissions[e].array \in DOMAIN heap
       /\ \A k \in DOMAIN emissions[e].called : emissions[e].called[k] \in 1 .. made
  /\ removed \subseteq 1 .. made /\ forgotten \subseteq 1 .. made

(* Every array is in the order of registration. *)
Sorted ==
  \A a \in DOMAIN heap : \A i, j \in DOMAIN heap[a] :
     i < j => heap[a][i].number < heap[a][j].number

(* What an emission has called was registered before all that lies ahead.   *)
Ahead ==
  \A e \in DOMAIN emissions : \A k \in DOMAIN emissions[e].called :
    \A i \in DOMAIN heap[emissions[e].array] :
      i > emissions[e].at
        => emissions[e].called[k] < heap[emissions[e].array][i].number

(* A registration is in one array only, and in none once it was removed.    *)
Distinct ==
  \A a, b \in DOMAIN heap : a # b =>
    \A i \in DOMAIN heap[a], j \in DOMAIN heap[b] : heap[a][i].number # heap[b][j].number
Live == \A a \in DOMAIN heap : \A i \in DOMAIN heap[a] : heap[a][i].number \notin removed

(* The types with what they rest on, and the invariant of arrays and        *)
(* emissions.                                                               *)
TypeInv == Typed /\ Numbered
ListInv == TypeInv /\ Sorted /\ Ahead /\ Distinct /\ Live /\ InRegistrationOrder

(***************************************************************************)
(* Sequences                                                                *)
(***************************************************************************)
(* What splice leaves: the rest moves one place down. *)
LEMMA Splice ==
  ASSUME NEW S, NEW s \in Seq(S), NEW i \in DOMAIN s
  PROVE  /\ RemoveAt(s, i) \in Seq(S)
         /\ Len(RemoveAt(s, i)) = Len(s) - 1
         /\ DOMAIN RemoveAt(s, i) = 1 .. Len(s) - 1
         /\ \A j \in 1 .. Len(s) - 1 : RemoveAt(s, i)[j] = IF j < i THEN s[j] ELSE s[j + 1]
<1> DEFINE u == SubSeq(s, 1, i - 1)
           v == SubSeq(s, i + 1, Len(s))
<1>1. Len(s) \in Nat /\ s \in [1 .. Len(s) -> S] /\ i \in 1 .. Len(s)
  BY LenProperties
<1>2. u \in Seq(S) /\ Len(u) = i - 1 /\ \A j \in 1 .. i - 1 : u[j] = s[j]
  BY <1>1, SubSeqProperties
<1>3. v \in Seq(S) /\ Len(v) = Len(s) - i /\ \A j \in 1 .. Len(s) - i : v[j] = s[i + j]
  <2>1. i + 1 \in Int /\ Len(s) \in Int /\ \A j \in i + 1 .. Len(s) : s[j] \in S BY <1>1
  <2>2. /\ v \in Seq(S)
        /\ Len(v) = IF i + 1 <= Len(s) THEN Len(s) - (i + 1) + 1 ELSE 0
        /\ \A j \in 1 .. Len(s) - (i + 1) + 1 : v[j] = s[(i + 1) + j - 1]
    BY <2>1, SubSeqProperties
  <2>3. \A j \in 1 .. Len(s) - i : v[j] = s[i + j]
    <3> SUFFICES ASSUME NEW j \in 1 .. Len(s) - i PROVE v[j] = s[i + j] OBVIOUS
    <3>1. j \in 1 .. Len(s) - (i + 1) + 1 /\ (i + 1) + j - 1 = i + j BY <1>1
    <3> QED BY <2>2, <3>1
  <2> HIDE DEF v
  <2>4. Len(v) = Len(s) - i BY <1>1, <2>2
  <2> QED BY <2>2, <2>3, <2>4
<1> HIDE DEF u, v
<1>4. /\ u \o v \in Seq(S) /\ Len(u \o v) = Len(u) + Len(v)
      /\ \A j \in 1 .. Len(u) + Len(v) :
           (u \o v)[j] = IF j <= Len(u) THEN u[j] ELSE v[j - Len(u)]
  BY <1>2, <1>3, ConcatProperties
<1>5. RemoveAt(s, i) = u \o v BY DEF RemoveAt, u, v
<1>6. \A j \in 1 .. Len(s) - 1 : (u \o v)[j] = IF j < i THEN s[j] ELSE s[j + 1]
  <2> SUFFICES ASSUME NEW j \in 1 .. Len(s) - 1
               PROVE  (u \o v)[j] = IF j < i THEN s[j] ELSE s[j + 1]
    OBVIOUS
  <2>1. CASE j < i BY <1>1, <1>2, <1>3, <1>4, <2>1
  <2>2. CASE j >= i
    <3>1. j - (i - 1) \in 1 .. Len(s) - i BY <1>1, <2>2
    <3>2. (u \o v)[j] = v[j - (i - 1)] BY SMTT(40), <1>1, <1>2, <1>3, <1>4, <2>2
    <3>3. i + (j - (i - 1)) = j + 1 BY <1>1
    <3> QED BY <1>1, <1>3, <2>2, <3>1, <3>2, <3>3
  <2>3. j < i \/ j >= i BY <1>1
  <2> QED BY <2>1, <2>2, <2>3
<1>7. Len(u \o v) = Len(s) - 1 /\ DOMAIN (u \o v) = 1 .. Len(s) - 1
  <2>1. Len(u \o v) = Len(s) - 1 BY <1>1, <1>2, <1>3, <1>4
  <2>2. DOMAIN (u \o v) = 1 .. Len(u \o v) BY <1>4, LenProperties
  <2> QED BY <2>1, <2>2
<1> QED BY <1>4, <1>5, <1>6, <1>7

(* A function on the first numbers is a sequence. *)
LEMMA SequenceOf ==
  ASSUME NEW S, NEW n \in Nat, NEW f \in [1 .. n -> S]
  PROVE  f \in Seq(S)
BY SeqDef

(* A push leaves the rest as it is. *)
LEMMA Pushed ==
  ASSUME NEW S, NEW s \in Seq(S), NEW e \in S
  PROVE  /\ Append(s, e) \in Seq(S)
         /\ Len(Append(s, e)) = Len(s) + 1
         /\ DOMAIN Append(s, e) = 1 .. Len(s) + 1
         /\ \A i \in 1 .. Len(s) : Append(s, e)[i] = s[i]
         /\ Append(s, e)[Len(s) + 1] = e
BY AppendProperties, LenProperties

(***************************************************************************)
(* The parts of the state                                                   *)
(***************************************************************************)
(* The elements of the state have the types that Typed gives them.          *)
LEMMA Parts ==
  ASSUME Typed
  PROVE  /\ Len(heap) \in Nat /\ DOMAIN heap = 1 .. Len(heap)
         /\ \A a \in DOMAIN heap :
              /\ heap[a] \in Seq(Entry) /\ Len(heap[a]) \in Nat
              /\ DOMAIN heap[a] = 1 .. Len(heap[a])
              /\ \A i \in DOMAIN heap[a] : heap[a][i] \in Entry
         /\ Len(emissions) \in Nat /\ DOMAIN emissions = 1 .. Len(emissions)
         /\ \A e \in DOMAIN emissions :
              /\ emissions[e] \in Running
              /\ emissions[e].called \in Seq(Nat) /\ Len(emissions[e].called) \in Nat
              /\ DOMAIN emissions[e].called = 1 .. Len(emissions[e].called)
              /\ \A k \in DOMAIN emissions[e].called : emissions[e].called[k] \in Nat
<1>1. Len(heap) \in Nat /\ DOMAIN heap = 1 .. Len(heap)
  BY LenProperties DEF Typed
<1>2. ASSUME NEW a \in DOMAIN heap
      PROVE  /\ heap[a] \in Seq(Entry) /\ Len(heap[a]) \in Nat
             /\ DOMAIN heap[a] = 1 .. Len(heap[a])
             /\ \A i \in DOMAIN heap[a] : heap[a][i] \in Entry
  <2>1. heap[a] \in Seq(Entry) BY <1>1, ElementOfSeq DEF Typed
  <2>2. Len(heap[a]) \in Nat /\ DOMAIN heap[a] = 1 .. Len(heap[a]) BY <2>1, LenProperties
  <2> QED BY <2>1, <2>2, ElementOfSeq
<1>3. Len(emissions) \in Nat /\ DOMAIN emissions = 1 .. Len(emissions)
  BY LenProperties DEF Typed
<1>4. ASSUME NEW e \in DOMAIN emissions
      PROVE  /\ emissions[e] \in Running
             /\ emissions[e].called \in Seq(Nat) /\ Len(emissions[e].called) \in Nat
             /\ DOMAIN emissions[e].called = 1 .. Len(emissions[e].called)
             /\ \A k \in DOMAIN emissions[e].called : emissions[e].called[k] \in Nat
  <2>1. emissions[e] \in Running BY <1>3, ElementOfSeq DEF Typed
  <2>2. emissions[e].called \in Seq(Nat) BY <2>1 DEF Running
  <2>3. /\ Len(emissions[e].called) \in Nat
        /\ DOMAIN emissions[e].called = 1 .. Len(emissions[e].called)
    BY <2>2, LenProperties
  <2> QED BY <2>1, <2>2, <2>3, ElementOfSeq
<1> QED BY <1>1, <1>2, <1>3, <1>4

(* The list of the event, empty when the map has none. *)
LEMMA CurrentType ==
  ASSUME Typed
  PROVE  /\ Current \in Seq(Entry) /\ Len(Current) \in Nat /\ DOMAIN Current = 1 .. Len(Current)
         /\ callbacks # 0 => callbacks \in DOMAIN heap /\ Current = heap[callbacks]
         /\ callbacks = 0 => Current = <<>>
<1>1. CASE callbacks = 0 BY <1>1, EmptySeq, LenProperties DEF Current
<1>2. CASE callbacks # 0
  <2>1. callbacks \in DOMAIN heap BY <1>2, Parts DEF Typed
  <2> QED BY <1>2, <2>1, Parts DEF Current
<1> QED BY <1>1, <1>2

(* What an emission has called does not change when a list does.            *)
SameEmissions ==
  /\ emissions' \in Seq(Running) /\ DOMAIN emissions' = DOMAIN emissions
  /\ \A e \in DOMAIN emissions :
       /\ emissions'[e].array = emissions[e].array /\ emissions'[e].at = emissions[e].at
       /\ emissions'[e].called = emissions[e].called

(* The account of removals leaves emissions as they are. *)
LEMMA ShiftedSame ==
  ASSUME Typed, NEW places, IsFiniteSet(places), emissions' = Shifted(places)
  PROVE  SameEmissions
<1> DEFINE n(e) == Cardinality({i \in places : i <= emissions[e].at})
<1>1. ASSUME NEW e PROVE n(e) \in Nat
  <2>1. {i \in places : i <= emissions[e].at} \in SUBSET places OBVIOUS
  <2> QED BY <2>1, FS_Subset, FS_CardinalityType
<1> HIDE DEF n
<1>2. emissions' = [e \in 1 .. Len(emissions) |->
                      IF emissions[e].array = callbacks
                      THEN [emissions[e] EXCEPT !.shifts = @ + n(e)] ELSE emissions[e]]
  BY Parts DEF Shifted, n
<1>3. ASSUME NEW e \in 1 .. Len(emissions)
      PROVE  /\ emissions'[e] \in Running
             /\ emissions'[e].array = emissions[e].array /\ emissions'[e].at = emissions[e].at
             /\ emissions'[e].called = emissions[e].called
  <2>1. emissions[e] \in Running /\ n(e) \in Nat BY <1>1, Parts
  <2>2. CASE emissions[e].array = callbacks
    <3>1. emissions'[e] = [emissions[e] EXCEPT !.shifts = @ + n(e)] BY <1>2, <2>2
    <3> QED BY SMTT(40), <2>1, <3>1 DEF Running
  <2>3. CASE emissions[e].array # callbacks
    <3>1. emissions'[e] = emissions[e] BY <1>2, <2>3
    <3> QED BY <2>1, <3>1
  <2> QED BY <2>2, <2>3
<1>4. emissions' \in [1 .. Len(emissions) -> Running] BY <1>2, <1>3
<1>5. emissions' \in Seq(Running) BY <1>4, Parts, SeqDef
<1>6. DOMAIN emissions' = DOMAIN emissions BY <1>2, Parts
<1> QED BY <1>3, <1>5, <1>6, Parts DEF SameEmissions

(***************************************************************************)
(* What each call does to the lists                                         *)
(***************************************************************************)
(* on() and once() append to the list of the event, a new one if need be.   *)
LEMMA RegisterLists ==
  ASSUME Typed, NEW l \in Listeners, NEW once \in BOOLEAN, Register(l, once)
  PROVE  /\ heap' \in Seq(Seq(Entry)) /\ callbacks' \in 1 .. Len(heap')
         /\ DOMAIN heap' = DOMAIN heap \cup {callbacks'}
         /\ \A a \in DOMAIN heap : a # callbacks' => heap'[a] = heap[a]
         /\ callbacks' \in DOMAIN heap => heap[callbacks'] = Current
         /\ callbacks' \notin DOMAIN heap => Current = <<>>
         /\ DOMAIN heap'[callbacks'] = 1 .. Len(Current) + 1
         /\ \A i \in 1 .. Len(Current) : heap'[callbacks'][i] = Current[i]
         /\ heap'[callbacks'][Len(Current) + 1].number = made + 1
<1> DEFINE r == Registration(l, once)
<1>1. r \in Entry /\ r.number = made + 1
  BY EmitterBounds DEF Registration, Entry, Typed
<1> HIDE DEF r
<1>2. Len(heap) \in Nat /\ DOMAIN heap = 1 .. Len(heap) BY Parts
<1>3. CASE callbacks = 0
  <2>1. Current = <<>> /\ Len(Current) = 0 BY <1>3, CurrentType, EmptySeq
  <2>2. heap' = Append(heap, Append(<<>>, r)) /\ callbacks' = Len(heap) + 1
    BY <1>3 DEF Register, Push, r
  <2>3. /\ Append(<<>>, r) \in Seq(Entry)
        /\ DOMAIN Append(<<>>, r) = 1 .. 1 /\ Append(<<>>, r)[1] = r
    <3>1. <<>> \in Seq(Entry) /\ Len(<<>>) = 0 BY EmptySeq
    <3>2. /\ Append(<<>>, r) \in Seq(Entry)
          /\ DOMAIN Append(<<>>, r) = 1 .. Len(<<>>) + 1 /\ Append(<<>>, r)[Len(<<>>) + 1] = r
      BY <1>1, <3>1, Pushed
    <3> QED BY <3>1, <3>2
  <2> DEFINE new == Append(<<>>, r)
  <2> HIDE DEF new
  <2>4. /\ heap' \in Seq(Seq(Entry)) /\ Len(heap') = Len(heap) + 1
        /\ DOMAIN heap' = 1 .. Len(heap) + 1
        /\ \A a \in 1 .. Len(heap) : heap'[a] = heap[a]
        /\ heap'[Len(heap) + 1] = new
    BY <2>2, <2>3, Pushed DEF Typed, new
  <2>5. callbacks' \notin DOMAIN heap /\ callbacks' \in 1 .. Len(heap')
    BY <1>2, <2>2, <2>4
  <2>6. DOMAIN heap' = DOMAIN heap \cup {callbacks'} BY <1>2, <2>2, <2>4
  <2>7. heap'[callbacks'] = new BY <2>2, <2>4
  <2>8. /\ DOMAIN heap'[callbacks'] = 1 .. Len(Current) + 1
        /\ heap'[callbacks'][Len(Current) + 1].number = made + 1
    BY <1>1, <2>1, <2>3, <2>7 DEF new
  <2>9. \A a \in DOMAIN heap : a # callbacks' => heap'[a] = heap[a] BY <1>2, <2>4
  <2>10. \A i \in 1 .. Len(Current) : heap'[callbacks'][i] = Current[i] BY <2>1
  <2> QED BY <2>1, <2>4, <2>5, <2>6, <2>8, <2>9, <2>10
<1>4. CASE callbacks # 0
  <2>1. callbacks \in DOMAIN heap /\ Current = heap[callbacks] BY <1>4, CurrentType
  <2>2. heap' = [heap EXCEPT ![callbacks] = Append(Current, r)] /\ callbacks' = callbacks
    BY <1>4, <2>1 DEF Register, Push, r
  <2> DEFINE new == Append(Current, r)
  <2>3. /\ new \in Seq(Entry) /\ DOMAIN new = 1 .. Len(Current) + 1
        /\ \A i \in 1 .. Len(Current) : new[i] = Current[i]
        /\ new[Len(Current) + 1] = r
    BY <1>1, CurrentType, Pushed
  <2>4. heap' = [heap EXCEPT ![callbacks] = new] BY <2>2
  <2> HIDE DEF new
  <2>5. callbacks \in 1 .. Len(heap) BY <1>2, <2>1
  <2>6. /\ heap' \in Seq(Seq(Entry)) /\ Len(heap') = Len(heap)
        /\ \A a \in 1 .. Len(heap) : heap'[a] = IF a = callbacks THEN new ELSE heap[a]
    BY <2>3, <2>4, <2>5, ExceptSeq DEF Typed
  <2>7. DOMAIN heap' = DOMAIN heap BY <2>4
  <2>8. heap'[callbacks'] = new BY <2>2, <2>5, <2>6
  <2> QED BY <1>1, <1>2, <2>1, <2>2, <2>3, <2>5, <2>6, <2>7, <2>8
<1> QED BY <1>3, <1>4

(* off(ev, l) without such a listener does what off() does, or nothing.     *)
LEMMA OffSplit ==
  ASSUME NEW l, Off(l)
  PROVE  OffFound(l) \/ OffAll
BY DEF Off, OffMissed

(* off(ev, l) splices the list, which the map may forget. *)
LEMMA OffLists ==
  ASSUME Typed, NEW l \in Listeners, OffFound(l)
  PROVE  \E i \in DOMAIN Current :
           /\ callbacks \in DOMAIN heap /\ Current = heap[callbacks]
           /\ heap' \in Seq(Seq(Entry)) /\ DOMAIN heap' = DOMAIN heap /\ Len(heap') = Len(heap)
           /\ \A a \in DOMAIN heap : a # callbacks => heap'[a] = heap[a]
           /\ DOMAIN heap'[callbacks] = 1 .. Len(Current) - 1
           /\ \A j \in 1 .. Len(Current) - 1 :
                heap'[callbacks][j] = IF j < i THEN Current[j] ELSE Current[j + 1]
           /\ \/ callbacks' = callbacks
              \/ callbacks' = 0 /\ Len(Current) = 1
           /\ removed' = removed \cup {Current[i].number}
           /\ SameEmissions /\ emissions' = Shifted({i})
<1>1. PICK i \in DOMAIN Current :
        /\ heap' = [heap EXCEPT ![callbacks] = RemoveAt(Current, i)]
        /\ callbacks' = IF RemoveAt(Current, i) = <<>> THEN 0 ELSE callbacks
        /\ emissions' = Shifted({i})
        /\ removed' = removed \cup {Current[i].number}
  BY DEF OffFound, First, Spliced, Forgets
<1>2. callbacks \in DOMAIN heap /\ Current = heap[callbacks] /\ Current \in Seq(Entry)
  <2>1. callbacks # 0 BY CurrentType, EmptySeq
  <2> QED BY <2>1, CurrentType
<1> DEFINE rest == RemoveAt(Current, i)
<1>3. /\ rest \in Seq(Entry) /\ Len(rest) = Len(Current) - 1
      /\ DOMAIN rest = 1 .. Len(Current) - 1
      /\ \A j \in 1 .. Len(Current) - 1 : rest[j] = IF j < i THEN Current[j] ELSE Current[j + 1]
  BY <1>2, Splice
<1>4. heap' = [heap EXCEPT ![callbacks] = rest]
      /\ callbacks' = IF rest = <<>> THEN 0 ELSE callbacks
  BY <1>1
<1> HIDE DEF rest
<1>5. callbacks \in 1 .. Len(heap) /\ DOMAIN heap = 1 .. Len(heap) BY <1>2, Parts
<1>6. /\ heap' \in Seq(Seq(Entry)) /\ Len(heap') = Len(heap)
      /\ \A a \in 1 .. Len(heap) : heap'[a] = IF a = callbacks THEN rest ELSE heap[a]
  BY <1>3, <1>4, <1>5, ExceptSeq DEF Typed
<1>7. DOMAIN heap' = DOMAIN heap BY <1>4
<1>8. callbacks' = callbacks \/ (callbacks' = 0 /\ Len(Current) = 1)
  <2>1. rest = <<>> => Len(rest) = 0 BY EmptySeq
  <2> QED BY <1>3, <1>4, <2>1, CurrentType
<1>9. SameEmissions
  <2>1. IsFiniteSet({i}) BY FS_Singleton
  <2> QED BY <1>1, <2>1, ShiftedSame
<1>10. heap'[callbacks] = rest /\ \A a \in DOMAIN heap : a # callbacks => heap'[a] = heap[a]
  BY <1>5, <1>6
<1> QED BY <1>1, <1>2, <1>3, <1>6, <1>7, <1>8, <1>9, <1>10

(* off(ev) empties the list. *)
LEMMA OffEventLists ==
  ASSUME Typed, OffEvent
  PROVE  /\ callbacks \in DOMAIN heap /\ Current = heap[callbacks]
         /\ heap' \in Seq(Seq(Entry)) /\ DOMAIN heap' = DOMAIN heap /\ Len(heap') = Len(heap)
         /\ \A a \in DOMAIN heap : a # callbacks => heap'[a] = heap[a]
         /\ heap'[callbacks] = <<>>
         /\ SameEmissions
<1>1. callbacks \in DOMAIN heap /\ Current = heap[callbacks]
  BY CurrentType DEF OffEvent
<1>2. heap' = [heap EXCEPT ![callbacks] = <<>>] BY DEF OffEvent
<1>3. callbacks \in 1 .. Len(heap) /\ DOMAIN heap = 1 .. Len(heap) BY <1>1, Parts
<1>4. <<>> \in Seq(Entry) BY EmptySeq
<1>5. /\ heap' \in Seq(Seq(Entry)) /\ Len(heap') = Len(heap)
      /\ \A a \in 1 .. Len(heap) : heap'[a] = IF a = callbacks THEN <<>> ELSE heap[a]
  BY <1>2, <1>3, <1>4, ExceptSeq DEF Typed
<1>6. DOMAIN heap' = DOMAIN heap BY <1>2
<1>7. SameEmissions
  <2>1. DOMAIN Current = 1 .. Len(Current) /\ Len(Current) \in Nat BY CurrentType
  <2>2. IsFiniteSet(DOMAIN Current) BY <2>1, FS_Interval
  <2> QED BY <2>2, ShiftedSame DEF OffEvent
<1> QED BY <1>1, <1>3, <1>5, <1>6, <1>7

(* An emission begins with the first listener of the list. *)
LEMMA EmitLists ==
  ASSUME Typed, Emit
  PROVE  /\ callbacks \in DOMAIN heap /\ Current = heap[callbacks]
         /\ emissions' \in Seq(Running) /\ DOMAIN emissions' = 1 .. Len(emissions) + 1
         /\ \A e \in DOMAIN emissions : emissions'[e] = emissions[e]
         /\ emissions'[Len(emissions) + 1].array = callbacks
         /\ LET new == emissions'[Len(emissions) + 1]
            IN \/ DOMAIN new.called = {} /\ new.at = 0
               \/ /\ 1 \in DOMAIN Current /\ new.at = 1
                  /\ DOMAIN new.called = {1} /\ new.called[1] = Current[1].number
<1>1. callbacks \in DOMAIN heap /\ Current = heap[callbacks] /\ callbacks \in Nat
  BY CurrentType, Parts DEF Emit
<1>2. PICK new : /\ emissions' = Append(emissions, new)
                 /\ \/ new = Emission(callbacks, 0, <<>>, "done")
                    \/ /\ Current # <<>>
                       /\ new = Emission(callbacks, 1, <<Current[1].number>>, "running")
  BY DEF Emit
<1>3. Current # <<>> => 1 \in DOMAIN Current /\ Current[1].number \in Nat
  <2> SUFFICES ASSUME Current # <<>> PROVE 1 \in DOMAIN Current /\ Current[1].number \in Nat
    OBVIOUS
  <2>1. Len(Current) \in Nat \ {0} BY CurrentType, EmptySeq
  <2>2. 1 \in DOMAIN Current BY <2>1, CurrentType
  <2>3. Current[1] \in Entry BY <1>1, <2>2, Parts
  <2> QED BY <2>2, <2>3 DEF Entry
<1>4. /\ new \in Running /\ new.array = callbacks
      /\ \/ DOMAIN new.called = {} /\ new.at = 0
         \/ /\ 1 \in DOMAIN Current /\ new.at = 1
            /\ DOMAIN new.called = {1} /\ new.called[1] = Current[1].number
  <2>1. CASE new = Emission(callbacks, 0, <<>>, "done")
    <3>1. <<>> \in Seq(Nat) /\ DOMAIN <<>> = {} BY EmptySeq
    <3> QED BY <1>1, <2>1, <3>1 DEF Emission, Running
  <2>2. CASE Current # <<>> /\ new = Emission(callbacks, 1, <<Current[1].number>>, "running")
    <3>1. <<Current[1].number>> \in Seq(Nat) /\ DOMAIN <<Current[1].number>> = {1}
      BY <1>3, <2>2
    <3> QED BY <1>1, <1>3, <2>2, <3>1 DEF Emission, Running
  <2> QED BY <1>2, <2>1, <2>2
<1>5. /\ emissions' \in Seq(Running) /\ DOMAIN emissions' = 1 .. Len(emissions) + 1
      /\ \A e \in 1 .. Len(emissions) : emissions'[e] = emissions[e]
      /\ emissions'[Len(emissions) + 1] = new
  BY <1>2, <1>4, Pushed DEF Typed
<1> QED BY <1>1, <1>4, <1>5, Parts

(* An emission goes on to the next place of its array, or ends.             *)
LEMMA ContinueLists ==
  ASSUME TypeInv, NEW e \in DOMAIN emissions, Continue(e) \/ Throw(e)
  PROVE  /\ emissions' \in Seq(Running) /\ DOMAIN emissions' = DOMAIN emissions
         /\ \A f \in DOMAIN emissions : f # e => emissions'[f] = emissions[f]
         /\ emissions'[e].array = emissions[e].array
         /\ emissions'[e].shifts = emissions[e].shifts
         /\ \/ emissions'[e].at = emissions[e].at /\ emissions'[e].called = emissions[e].called
            \/ LET at == emissions[e].at + 1
                   n  == Len(emissions[e].called)
               IN /\ at \in DOMAIN heap[emissions[e].array]
                  /\ emissions'[e].at = at
                  /\ DOMAIN emissions'[e].called = 1 .. n + 1
                  /\ \A k \in 1 .. n : emissions'[e].called[k] = emissions[e].called[k]
                  /\ emissions'[e].called[n + 1] = heap[emissions[e].array][at].number
                  /\ Len(emissions'[e].called) = n + 1
<1> DEFINE at == emissions[e].at + 1
           list == heap[emissions[e].array]
           E == emissions[e]
<1>1. E \in Running /\ e \in 1 .. Len(emissions) /\ DOMAIN emissions = 1 .. Len(emissions)
  BY Parts DEF TypeInv
<1>2. /\ emissions[e].array \in DOMAIN heap /\ Len(list) \in Nat /\ DOMAIN list = 1 .. Len(list)
      /\ \A i \in DOMAIN list : list[i].number \in Nat
  <2>1. emissions[e].array \in DOMAIN heap BY DEF TypeInv, Numbered
  <2>2. \A i \in DOMAIN list : list[i] \in Entry BY <2>1, Parts DEF TypeInv
  <2> QED BY <2>1, <2>2, Parts DEF TypeInv, Entry
<1>3. CASE \E s \in {"done", "failed"} : emissions' = [emissions EXCEPT ![e].status = s]
  <2>1. PICK s \in {"done", "failed"} : emissions' = [emissions EXCEPT ![e].status = s] BY <1>3
  <2>2. emissions' = [emissions EXCEPT ![e] = [E EXCEPT !.status = s]] BY <2>1
  <2>3. /\ [E EXCEPT !.status = s] \in Running
        /\ [E EXCEPT !.status = s].array = E.array
        /\ [E EXCEPT !.status = s].shifts = E.shifts
        /\ [E EXCEPT !.status = s].at = E.at
        /\ [E EXCEPT !.status = s].called = E.called
    BY <1>1 DEF Running
  <2> DEFINE new == [E EXCEPT !.status = s]
  <2> HIDE DEF new
  <2>4. /\ emissions' \in Seq(Running)
        /\ \A f \in 1 .. Len(emissions) : emissions'[f] = IF f = e THEN new ELSE emissions[f]
    BY <1>1, <2>2, <2>3, ExceptSeq DEF TypeInv, Typed, new
  <2>5. DOMAIN emissions' = DOMAIN emissions BY <2>1
  <2>6. emissions'[e] = new /\ \A f \in DOMAIN emissions : f # e => emissions'[f] = emissions[f]
    BY <1>1, <2>4
  <2> QED BY <2>3, <2>4, <2>5, <2>6 DEF new
<1>4. CASE /\ at <= Len(list)
           /\ emissions' = [emissions EXCEPT ![e].at = at,
                                             ![e].called = Append(@, list[at].number)]
  <2> DEFINE E1 == [E EXCEPT !.at = at]
             E2 == [E1 EXCEPT !.called = Append(E.called, list[at].number)]
  <2>1. at \in DOMAIN list /\ list[at].number \in Nat /\ at \in Nat
    BY <1>1, <1>2, <1>4 DEF Running
  <2>2. /\ Append(E.called, list[at].number) \in Seq(Nat)
        /\ Len(Append(E.called, list[at].number)) = Len(E.called) + 1
        /\ DOMAIN Append(E.called, list[at].number) = 1 .. Len(E.called) + 1
        /\ \A k \in 1 .. Len(E.called) : Append(E.called, list[at].number)[k] = E.called[k]
        /\ Append(E.called, list[at].number)[Len(E.called) + 1] = list[at].number
    BY <1>1, <2>1, Pushed DEF Running
  <2>3. /\ E1 \in Running /\ E1.array = E.array /\ E1.at = at /\ E1.called = E.called
        /\ E1.shifts = E.shifts
    BY <1>1, <2>1 DEF Running
  <2>4. emissions' = [emissions EXCEPT ![e] = E2] BY <1>1, <1>4 DEF Running
  <2> HIDE DEF E1
  <2>5. /\ E2 \in Running /\ E2.array = E.array /\ E2.at = at /\ E2.shifts = E.shifts
        /\ E2.called = Append(E.called, list[at].number)
    BY <2>2, <2>3 DEF Running
  <2> HIDE DEF E2
  <2>6. /\ emissions' \in Seq(Running)
        /\ \A f \in 1 .. Len(emissions) : emissions'[f] = IF f = e THEN E2 ELSE emissions[f]
    BY <1>1, <2>4, <2>5, ExceptSeq DEF TypeInv, Typed
  <2>7. DOMAIN emissions' = DOMAIN emissions BY <2>4
  <2>8. emissions'[e] = E2 /\ \A f \in DOMAIN emissions : f # e => emissions'[f] = emissions[f]
    BY <1>1, <2>6
  <2> QED BY <2>1, <2>2, <2>5, <2>6, <2>7, <2>8
<1>5. \/ \E s \in {"done", "failed"} : emissions' = [emissions EXCEPT ![e].status = s]
      \/ /\ at <= Len(list)
         /\ emissions' = [emissions EXCEPT ![e].at = at,
                                           ![e].called = Append(@, list[at].number)]
  BY DEF Continue, Throw, NextPlace, NextListener
<1> QED BY <1>3, <1>4, <1>5

(***************************************************************************)
(* Type correctness                                                         *)
(***************************************************************************)
(* An emitter is made without listeners (EMI:82-89). *)
LEMMA InitType == Init => TypeInv
<1> SUFFICES ASSUME Init PROVE TypeInv OBVIOUS
<1>1. /\ <<>> \in Seq(Seq(Entry)) /\ <<>> \in Seq(Running) /\ Len(<<>>) = 0
      /\ DOMAIN <<>> = {}
  BY EmptySeq
<1> QED BY <1>1, EmitterBounds DEF Init, TypeInv, Typed, Numbered

(* The numbers of the list of the event. *)
LEMMA CurrentNumbered ==
  ASSUME TypeInv
  PROVE  \A i \in DOMAIN Current : Current[i].number \in 1 .. made
<1>1. CASE callbacks = 0 BY <1>1, CurrentType, EmptySeq DEF TypeInv
<1>2. CASE callbacks # 0 BY <1>2, CurrentType DEF TypeInv, Numbered
<1> QED BY <1>1, <1>2

(* on() and once() number the registration that they append. *)
LEMMA RegisterType ==
  ASSUME TypeInv, NEW l \in Listeners, NEW once \in BOOLEAN, Register(l, once)
  PROVE  TypeInv'
<1>1. /\ made' = made + 1 /\ made \in Nat /\ made + 1 \in 0 .. MaxRegistrations
      /\ UNCHANGED <<emissions, removed, forgotten>>
  BY EmitterBounds DEF Register, TypeInv, Typed
<1>2. Typed' BY <1>1, RegisterLists, LenProperties DEF TypeInv, Typed
<1>3. ASSUME NEW a \in DOMAIN heap', NEW i \in DOMAIN heap'[a]
      PROVE  heap'[a][i].number \in 1 .. made'
  <2>1. CASE a = callbacks'
    <3>1. i \in 1 .. Len(Current) + 1 /\ Len(Current) \in Nat /\ DOMAIN Current = 1 .. Len(Current)
      BY <2>1, RegisterLists, CurrentType DEF TypeInv
    <3>2. CASE i = Len(Current) + 1 BY <1>1, <2>1, <3>2, RegisterLists DEF TypeInv
    <3>3. CASE i \in DOMAIN Current
      <4>1. heap'[a][i] = Current[i] BY <2>1, <3>1, <3>3, RegisterLists DEF TypeInv
      <4> QED BY <1>1, <3>3, <4>1, CurrentNumbered
    <3> QED BY <3>1, <3>2, <3>3
  <2>2. CASE a # callbacks'
    <3>1. a \in DOMAIN heap /\ heap'[a] = heap[a] BY <2>2, RegisterLists DEF TypeInv
    <3> QED BY <1>1, <3>1 DEF TypeInv, Numbered
  <2> QED BY <2>1, <2>2
<1>4. \A e \in DOMAIN emissions' :
        /\ emissions'[e].array \in DOMAIN heap'
        /\ \A k \in DOMAIN emissions'[e].called : emissions'[e].called[k] \in 1 .. made'
  BY <1>1, RegisterLists DEF TypeInv, Numbered
<1>5. removed' \subseteq 1 .. made' /\ forgotten' \subseteq 1 .. made'
  BY <1>1 DEF TypeInv, Numbered
<1> QED BY <1>2, <1>3, <1>4, <1>5 DEF TypeInv, Numbered

(* off(ev, l) moves what is left, and makes up no number. *)
LEMMA OffType ==
  ASSUME TypeInv, NEW l \in Listeners, OffFound(l)
  PROVE  TypeInv'
<1>1. made' = made /\ forgotten' = forgotten /\ made \in Nat
  BY EmitterBounds DEF OffFound, TypeInv, Typed
<1>2. PICK i \in DOMAIN Current :
           /\ callbacks \in DOMAIN heap /\ Current = heap[callbacks]
           /\ heap' \in Seq(Seq(Entry)) /\ DOMAIN heap' = DOMAIN heap /\ Len(heap') = Len(heap)
           /\ \A a \in DOMAIN heap : a # callbacks => heap'[a] = heap[a]
           /\ DOMAIN heap'[callbacks] = 1 .. Len(Current) - 1
           /\ \A j \in 1 .. Len(Current) - 1 :
                heap'[callbacks][j] = IF j < i THEN Current[j] ELSE Current[j + 1]
           /\ callbacks' = callbacks \/ (callbacks' = 0 /\ Len(Current) = 1)
           /\ removed' = removed \cup {Current[i].number}
           /\ SameEmissions
  BY OffLists DEF TypeInv
<1>3. Typed' BY <1>1, <1>2, Parts DEF TypeInv, Typed, SameEmissions
<1>4. ASSUME NEW a \in DOMAIN heap', NEW j \in DOMAIN heap'[a]
      PROVE  heap'[a][j].number \in 1 .. made'
  <2>1. CASE a = callbacks
    <3>1. Len(Current) \in Nat /\ DOMAIN Current = 1 .. Len(Current) /\ j \in 1 .. Len(Current) - 1
      BY <1>2, <2>1, CurrentType DEF TypeInv
    <3>2. j \in DOMAIN Current /\ j + 1 \in DOMAIN Current BY <3>1
    <3>3. heap'[a][j] = Current[j] \/ heap'[a][j] = Current[j + 1] BY <1>2, <2>1, <3>1
    <3> QED BY <1>1, <3>2, <3>3, CurrentNumbered
  <2>2. CASE a # callbacks BY <1>1, <1>2, <2>2 DEF TypeInv, Numbered
  <2> QED BY <2>1, <2>2
<1>5. \A e \in DOMAIN emissions' :
        /\ emissions'[e].array \in DOMAIN heap'
        /\ \A k \in DOMAIN emissions'[e].called : emissions'[e].called[k] \in 1 .. made'
  BY <1>1, <1>2 DEF TypeInv, Numbered, SameEmissions
<1>6. removed' \subseteq 1 .. made' /\ forgotten' \subseteq 1 .. made'
  BY <1>1, <1>2, CurrentNumbered DEF TypeInv, Numbered
<1> QED BY <1>3, <1>4, <1>5, <1>6 DEF TypeInv, Numbered

(* off(ev) and off() only forget. *)
LEMMA OffEventType ==
  ASSUME TypeInv, OffEvent
  PROVE  TypeInv'
<1>1. /\ callbacks' = callbacks /\ made' = made /\ forgotten' = forgotten
      /\ removed' = removed \cup Numbers(Current)
  BY DEF OffEvent
<1>2. Typed' BY <1>1, OffEventLists DEF TypeInv, Typed, SameEmissions
<1>3. ASSUME NEW a \in DOMAIN heap', NEW j \in DOMAIN heap'[a]
      PROVE  heap'[a][j].number \in 1 .. made'
  <2>1. a # callbacks BY OffEventLists, EmptySeq DEF TypeInv
  <2> QED BY <1>1, <2>1, OffEventLists DEF TypeInv, Numbered
<1>4. \A e \in DOMAIN emissions' :
        /\ emissions'[e].array \in DOMAIN heap'
        /\ \A k \in DOMAIN emissions'[e].called : emissions'[e].called[k] \in 1 .. made'
  BY <1>1, OffEventLists DEF TypeInv, Numbered, SameEmissions
<1>5. removed' \subseteq 1 .. made' /\ forgotten' \subseteq 1 .. made'
  BY <1>1, CurrentNumbered DEF TypeInv, Numbered, Numbers
<1> QED BY <1>2, <1>3, <1>4, <1>5 DEF TypeInv, Numbered

LEMMA OffAllType ==
  ASSUME TypeInv, OffAll
  PROVE  TypeInv'
<1>1. /\ callbacks' = 0 /\ forgotten' = forgotten \cup Numbers(Current)
      /\ UNCHANGED <<heap, emissions, made, removed>>
  BY DEF OffAll
<1>2. Typed' BY <1>1, Parts DEF TypeInv, Typed
<1>3. Numbered' BY <1>1, CurrentNumbered DEF TypeInv, Numbered, Numbers
<1> QED BY <1>2, <1>3 DEF TypeInv

(* An emission runs over an array and calls what is in it. *)
LEMMA EmitType ==
  ASSUME TypeInv, Emit
  PROVE  TypeInv'
<1>1. UNCHANGED <<heap, callbacks, made, removed, forgotten>> BY DEF Emit
<1>2. Typed' BY <1>1, EmitLists DEF TypeInv, Typed
<1>3. ASSUME NEW e \in DOMAIN emissions'
      PROVE  /\ emissions'[e].array \in DOMAIN heap'
             /\ \A k \in DOMAIN emissions'[e].called : emissions'[e].called[k] \in 1 .. made'
  <2>1. CASE e = Len(emissions) + 1
    BY <1>1, <2>1, EmitLists, CurrentNumbered DEF TypeInv
  <2>2. CASE e # Len(emissions) + 1
    <3>1. e \in DOMAIN emissions BY <2>2, EmitLists, Parts DEF TypeInv
    <3> QED BY <1>1, <3>1, EmitLists DEF TypeInv, Numbered
  <2> QED BY <2>1, <2>2
<1> QED BY <1>1, <1>2, <1>3 DEF TypeInv, Numbered

LEMMA ContinueType ==
  ASSUME TypeInv, NEW e \in DOMAIN emissions, Continue(e) \/ Throw(e)
  PROVE  TypeInv'
<1>1. UNCHANGED <<heap, callbacks, made, removed, forgotten>> BY DEF Continue, Throw
<1>2. Typed' BY <1>1, ContinueLists DEF TypeInv, Typed
<1>3. ASSUME NEW f \in DOMAIN emissions'
      PROVE  /\ emissions'[f].array \in DOMAIN heap'
             /\ \A k \in DOMAIN emissions'[f].called : emissions'[f].called[k] \in 1 .. made'
  <2>1. f \in DOMAIN emissions BY ContinueLists
  <2>2. CASE f # e BY <1>1, <2>1, <2>2, ContinueLists DEF TypeInv, Numbered
  <2>3. CASE f = e
    <3>1. emissions'[e].array \in DOMAIN heap' BY <1>1, ContinueLists DEF TypeInv, Numbered
    <3>2. CASE emissions'[e].called = emissions[e].called
      BY <1>1, <2>3, <3>1, <3>2 DEF TypeInv, Numbered
    <3>3. CASE LET at == emissions[e].at + 1
                   n  == Len(emissions[e].called)
               IN /\ at \in DOMAIN heap[emissions[e].array]
                  /\ DOMAIN emissions'[e].called = 1 .. n + 1
                  /\ \A k \in 1 .. n : emissions'[e].called[k] = emissions[e].called[k]
                  /\ emissions'[e].called[n + 1] = heap[emissions[e].array][at].number
      <4> DEFINE n == Len(emissions[e].called)
      <4>1. n \in Nat /\ DOMAIN emissions[e].called = 1 .. n BY Parts DEF TypeInv
      <4>2. \A k \in 1 .. n : emissions'[e].called[k] \in 1 .. made
        BY <3>3, <4>1 DEF TypeInv, Numbered
      <4>3. emissions'[e].called[n + 1] \in 1 .. made
        BY <3>3 DEF TypeInv, Numbered
      <4>4. DOMAIN emissions'[e].called = 1 .. n + 1 BY <3>3
      <4> HIDE DEF n
      <4>5. \A k \in 1 .. n + 1 : k \in 1 .. n \/ k = n + 1 BY <4>1
      <4> QED BY <1>1, <2>3, <3>1, <4>2, <4>3, <4>4, <4>5
    <3> QED BY <3>2, <3>3, ContinueLists
  <2> QED BY <2>2, <2>3
<1> QED BY <1>1, <1>2, <1>3 DEF TypeInv, Numbered

(* Every step keeps the types. *)
LEMMA NextType == TypeInv /\ [Next]_vars => TypeInv'
<1> SUFFICES ASSUME TypeInv, [Next]_vars PROVE TypeInv' OBVIOUS
<1>1. ASSUME NEW l \in Listeners, On(l) \/ Once(l) PROVE TypeInv'
  BY <1>1, RegisterType DEF On, Once
<1>2. CASE UNCHANGED vars
  BY <1>2 DEF vars, TypeInv, Typed, Numbered
<1> QED BY <1>1, <1>2, OffSplit, OffType, OffEventType, OffAllType, EmitType, ContinueType DEF Next

(* The invariant gives the type invariant of the model. *)
LEMMA TypeInvTypeOK == TypeInv => TypeOK
<1> SUFFICES ASSUME TypeInv PROVE TypeOK OBVIOUS
<1>1. \A a \in DOMAIN heap : \A i \in DOMAIN heap[a] :
        /\ heap[a][i].fn \in Listeners /\ heap[a][i].once \in BOOLEAN
        /\ heap[a][i].number \in 1 .. made
  BY Parts DEF TypeInv, Numbered, Entry
<1>2. \A e \in DOMAIN emissions :
        /\ emissions[e].array \in DOMAIN heap
        /\ emissions[e].at \in Nat /\ emissions[e].shifts \in Nat
        /\ emissions[e].status \in {"running", "done", "failed"}
  BY Parts DEF TypeInv, Numbered, Running
<1>3. ASSUME NEW e \in DOMAIN emissions PROVE emissions[e].called \in Seq(1 .. made)
  <2>1. /\ emissions[e].called \in Seq(Nat) /\ Len(emissions[e].called) \in Nat
        /\ DOMAIN emissions[e].called = 1 .. Len(emissions[e].called)
    BY Parts DEF TypeInv
  <2>2. emissions[e].called \in [1 .. Len(emissions[e].called) -> Nat] BY <2>1, LenProperties
  <2>3. emissions[e].called \in [1 .. Len(emissions[e].called) -> 1 .. made]
    BY <2>1, <2>2 DEF TypeInv, Numbered
  <2> DEFINE T == 1 .. made
  <2>4. emissions[e].called \in [1 .. Len(emissions[e].called) -> T] BY <2>3
  <2> HIDE DEF T
  <2>5. emissions[e].called \in Seq(T) BY <2>1, <2>4, SequenceOf
  <2> QED BY <2>5 DEF T
<1>4. /\ callbacks \in 0 .. Len(heap) /\ made \in 0 .. MaxRegistrations
      /\ removed \subseteq 1 .. made /\ forgotten \subseteq 1 .. made
  BY DEF TypeInv, Typed, Numbered
<1> QED BY <1>1, <1>2, <1>3, <1>4 DEF TypeOK

(* Arrays, registrations and emissions keep their types, and refer to one   *)
(* another, for any set of listeners (component-emitter.ts).                *)
THEOREM TypeCorrect == Spec => []TypeOK
<1>1. Init => TypeInv BY InitType
<1>2. TypeInv /\ [Next]_vars => TypeInv' BY NextType
<1>3. TypeInv => TypeOK BY TypeInvTypeOK
<1> QED BY <1>1, <1>2, <1>3, PTL DEF Spec

(***************************************************************************)
(* No registration is lost                                                  *)
(***************************************************************************)
(* The numbers of a list that was pushed to. *)
LEMMA RegisterNumbers ==
  ASSUME Typed, NEW l \in Listeners, NEW once \in BOOLEAN, Register(l, once)
  PROVE  Numbers(Current)' = Numbers(Current) \cup {made + 1}
<1>1. callbacks' # 0 BY RegisterLists, LenProperties
<1>2. Current' = heap'[callbacks'] BY <1>1 DEF Current
<1>3. Len(Current) \in Nat /\ DOMAIN Current = 1 .. Len(Current) BY CurrentType
<1>4. DOMAIN Current' = DOMAIN Current \cup {Len(Current) + 1}
  BY <1>2, <1>3, RegisterLists
<1>5. /\ \A i \in DOMAIN Current : Current'[i] = Current[i]
      /\ Current'[Len(Current) + 1].number = made + 1
  BY <1>2, <1>3, RegisterLists
<1> QED BY <1>4, <1>5 DEF Numbers

(* off(ev, l) takes one number out of the list. *)
LEMMA OffNumbers ==
  ASSUME Typed, NEW l \in Listeners, OffFound(l)
  PROVE  Numbers(Current) \subseteq Numbers(Current)' \cup removed' /\ removed \subseteq removed'
<1>1. PICK i \in DOMAIN Current :
           /\ callbacks \in DOMAIN heap /\ Current = heap[callbacks]
           /\ DOMAIN heap'[callbacks] = 1 .. Len(Current) - 1
           /\ \A j \in 1 .. Len(Current) - 1 :
                heap'[callbacks][j] = IF j < i THEN Current[j] ELSE Current[j + 1]
           /\ callbacks' = callbacks \/ (callbacks' = 0 /\ Len(Current) = 1)
           /\ removed' = removed \cup {Current[i].number}
  BY OffLists
<1>2. Len(Current) \in Nat /\ DOMAIN Current = 1 .. Len(Current) BY CurrentType
<1>3. ASSUME NEW j \in DOMAIN Current, j # i
      PROVE  Current[j].number \in Numbers(Current)'
  <2>1. callbacks' = callbacks /\ callbacks # 0 BY <1>1, <1>2, <1>3, Parts
  <2>2. Current' = heap'[callbacks] BY <2>1 DEF Current
  <2>3. CASE j < i
    <3>1. j \in 1 .. Len(Current) - 1 BY <1>2, <2>3
    <3>2. j \in DOMAIN Current' /\ Current'[j] = Current[j] BY <1>1, <2>2, <2>3, <3>1
    <3> QED BY <3>2 DEF Numbers
  <2>4. CASE ~(j < i)
    <3>1. j - 1 \in 1 .. Len(Current) - 1 /\ ~(j - 1 < i) /\ (j - 1) + 1 = j
      BY <1>2, <1>3, <2>4
    <3>2. j - 1 \in DOMAIN Current' /\ Current'[j - 1] = Current[j]
      BY <1>1, <2>2, <3>1
    <3> QED BY <3>2 DEF Numbers
  <2> QED BY <2>3, <2>4
<1>4. removed \subseteq removed' /\ Current[i].number \in removed' BY <1>1
<1>5. Numbers(Current) \subseteq Numbers(Current)' \cup removed'
  BY <1>3, <1>4 DEF Numbers
<1> QED BY <1>4, <1>5

(* A registration stays where the next emission finds it until it is        *)
(* removed or forgotten.                                                    *)
LEMMA NextOrphaned == TypeInv /\ NoneOrphaned /\ [Next]_vars => NoneOrphaned'
<1> SUFFICES ASSUME TypeInv, NoneOrphaned, [Next]_vars PROVE NoneOrphaned' OBVIOUS
<1>1. ASSUME NEW l \in Listeners, NEW once \in BOOLEAN, Register(l, once) PROVE NoneOrphaned'
  <2>1. UNCHANGED <<removed, forgotten>> /\ made' = made + 1 /\ made \in Nat
    BY <1>1, EmitterBounds DEF Register, TypeInv, Typed
  <2>2. 1 .. made' = 1 .. made \cup {made + 1} BY <2>1
  <2> QED BY <1>1, <2>1, <2>2, RegisterNumbers DEF NoneOrphaned, TypeInv
<1>2. ASSUME NEW l \in Listeners, OffFound(l) PROVE NoneOrphaned'
  <2>1. UNCHANGED <<made, forgotten>> BY <1>2 DEF OffFound
  <2> QED BY <1>2, <2>1, OffNumbers DEF NoneOrphaned, TypeInv
<1>3. ASSUME OffEvent PROVE NoneOrphaned'
  BY <1>3 DEF OffEvent, NoneOrphaned
<1>4. ASSUME OffAll PROVE NoneOrphaned'
  BY <1>4 DEF OffAll, NoneOrphaned
<1>5. ASSUME UNCHANGED <<heap, callbacks, made, removed, forgotten>> PROVE NoneOrphaned'
  BY <1>5 DEF NoneOrphaned, Current, Numbers
<1>6. Emit => UNCHANGED <<heap, callbacks, made, removed, forgotten>> BY DEF Emit
<1>7. \A e : Continue(e) \/ Throw(e) => UNCHANGED <<heap, callbacks, made, removed, forgotten>>
  BY DEF Continue, Throw
<1>8. UNCHANGED vars => UNCHANGED <<heap, callbacks, made, removed, forgotten>> BY DEF vars
<1> QED BY <1>1, <1>2, <1>3, <1>4, <1>5, <1>6, <1>7, <1>8, OffSplit DEF Next, On, Once

(* A listener that is registered and not removed is in the list that the    *)
(* next emission runs over, however often lists were emptied, deleted from  *)
(* the map and made anew (on, off). *)
THEOREM NoneOrphanedCorrect == Spec => []NoneOrphaned
<1>1. Init => TypeInv /\ NoneOrphaned BY InitType DEF Init, NoneOrphaned
<1>2. TypeInv /\ NoneOrphaned /\ [Next]_vars => (TypeInv /\ NoneOrphaned)'
  BY NextType, NextOrphaned
<1>3. TypeInv /\ NoneOrphaned => NoneOrphaned OBVIOUS
<1> QED BY <1>1, <1>2, <1>3, PTL DEF Spec

(***************************************************************************)
(* Order, and what a removal promises                                       *)
(***************************************************************************)
(* Numbers can be compared. *)
LEMMA NumberType ==
  ASSUME TypeInv
  PROVE  /\ made \in Nat
         /\ \A a \in DOMAIN heap : \A i \in DOMAIN heap[a] :
              heap[a][i].number \in Nat /\ heap[a][i].number <= made
         /\ \A e \in DOMAIN emissions :
              /\ emissions[e].array \in DOMAIN heap /\ emissions[e].at \in Nat
              /\ \A k \in DOMAIN emissions[e].called :
                   emissions[e].called[k] \in Nat /\ emissions[e].called[k] <= made
         /\ \A n \in removed : n \in Nat /\ n <= made
<1>1. made \in Nat BY EmitterBounds DEF TypeInv, Typed
<1>2. \A n \in 1 .. made : n \in Nat /\ n <= made BY <1>1
<1>3. \A e \in DOMAIN emissions : emissions[e].at \in Nat BY Parts DEF TypeInv, Running
<1> QED BY <1>1, <1>2, <1>3 DEF TypeInv, Numbered

(* A change that leaves in each place a registration that was there or      *)
(* further on keeps what lies ahead, and keeps arrays apart.                *)
LEMMA Shrinks ==
  ASSUME ListInv, SameEmissions, DOMAIN heap' = DOMAIN heap,
         \A a \in DOMAIN heap : \A j \in DOMAIN heap'[a] :
           j \in Nat /\ \E i \in DOMAIN heap[a] :
             i \in Nat /\ i >= j /\ heap'[a][j].number = heap[a][i].number
  PROVE  Ahead' /\ Distinct' /\ InRegistrationOrder'
<1>1. ASSUME NEW e \in DOMAIN emissions', NEW k \in DOMAIN emissions'[e].called,
             NEW j \in DOMAIN heap'[emissions'[e].array], j > emissions'[e].at
      PROVE  emissions'[e].called[k] < heap'[emissions'[e].array][j].number
  <2> DEFINE a == emissions[e].array
  <2>1. /\ e \in DOMAIN emissions /\ emissions'[e].array = a
        /\ emissions'[e].at = emissions[e].at /\ emissions'[e].called = emissions[e].called
    BY DEF SameEmissions
  <2>2. a \in DOMAIN heap /\ emissions[e].at \in Nat BY <2>1, NumberType DEF ListInv
  <2>3. PICK i \in DOMAIN heap[a] :
          i \in Nat /\ i >= j /\ heap'[a][j].number = heap[a][i].number
    BY <2>1, <2>2
  <2>4. j \in Nat BY <2>1, <2>2
  <2>5. i > emissions[e].at BY <1>1, <2>1, <2>2, <2>3, <2>4
  <2>6. emissions[e].called[k] < heap[a][i].number BY <2>1, <2>3, <2>5 DEF ListInv, Ahead
  <2> QED BY <2>1, <2>3, <2>6
<1>2. Distinct' BY DEF ListInv, Distinct
<1>3. InRegistrationOrder' BY DEF ListInv, InRegistrationOrder, SameEmissions
<1> QED BY <1>1, <1>2, <1>3 DEF Ahead

(* A new registration has the highest number: it is in order wherever it is *)
(* appended, and lies ahead of every emission.                              *)
LEMMA RegisterInv ==
  ASSUME ListInv, NEW l \in Listeners, NEW once \in BOOLEAN, Register(l, once)
  PROVE  ListInv'
<1> DEFINE m == Len(Current) + 1
<1>1. UNCHANGED <<emissions, removed, forgotten>> BY DEF Register
<1>2. /\ DOMAIN heap' = DOMAIN heap \cup {callbacks'}
      /\ \A a \in DOMAIN heap : a # callbacks' => heap'[a] = heap[a]
      /\ callbacks' \in DOMAIN heap => heap[callbacks'] = Current
      /\ callbacks' \notin DOMAIN heap => Current = <<>>
      /\ DOMAIN heap'[callbacks'] = 1 .. m
      /\ \A i \in 1 .. Len(Current) : heap'[callbacks'][i] = Current[i]
      /\ heap'[callbacks'][m].number = made + 1
  BY RegisterLists DEF ListInv, TypeInv
<1>3. Len(Current) \in Nat /\ DOMAIN Current = 1 .. Len(Current)
  BY CurrentType DEF ListInv, TypeInv
<1>4. made \in Nat BY NumberType DEF ListInv
<1>5. ASSUME NEW a \in DOMAIN heap', NEW i \in DOMAIN heap'[a]
      PROVE  \/ a \in DOMAIN heap /\ i \in DOMAIN heap[a] /\ heap'[a][i] = heap[a][i]
             \/ a = callbacks' /\ i = m /\ heap'[a][i].number = made + 1
  <2>1. CASE a # callbacks' BY <1>2, <2>1
  <2>2. CASE a = callbacks' /\ i = m BY <1>2, <2>2
  <2>3. CASE a = callbacks' /\ i # m
    <3>1. i \in 1 .. Len(Current) BY <1>2, <1>3, <2>3
    <3>2. Current # <<>> BY <1>3, <3>1, EmptySeq
    <3> QED BY <1>2, <1>3, <2>3, <3>1, <3>2
  <2> QED BY <2>1, <2>2, <2>3
<1>6. ASSUME NEW i \in DOMAIN heap'[callbacks'] PROVE i \in Nat /\ i <= m
  BY <1>2, <1>3
<1> HIDE DEF m
<1>7. TypeInv' BY RegisterType DEF ListInv
<1>8. Sorted'
  <2> SUFFICES ASSUME NEW a \in DOMAIN heap', NEW i \in DOMAIN heap'[a],
                      NEW j \in DOMAIN heap'[a], i < j
               PROVE  heap'[a][i].number < heap'[a][j].number
    BY DEF Sorted
  <2>1. CASE a \in DOMAIN heap /\ j \in DOMAIN heap[a] /\ heap'[a][j] = heap[a][j]
    <3>1. CASE a \in DOMAIN heap /\ i \in DOMAIN heap[a] /\ heap'[a][i] = heap[a][i]
      BY <2>1, <3>1 DEF ListInv, Sorted
    <3>2. CASE a = callbacks' /\ i = m
      <4>1. i \in Nat /\ j \in Nat /\ i <= m /\ j <= m /\ ~(i < j)
        BY <1>6, <3>2
      <4> QED BY <4>1
    <3> QED BY <1>5, <3>1, <3>2
  <2>2. CASE a = callbacks' /\ j = m /\ heap'[a][j].number = made + 1
    <3>1. i # m /\ a = callbacks' BY <1>6, <2>2
    <3>2. a \in DOMAIN heap /\ i \in DOMAIN heap[a] /\ heap'[a][i] = heap[a][i]
      BY <1>5, <3>1
    <3>3. heap[a][i].number \in Nat /\ heap[a][i].number <= made
      BY <3>2, NumberType DEF ListInv
    <3> QED BY <1>4, <2>2, <3>2, <3>3
  <2> QED BY <1>5, <2>1, <2>2
<1>9. Ahead'
  <2> SUFFICES ASSUME NEW e \in DOMAIN emissions, NEW k \in DOMAIN emissions[e].called,
                      NEW i \in DOMAIN heap'[emissions[e].array], i > emissions[e].at
               PROVE  emissions[e].called[k] < heap'[emissions[e].array][i].number
    BY <1>1 DEF Ahead
  <2> DEFINE a == emissions[e].array
  <2>1. a \in DOMAIN heap /\ emissions[e].called[k] \in Nat /\ emissions[e].called[k] <= made
    BY NumberType DEF ListInv
  <2>2. CASE i \in DOMAIN heap[a] /\ heap'[a][i] = heap[a][i]
    BY <2>1, <2>2 DEF ListInv, Ahead
  <2>3. CASE heap'[a][i].number = made + 1 BY <1>4, <2>1, <2>3
  <2>4. a \in DOMAIN heap' BY <1>2, <2>1
  <2> QED BY <1>5, <2>2, <2>3, <2>4
<1>10. Distinct'
  <2> SUFFICES ASSUME NEW a \in DOMAIN heap', NEW b \in DOMAIN heap', a # b,
                      NEW i \in DOMAIN heap'[a], NEW j \in DOMAIN heap'[b]
               PROVE  heap'[a][i].number # heap'[b][j].number
    BY DEF Distinct
  <2> DEFINE Old(c, n) == /\ c \in DOMAIN heap /\ n \in DOMAIN heap[c]
                          /\ heap'[c][n] = heap[c][n]
  <2>1. Old(a, i) => heap'[a][i].number \in Nat /\ heap'[a][i].number <= made
    BY NumberType DEF ListInv
  <2>2. Old(b, j) => heap'[b][j].number \in Nat /\ heap'[b][j].number <= made
    BY NumberType DEF ListInv
  <2>3. CASE Old(a, i) /\ Old(b, j) BY <2>3 DEF ListInv, Distinct
  <2>4. CASE Old(a, i) /\ heap'[b][j].number = made + 1 BY <1>4, <2>1, <2>4
  <2>5. CASE heap'[a][i].number = made + 1 /\ Old(b, j) BY <1>4, <2>2, <2>5
  <2>6. ~(a = callbacks' /\ b = callbacks') OBVIOUS
  <2>7. Old(a, i) \/ (a = callbacks' /\ heap'[a][i].number = made + 1) BY <1>5
  <2>8. Old(b, j) \/ (b = callbacks' /\ heap'[b][j].number = made + 1) BY <1>5
  <2> HIDE DEF Old
  <2> QED BY <2>3, <2>4, <2>5, <2>6, <2>7, <2>8
<1>11. Live'
  <2> SUFFICES ASSUME NEW a \in DOMAIN heap', NEW i \in DOMAIN heap'[a]
               PROVE  heap'[a][i].number \notin removed
    BY <1>1 DEF Live
  <2>1. CASE a \in DOMAIN heap /\ i \in DOMAIN heap[a] /\ heap'[a][i] = heap[a][i]
    BY <2>1 DEF ListInv, Live
  <2>2. CASE heap'[a][i].number = made + 1
    <3>1. \A n \in removed : n \in Nat /\ n <= made BY NumberType DEF ListInv
    <3> QED BY <1>4, <2>2, <3>1
  <2> QED BY <1>5, <2>1, <2>2
<1>12. InRegistrationOrder' BY <1>1 DEF ListInv, InRegistrationOrder
<1> QED BY <1>7, <1>8, <1>9, <1>10, <1>11, <1>12 DEF ListInv

(* The registration that off(ev, l) takes out is in no array any more.      *)
LEMMA OffInv ==
  ASSUME ListInv, NEW l \in Listeners, OffFound(l)
  PROVE  ListInv'
<1>1. PICK i \in DOMAIN Current :
           /\ callbacks \in DOMAIN heap /\ Current = heap[callbacks]
           /\ DOMAIN heap' = DOMAIN heap
           /\ \A a \in DOMAIN heap : a # callbacks => heap'[a] = heap[a]
           /\ DOMAIN heap'[callbacks] = 1 .. Len(Current) - 1
           /\ \A j \in 1 .. Len(Current) - 1 :
                heap'[callbacks][j] = IF j < i THEN Current[j] ELSE Current[j + 1]
           /\ removed' = removed \cup {Current[i].number}
           /\ SameEmissions
  BY OffLists DEF ListInv, TypeInv
<1>2. Len(Current) \in Nat /\ DOMAIN Current = 1 .. Len(Current) /\ i \in Nat
  BY CurrentType DEF ListInv, TypeInv
<1>3. ASSUME NEW a \in DOMAIN heap PROVE \A j \in DOMAIN heap[a] : j \in Nat
  BY Parts DEF ListInv, TypeInv
<1>4. ASSUME NEW j \in DOMAIN heap'[callbacks]
      PROVE  /\ j \in Nat
             /\ \/ j < i /\ j \in DOMAIN Current /\ heap'[callbacks][j] = Current[j]
                \/ /\ j >= i /\ j + 1 \in DOMAIN Current
                   /\ heap'[callbacks][j] = Current[j + 1]
  <2>1. j \in 1 .. Len(Current) - 1 BY <1>1
  <2>2. j \in Nat /\ j \in DOMAIN Current /\ j + 1 \in DOMAIN Current BY <1>2, <2>1
  <2>3. j < i \/ j >= i BY <1>2, <2>2
  <2> QED BY <1>1, <1>2, <2>1, <2>2, <2>3
<1>5. ASSUME NEW a \in DOMAIN heap, NEW j \in DOMAIN heap'[a]
      PROVE  j \in Nat /\ \E n \in DOMAIN heap[a] :
               n \in Nat /\ n >= j /\ heap'[a][j].number = heap[a][n].number
  <2>1. CASE a # callbacks
    <3>1. j \in DOMAIN heap[a] /\ heap'[a] = heap[a] BY <1>1, <2>1
    <3>2. j \in Nat BY <1>3, <3>1
    <3> QED BY <3>1, <3>2
  <2>2. CASE a = callbacks
    <3>1. CASE j < i /\ j \in DOMAIN Current /\ heap'[callbacks][j] = Current[j]
      BY <1>1, <1>4, <2>2, <3>1
    <3>2. CASE j + 1 \in DOMAIN Current /\ heap'[callbacks][j] = Current[j + 1]
      <4>1. j \in Nat /\ j + 1 \in Nat /\ j + 1 >= j BY <1>4, <2>2
      <4> QED BY <1>1, <2>2, <3>2, <4>1
    <3> QED BY <1>4, <2>2, <3>1, <3>2
  <2> QED BY <2>1, <2>2
<1>6. Ahead' /\ Distinct' /\ InRegistrationOrder' BY <1>1, <1>5, Shrinks
<1>7. Sorted'
  <2> SUFFICES ASSUME NEW a \in DOMAIN heap, NEW j \in DOMAIN heap'[a],
                      NEW n \in DOMAIN heap'[a], j < n
               PROVE  heap'[a][j].number < heap'[a][n].number
    BY <1>1 DEF Sorted
  <2>1. CASE a # callbacks BY <1>1, <2>1 DEF ListInv, Sorted
  <2>2. CASE a = callbacks
    <3>1. \A p, q \in DOMAIN Current : p < q => Current[p].number < Current[q].number
      BY <1>1 DEF ListInv, Sorted
    <3>2. j \in Nat /\ n \in Nat BY <1>4, <2>2
    <3>3. CASE n < i /\ n \in DOMAIN Current /\ heap'[callbacks][n] = Current[n]
      <4>1. j < i BY <1>2, <3>2, <3>3
      <4>2. j \in DOMAIN Current /\ heap'[callbacks][j] = Current[j]
        BY <1>2, <1>4, <2>2, <3>2, <4>1
      <4> QED BY <2>2, <3>1, <3>3, <4>2
    <3>4. CASE n + 1 \in DOMAIN Current /\ heap'[callbacks][n] = Current[n + 1]
      <4>1. j < n + 1 /\ j + 1 < n + 1 BY <3>2
      <4>2. CASE j \in DOMAIN Current /\ heap'[callbacks][j] = Current[j]
        BY <2>2, <3>1, <3>4, <4>1, <4>2
      <4>3. CASE j + 1 \in DOMAIN Current /\ heap'[callbacks][j] = Current[j + 1]
        BY <2>2, <3>1, <3>4, <4>1, <4>3
      <4> QED BY <1>4, <2>2, <4>2, <4>3
    <3> QED BY <1>4, <2>2, <3>3, <3>4
  <2> QED BY <2>1, <2>2
<1>8. Live'
  <2> SUFFICES ASSUME NEW a \in DOMAIN heap, NEW j \in DOMAIN heap'[a]
               PROVE  heap'[a][j].number \notin removed \cup {Current[i].number}
    BY <1>1 DEF Live
  <2>1. heap'[a][j].number \notin removed BY <1>5 DEF ListInv, Live
  <2>2. CASE a # callbacks
    <3>1. j \in DOMAIN heap[a] /\ heap'[a] = heap[a] BY <1>1, <2>2
    <3>2. heap[a][j].number # heap[callbacks][i].number
      BY <1>1, <2>2, <3>1 DEF ListInv, Distinct
    <3> QED BY <1>1, <2>1, <3>1, <3>2
  <2>3. CASE a = callbacks
    <3>1. \A p, q \in DOMAIN Current : p < q => Current[p].number < Current[q].number
      BY <1>1 DEF ListInv, Sorted
    <3>2. \A p \in DOMAIN Current : Current[p].number \in Nat
      BY <1>1, NumberType DEF ListInv
    <3>3. CASE j < i /\ j \in DOMAIN Current /\ heap'[callbacks][j] = Current[j]
      BY <2>1, <2>3, <3>1, <3>2, <3>3
    <3>4. CASE j >= i /\ j + 1 \in DOMAIN Current /\ heap'[callbacks][j] = Current[j + 1]
      <4>1. i < j + 1 BY <1>2, <1>4, <2>3, <3>4
      <4>2. Current[i].number < Current[j + 1].number BY <3>1, <3>4, <4>1
      <4> QED BY <2>1, <2>3, <3>2, <3>4, <4>2
    <3> QED BY <1>4, <2>3, <3>3, <3>4
  <2> QED BY <2>2, <2>3
<1>9. TypeInv' BY OffType DEF ListInv
<1> QED BY <1>6, <1>7, <1>8, <1>9 DEF ListInv

(* off(ev) leaves an empty array, and its numbers are nowhere else.         *)
LEMMA OffEventInv ==
  ASSUME ListInv, OffEvent
  PROVE  ListInv'
<1>1. /\ callbacks \in DOMAIN heap /\ Current = heap[callbacks]
      /\ DOMAIN heap' = DOMAIN heap
      /\ \A a \in DOMAIN heap : a # callbacks => heap'[a] = heap[a]
      /\ DOMAIN heap'[callbacks] = {}
      /\ removed' = removed \cup Numbers(Current)
      /\ SameEmissions
  BY OffEventLists, EmptySeq DEF OffEvent, ListInv, TypeInv
<1>2. ASSUME NEW a \in DOMAIN heap, NEW j \in DOMAIN heap'[a]
      PROVE  /\ a # callbacks /\ j \in DOMAIN heap[a] /\ heap'[a] = heap[a]
             /\ j \in Nat
  <2>1. a # callbacks /\ j \in DOMAIN heap[a] /\ heap'[a] = heap[a] BY <1>1
  <2> QED BY <2>1, Parts DEF ListInv, TypeInv
<1>3. ASSUME NEW a \in DOMAIN heap, NEW j \in DOMAIN heap'[a]
      PROVE  j \in Nat /\ \E n \in DOMAIN heap[a] :
               n \in Nat /\ n >= j /\ heap'[a][j].number = heap[a][n].number
  <2>1. j \in DOMAIN heap[a] /\ heap'[a] = heap[a] /\ j \in Nat BY <1>2
  <2> QED BY <2>1
<1>4. Ahead' /\ Distinct' /\ InRegistrationOrder' BY <1>1, <1>3, Shrinks
<1>5. Sorted' BY <1>1, <1>2 DEF ListInv, Sorted
<1>6. Live'
  <2> SUFFICES ASSUME NEW a \in DOMAIN heap, NEW j \in DOMAIN heap'[a]
               PROVE  heap'[a][j].number \notin removed \cup Numbers(Current)
    BY <1>1 DEF Live
  <2>1. heap[a][j].number \notin removed BY <1>2 DEF ListInv, Live
  <2>2. \A i \in DOMAIN Current : heap[a][j].number # Current[i].number
    BY <1>1, <1>2 DEF ListInv, Distinct
  <2> QED BY <1>2, <2>1, <2>2 DEF Numbers
<1>7. TypeInv' BY OffEventType DEF ListInv
<1> QED BY <1>4, <1>5, <1>6, <1>7 DEF ListInv

(* off() touches no array. *)
LEMMA OffAllInv ==
  ASSUME ListInv, OffAll
  PROVE  ListInv'
<1>1. UNCHANGED <<heap, emissions, removed>> BY DEF OffAll
<1>2. TypeInv' BY OffAllType DEF ListInv
<1> QED BY <1>1, <1>2 DEF ListInv, Sorted, Ahead, Distinct, Live, InRegistrationOrder

(* A new emission has called the first of its array, which is in order.     *)
LEMMA EmitInv ==
  ASSUME ListInv, Emit
  PROVE  ListInv'
<1> DEFINE z == Len(emissions) + 1
<1>1. UNCHANGED <<heap, removed>> BY DEF Emit
<1>2. /\ callbacks \in DOMAIN heap /\ Current = heap[callbacks]
      /\ DOMAIN emissions' = 1 .. z
      /\ \A e \in DOMAIN emissions : emissions'[e] = emissions[e]
      /\ emissions'[z].array = callbacks
      /\ \/ DOMAIN emissions'[z].called = {}
         \/ /\ 1 \in DOMAIN Current /\ emissions'[z].at = 1
            /\ DOMAIN emissions'[z].called = {1}
            /\ emissions'[z].called[1] = Current[1].number
  BY EmitLists DEF ListInv, TypeInv
<1>3. ASSUME NEW e \in DOMAIN emissions', e # z PROVE e \in DOMAIN emissions
  BY <1>2, <1>3, Parts DEF ListInv, TypeInv
<1> HIDE DEF z
<1>4. Ahead'
  <2> SUFFICES ASSUME NEW e \in DOMAIN emissions', NEW k \in DOMAIN emissions'[e].called,
                      NEW i \in DOMAIN heap[emissions'[e].array], i > emissions'[e].at
               PROVE  emissions'[e].called[k] < heap[emissions'[e].array][i].number
    BY <1>1 DEF Ahead
  <2>1. CASE e = z
    <3>1. /\ k = 1 /\ i > 1 /\ 1 \in DOMAIN heap[callbacks] /\ i \in DOMAIN heap[callbacks]
          /\ emissions'[z].called[k] = heap[callbacks][1].number
      BY <1>2, <2>1
    <3>2. i \in Nat BY <1>2, <3>1, Parts DEF ListInv, TypeInv
    <3>3. 1 < i BY <3>1, <3>2
    <3>4. heap[callbacks][1].number < heap[callbacks][i].number
      BY <1>2, <3>1, <3>3 DEF ListInv, Sorted
    <3> QED BY <1>2, <2>1, <3>1, <3>4
  <2>2. CASE e # z BY <1>2, <1>3, <2>2 DEF ListInv, Ahead
  <2> QED BY <2>1, <2>2
<1>5. InRegistrationOrder'
  <2> SUFFICES ASSUME NEW e \in DOMAIN emissions', NEW i \in DOMAIN emissions'[e].called,
                      NEW j \in DOMAIN emissions'[e].called, i < j
               PROVE  emissions'[e].called[i] < emissions'[e].called[j]
    BY DEF InRegistrationOrder
  <2>1. e # z BY <1>2
  <2> QED BY <1>2, <1>3, <2>1 DEF ListInv, InRegistrationOrder
<1>6. Sorted' /\ Distinct' /\ Live' BY <1>1 DEF ListInv, Sorted, Distinct, Live
<1>7. TypeInv' BY EmitType DEF ListInv
<1> QED BY <1>4, <1>5, <1>6, <1>7 DEF ListInv

(* An emission goes on to a listener that lies ahead of all it has called.  *)
LEMMA ContinueInv ==
  ASSUME ListInv, NEW e \in DOMAIN emissions, Continue(e) \/ Throw(e)
  PROVE  ListInv'
<1> DEFINE at == emissions[e].at + 1
           n  == Len(emissions[e].called)
           list == heap[emissions[e].array]
<1>1. UNCHANGED <<heap, removed>> BY DEF Continue, Throw
<1>2. /\ DOMAIN emissions' = DOMAIN emissions
      /\ \A f \in DOMAIN emissions : f # e => emissions'[f] = emissions[f]
      /\ emissions'[e].array = emissions[e].array
      /\ \/ emissions'[e].at = emissions[e].at /\ emissions'[e].called = emissions[e].called
         \/ /\ at \in DOMAIN list /\ emissions'[e].at = at
            /\ DOMAIN emissions'[e].called = 1 .. n + 1
            /\ \A k \in 1 .. n : emissions'[e].called[k] = emissions[e].called[k]
            /\ emissions'[e].called[n + 1] = list[at].number
  BY ContinueLists DEF ListInv
<1>3. /\ emissions[e].array \in DOMAIN heap /\ emissions[e].at \in Nat
      /\ n \in Nat /\ DOMAIN emissions[e].called = 1 .. n
      /\ \A i \in DOMAIN list : i \in Nat /\ list[i].number \in Nat
      /\ \A k \in DOMAIN emissions[e].called : emissions[e].called[k] \in Nat
  BY Parts, NumberType DEF ListInv, TypeInv
<1>4. /\ \A k \in 1 .. n, i \in DOMAIN list :
           i > emissions[e].at => emissions[e].called[k] < list[i].number
      /\ \A i, j \in DOMAIN list : i < j => list[i].number < list[j].number
      /\ \A i, j \in 1 .. n : i < j => emissions[e].called[i] < emissions[e].called[j]
  BY <1>3 DEF ListInv, Ahead, Sorted, InRegistrationOrder
<1>5. at > emissions[e].at /\ at \in Nat BY <1>3
<1> HIDE DEF at, n, list
<1>6. Ahead'
  <2> SUFFICES ASSUME NEW f \in DOMAIN emissions, NEW k \in DOMAIN emissions'[f].called,
                      NEW i \in DOMAIN heap[emissions'[f].array], i > emissions'[f].at
               PROVE  emissions'[f].called[k] < heap[emissions'[f].array][i].number
    BY <1>1, <1>2 DEF Ahead
  <2>1. CASE f # e BY <1>2, <2>1 DEF ListInv, Ahead
  <2>2. CASE /\ f = e /\ emissions'[e].at = emissions[e].at
             /\ emissions'[e].called = emissions[e].called
    BY <1>2, <2>2 DEF ListInv, Ahead
  <2>3. CASE /\ f = e /\ at \in DOMAIN list /\ emissions'[e].at = at
             /\ DOMAIN emissions'[e].called = 1 .. n + 1
             /\ \A m \in 1 .. n : emissions'[e].called[m] = emissions[e].called[m]
             /\ emissions'[e].called[n + 1] = list[at].number
    <3>1. i \in DOMAIN list /\ i \in Nat /\ i > at /\ heap[emissions'[f].array] = list
      BY <1>2, <1>3, <2>3 DEF list
    <3>2. at < i /\ i > emissions[e].at BY <1>3, <1>5, <3>1
    <3>3. CASE k = n + 1 BY <1>4, <2>3, <3>1, <3>2, <3>3
    <3>4. CASE k \in 1 .. n BY <1>4, <2>3, <3>1, <3>2, <3>4
    <3>5. k = n + 1 \/ k \in 1 .. n BY <1>3, <2>3
    <3> QED BY <3>3, <3>4, <3>5
  <2> QED BY <1>2, <2>1, <2>2, <2>3
<1>7. InRegistrationOrder'
  <2> SUFFICES ASSUME NEW f \in DOMAIN emissions, NEW i \in DOMAIN emissions'[f].called,
                      NEW j \in DOMAIN emissions'[f].called, i < j
               PROVE  emissions'[f].called[i] < emissions'[f].called[j]
    BY <1>2 DEF InRegistrationOrder
  <2>1. CASE f # e BY <1>2, <2>1 DEF ListInv, InRegistrationOrder
  <2>2. CASE f = e /\ emissions'[e].called = emissions[e].called
    BY <2>2 DEF ListInv, InRegistrationOrder
  <2>3. CASE /\ f = e /\ at \in DOMAIN list
             /\ DOMAIN emissions'[e].called = 1 .. n + 1
             /\ \A m \in 1 .. n : emissions'[e].called[m] = emissions[e].called[m]
             /\ emissions'[e].called[n + 1] = list[at].number
    <3>1. i \in 1 .. n /\ (j = n + 1 \/ j \in 1 .. n) BY <1>3, <2>3
    <3>2. CASE j = n + 1 BY <1>4, <1>5, <2>3, <3>1, <3>2
    <3>3. CASE j \in 1 .. n BY <1>4, <2>3, <3>1, <3>3
    <3> QED BY <3>1, <3>2, <3>3
  <2> QED BY <1>2, <2>1, <2>2, <2>3
<1>8. Sorted' /\ Distinct' /\ Live' BY <1>1 DEF ListInv, Sorted, Distinct, Live
<1>9. TypeInv' BY ContinueType DEF ListInv
<1> QED BY <1>6, <1>7, <1>8, <1>9 DEF ListInv

LEMMA InitInv == Init => ListInv
<1> SUFFICES ASSUME Init PROVE ListInv OBVIOUS
<1>1. DOMAIN heap = {} /\ DOMAIN emissions = {} BY EmptySeq DEF Init
<1> QED BY <1>1, InitType
        DEF ListInv, Sorted, Ahead, Distinct, Live, InRegistrationOrder

(* Every step keeps the arrays in order and apart.                          *)
LEMMA NextInv == ListInv /\ [Next]_vars => ListInv'
<1> SUFFICES ASSUME ListInv, [Next]_vars PROVE ListInv' OBVIOUS
<1>1. ASSUME NEW l \in Listeners, On(l) \/ Once(l) PROVE ListInv'
  BY <1>1, RegisterInv DEF On, Once
<1>2. CASE UNCHANGED vars
  <2>1. TypeInv' BY NextType DEF ListInv
  <2> QED BY <1>2, <2>1
          DEF vars, ListInv, Sorted, Ahead, Distinct, Live, InRegistrationOrder
<1> QED BY <1>1, <1>2, OffSplit, OffInv, OffEventInv, OffAllInv, EmitInv, ContinueInv DEF Next

(* Only the emission that goes on calls a listener, one that lies ahead and *)
(* was therefore not removed. *)
LEMMA CallsLive ==
  ListInv /\ [Next]_vars =>
    [\A e \in DOMAIN emissions :
       LET c == emissions'[e].called
       IN Len(c) > Len(emissions[e].called) => Last(c) \notin removed]_vars
<1> SUFFICES ASSUME ListInv, Next, NEW e \in DOMAIN emissions,
                    Len(emissions'[e].called) > Len(emissions[e].called)
             PROVE  Last(emissions'[e].called) \notin removed
  OBVIOUS
<1>1. Len(emissions[e].called) \in Nat BY Parts DEF ListInv, TypeInv
<1>2. emissions'[e].called # emissions[e].called BY <1>1
<1>3. ASSUME SameEmissions \/ UNCHANGED emissions PROVE FALSE
  BY <1>2, <1>3 DEF SameEmissions
<1>4. \A l \in Listeners : ~On(l) /\ ~Once(l) BY <1>3 DEF On, Once, Register
<1>5. \A l \in Listeners : ~OffFound(l) BY <1>3, OffLists DEF ListInv, TypeInv
<1>6. ~OffEvent /\ ~OffAll BY <1>3, OffEventLists DEF OffAll, ListInv, TypeInv
<1>7. ~Emit BY <1>2, EmitLists DEF ListInv, TypeInv
<1>8. PICK f \in DOMAIN emissions : Continue(f) \/ Throw(f)
  BY <1>4, <1>5, <1>6, <1>7, OffSplit DEF Next
<1>9. f = e BY <1>2, <1>8, ContinueLists DEF ListInv
<1> DEFINE at == emissions[e].at + 1
           n  == Len(emissions[e].called)
<1>10. /\ at \in DOMAIN heap[emissions[e].array]
       /\ emissions'[e].called[n + 1] = heap[emissions[e].array][at].number
       /\ Len(emissions'[e].called) = n + 1
  BY <1>2, <1>8, <1>9, ContinueLists DEF ListInv
<1>11. emissions[e].array \in DOMAIN heap BY NumberType DEF ListInv
<1>12. heap[emissions[e].array][at].number \notin removed BY <1>10, <1>11 DEF ListInv, Live
<1> QED BY <1>10, <1>12 DEF Last

(***************************************************************************)
(* What an emission passes over                                             *)
(***************************************************************************)
(* The places that an emission is past and where it called nothing that is  *)
(* there now.  Places past the end of the array count: a registration to    *)
(* come is appended there, and the emission will not call it.               *)
Gap(at, called, list) ==
  {n \in 1 .. at : n \in DOMAIN list => \A k \in DOMAIN called : called[k] # list[n].number}
GapOf(e) == Gap(emissions[e].at, emissions[e].called, heap[emissions[e].array])
GapInv == \A e \in DOMAIN emissions : Cardinality(GapOf(e)) <= emissions[e].shifts

(* There are finitely many of them. *)
LEMMA GapFinite ==
  ASSUME NEW at \in Nat, NEW called, NEW list
  PROVE  /\ IsFiniteSet(Gap(at, called, list))
         /\ Cardinality(Gap(at, called, list)) \in Nat
<1>1. IsFiniteSet(1 .. at) BY FS_Interval
<1>2. Gap(at, called, list) \in SUBSET (1 .. at) BY DEF Gap
<1>3. IsFiniteSet(Gap(at, called, list)) BY <1>1, <1>2, FS_Subset
<1> QED BY <1>3, FS_CardinalityType

(* Fewer places are no more than many. *)
LEMMA Fewer ==
  ASSUME NEW at \in Nat, NEW called, NEW list, NEW T, T \subseteq Gap(at, called, list)
  PROVE  IsFiniteSet(T) /\ Cardinality(T) \in Nat
         /\ Cardinality(T) <= Cardinality(Gap(at, called, list))
<1> DEFINE S == Gap(at, called, list)
<1>1. IsFiniteSet(S) /\ T \in SUBSET S BY GapFinite
<1> HIDE DEF S
<1>2. IsFiniteSet(T) /\ Cardinality(T) <= Cardinality(S) BY <1>1, FS_Subset
<1>3. Cardinality(T) \in Nat BY <1>2, FS_CardinalityType
<1> QED BY <1>2, <1>3 DEF S

(* A splice at a place that the emission is past moves the rest towards it: *)
(* one more place at most holds what it has not called.                     *)
LEMMA SplicedGap ==
  ASSUME NEW at \in Nat, NEW called, NEW list, NEW rest, NEW L \in Nat, NEW i \in 1 .. L,
         DOMAIN list = 1 .. L, DOMAIN rest = 1 .. L - 1,
         \A j \in 1 .. L - 1 : rest[j] = IF j < i THEN list[j] ELSE list[j + 1]
  PROVE  /\ i <= at => Cardinality(Gap(at, called, rest)) <= Cardinality(Gap(at, called, list)) + 1
         /\ ~(i <= at) => Cardinality(Gap(at, called, rest)) <= Cardinality(Gap(at, called, list))
<1> DEFINE G == Gap(at, called, list)
           H == Gap(at, called, rest)
<1>1. CASE i <= at
  <2> DEFINE f == [n \in H \ {at} |-> IF n < i THEN n ELSE n + 1]
  <2>1. ASSUME NEW n \in H \ {at} PROVE f[n] \in G
    <3>1. n \in 1 .. at /\ n # at /\ n \in Nat /\ n + 1 \in 1 .. at BY DEF Gap
    <3>2. CASE n \in DOMAIN rest
      <4>1. \A k \in DOMAIN called : called[k] # rest[n].number BY <3>2 DEF Gap
      <4>2. CASE n < i
        <5>1. f[n] = n /\ rest[n] = list[n] BY <3>2, <4>2
        <5> HIDE DEF f, H
        <5> QED BY <3>1, <4>1, <5>1 DEF Gap
      <4>3. CASE ~(n < i)
        <5>1. f[n] = n + 1 /\ rest[n] = list[n + 1] BY <3>2, <4>3
        <5> HIDE DEF f, H
        <5> QED BY <3>1, <4>1, <5>1 DEF Gap
      <4> QED BY <4>2, <4>3
    <3>3. CASE n \notin DOMAIN rest
      <4>1. n >= L BY <3>1, <3>3
      <4>2. ~(n < i) /\ n + 1 \notin DOMAIN list BY <3>1, <4>1
      <4>3. f[n] = n + 1 BY <4>2
      <4> HIDE DEF f, H
      <4> QED BY <3>1, <4>2, <4>3 DEF Gap
    <3> QED BY <3>2, <3>3
  <2>2. ASSUME NEW m \in H \ {at}, NEW n \in H \ {at}, f[m] = f[n] PROVE m = n
    <3>1. m \in Nat /\ n \in Nat BY DEF Gap
    <3>2. (IF m < i THEN m ELSE m + 1) = (IF n < i THEN n ELSE n + 1) BY <2>2
    <3> QED BY <3>1, <3>2
  <2>3. f \in [H \ {at} -> G] BY <2>1
  <2> HIDE DEF f, G, H
  <2>4. f \in Injection(H \ {at}, G) BY <2>2, <2>3 DEF Injection, IsInjective
  <2>5. IsFiniteSet(G) /\ Cardinality(G) \in Nat /\ IsFiniteSet(H) /\ Cardinality(H) \in Nat
    BY GapFinite DEF G, H
  <2>6. Cardinality(H \ {at}) <= Cardinality(G) BY <2>4, <2>5, FS_Injection
  <2>7. Cardinality(H \ {at}) = IF at \in H THEN Cardinality(H) - 1 ELSE Cardinality(H)
    BY <2>5, FS_RemoveElement
  <2>8. Cardinality(H) <= Cardinality(G) + 1 BY <2>5, <2>6, <2>7
  <2> QED BY <1>1, <2>8 DEF G, H
<1>2. CASE ~(i <= at)
  <2>1. ASSUME NEW n \in H PROVE n \in G
    <3>1. n \in 1 .. at /\ n < i /\ n \in 1 .. L - 1 BY <1>2 DEF Gap
    <3>2. n \in DOMAIN rest /\ rest[n] = list[n] BY <3>1
    <3> QED BY <3>1, <3>2 DEF Gap
  <2>2. H \subseteq G BY <2>1
  <2> QED BY <1>2, <2>2, Fewer
<1> QED BY <1>1, <1>2

(* An array that is emptied: every place that held a listener may be one.   *)
LEMMA EmptiedGap ==
  ASSUME NEW at \in Nat, NEW called, NEW list, NEW L \in Nat, DOMAIN list = 1 .. L
  PROVE  LET past == {i \in DOMAIN list : i <= at}
         IN /\ Cardinality(past) \in Nat
            /\ Cardinality(Gap(at, called, <<>>))
                 <= Cardinality(Gap(at, called, list)) + Cardinality(past)
<1> DEFINE G == Gap(at, called, list)
           H == Gap(at, called, <<>>)
           P == {i \in DOMAIN list : i <= at}
<1>1. H \in SUBSET (G \cup P) BY DEF Gap
<1>2. IsFiniteSet(G) /\ Cardinality(G) \in Nat /\ Cardinality(H) \in Nat BY GapFinite
<1>3. IsFiniteSet(P)
  <2>1. IsFiniteSet(1 .. L) BY FS_Interval
  <2>2. P \in SUBSET (1 .. L) OBVIOUS
  <2> QED BY <2>1, <2>2, FS_Subset
<1> HIDE DEF G, H, P
<1>4. Cardinality(P) \in Nat BY <1>3, FS_CardinalityType
<1>5. /\ IsFiniteSet(G \cup P)
      /\ Cardinality(G \cup P) = Cardinality(G) + Cardinality(P) - Cardinality(G \cap P)
  BY <1>2, <1>3, FS_Union
<1>6. Cardinality(G \cap P) \in Nat
  <2>1. IsFiniteSet(G \cap P) BY <1>2, FS_Intersection
  <2> QED BY <2>1, FS_CardinalityType
<1>7. Cardinality(H) <= Cardinality(G \cup P) BY <1>1, <1>5, FS_Subset
<1>8. Cardinality(H) <= Cardinality(G) + Cardinality(P) BY <1>2, <1>4, <1>5, <1>6, <1>7
<1> QED BY <1>4, <1>8 DEF G, H, P

(* An emission calls listeners in the order of registration, none of them   *)
(* twice, whatever happens to the list under it (emitReserved).             *)
THEOREM OrderCorrect == Spec => []InRegistrationOrder
<1>1. ListInv => InRegistrationOrder BY DEF ListInv
<1> QED BY <1>1, InitInv, NextInv, PTL DEF Spec

(* After off(ev, ...) no emission calls what was removed, not even one that *)
(* was running, for any number of emissions and registrations (off).        *)
THEOREM OffIsFinalCorrect == Spec => OffIsFinal
BY InitInv, NextInv, CallsLive, PTL DEF Spec, OffIsFinal
(* Of two emissions that are alike, over lists of which the first holds     *)
(* what the second does, the first has no more places than the second.      *)
LEMMA SameGap ==
  ASSUME NEW at \in Nat, NEW called, NEW list, NEW longer, NEW L \in Nat,
         DOMAIN list = 1 .. L, DOMAIN list \subseteq DOMAIN longer,
         \A i \in DOMAIN list : longer[i] = list[i]
  PROVE  Cardinality(Gap(at, called, longer)) <= Cardinality(Gap(at, called, list))
<1>1. Gap(at, called, longer) \subseteq Gap(at, called, list) BY DEF Gap
<1> QED BY <1>1, Fewer

(* The account of removals, for each emission. *)
LEMMA ShiftedShifts ==
  ASSUME Typed, NEW places, emissions' = Shifted(places), NEW e \in DOMAIN emissions
  PROVE  emissions'[e].shifts =
           IF emissions[e].array = callbacks
           THEN emissions[e].shifts + Cardinality({i \in places : i <= emissions[e].at})
           ELSE emissions[e].shifts
<1> DEFINE n == Cardinality({i \in places : i <= emissions[e].at})
<1>1. emissions'[e] = IF emissions[e].array = callbacks
                      THEN [emissions[e] EXCEPT !.shifts = @ + n] ELSE emissions[e]
  BY DEF Shifted
<1> HIDE DEF n
<1>2. emissions[e] \in Running BY Parts
<1>3. CASE emissions[e].array = callbacks
  <2>1. emissions'[e] = [emissions[e] EXCEPT !.shifts = emissions[e].shifts + n]
    BY <1>1, <1>3, <1>2 DEF Running
  <2> QED BY <1>2, <1>3, <2>1 DEF Running, n
<1>4. CASE emissions[e].array # callbacks BY <1>1, <1>4
<1> QED BY <1>3, <1>4

(* What the counts of an emission are made of. *)
LEMMA GapTypes ==
  ASSUME TypeInv, NEW e \in DOMAIN emissions
  PROVE  /\ emissions[e].at \in Nat /\ emissions[e].shifts \in Nat
         /\ emissions[e].array \in DOMAIN heap
         /\ Len(heap[emissions[e].array]) \in Nat
         /\ DOMAIN heap[emissions[e].array] = 1 .. Len(heap[emissions[e].array])
         /\ Cardinality(GapOf(e)) \in Nat
<1>1. /\ emissions[e].at \in Nat /\ emissions[e].shifts \in Nat
      /\ emissions[e].array \in DOMAIN heap
  BY Parts DEF TypeInv, Numbered, Running
<1>2. Cardinality(GapOf(e)) \in Nat BY <1>1, GapFinite DEF GapOf
<1> QED BY <1>1, <1>2, Parts DEF TypeInv

(* A registration is appended: no place is added before the end.            *)
LEMMA RegisterGap ==
  ASSUME TypeInv, GapInv, NEW l \in Listeners, NEW once \in BOOLEAN, Register(l, once)
  PROVE  GapInv'
<1>1. emissions' = emissions BY DEF Register
<1>2. ASSUME NEW e \in DOMAIN emissions
      PROVE  Cardinality(Gap(emissions[e].at, emissions[e].called, heap'[emissions[e].array]))
               <= emissions[e].shifts
  <2> DEFINE list == heap[emissions[e].array]
             longer == heap'[emissions[e].array]
  <2>1. /\ emissions[e].at \in Nat /\ emissions[e].shifts \in Nat
        /\ emissions[e].array \in DOMAIN heap
        /\ Len(list) \in Nat /\ DOMAIN list = 1 .. Len(list)
        /\ Cardinality(GapOf(e)) \in Nat /\ Cardinality(GapOf(e)) <= emissions[e].shifts
    BY GapTypes DEF GapInv
  <2>2. DOMAIN list \subseteq DOMAIN longer /\ \A i \in DOMAIN list : longer[i] = list[i]
    <3>1. CASE emissions[e].array # callbacks' BY <2>1, <3>1, RegisterLists DEF TypeInv
    <3>2. CASE emissions[e].array = callbacks'
      <4>1. list = Current BY <2>1, <3>2, RegisterLists DEF TypeInv
      <4>2. /\ DOMAIN longer = 1 .. Len(Current) + 1
            /\ \A i \in 1 .. Len(Current) : longer[i] = Current[i]
        BY <3>2, RegisterLists DEF TypeInv
      <4> HIDE DEF list, longer
      <4> QED BY <2>1, <4>1, <4>2
    <3> QED BY <3>1, <3>2
  <2> HIDE DEF list, longer
  <2> DEFINE n == Cardinality(Gap(emissions[e].at, emissions[e].called, longer))
  <2>3. n <= Cardinality(Gap(emissions[e].at, emissions[e].called, list))
    BY <2>1, <2>2, SameGap
  <2>4. n \in Nat BY <2>1, GapFinite
  <2> HIDE DEF n
  <2>5. Cardinality(GapOf(e)) = Cardinality(Gap(emissions[e].at, emissions[e].called, list))
    BY DEF GapOf, list
  <2>6. n <= emissions[e].shifts BY <2>1, <2>3, <2>4, <2>5
  <2> QED BY <2>6 DEF n, longer
<1> QED BY <1>1, <1>2 DEF GapInv, GapOf

(* off(ev, l): the place that an emission may now have passed over is the   *)
(* one that the removal is counted for. *)
LEMMA OffGap ==
  ASSUME TypeInv, GapInv, NEW l \in Listeners, OffFound(l)
  PROVE  GapInv'
<1>1. PICK i \in DOMAIN Current :
           /\ callbacks \in DOMAIN heap /\ Current = heap[callbacks]
           /\ DOMAIN heap' = DOMAIN heap
           /\ \A a \in DOMAIN heap : a # callbacks => heap'[a] = heap[a]
           /\ DOMAIN heap'[callbacks] = 1 .. Len(Current) - 1
           /\ \A j \in 1 .. Len(Current) - 1 :
                heap'[callbacks][j] = IF j < i THEN Current[j] ELSE Current[j + 1]
           /\ SameEmissions /\ emissions' = Shifted({i})
  BY OffLists DEF TypeInv
<1>2. ASSUME NEW e \in DOMAIN emissions
      PROVE  Cardinality(Gap(emissions[e].at, emissions[e].called, heap'[emissions[e].array]))
               <= emissions'[e].shifts
  <2>1. /\ emissions[e].at \in Nat /\ emissions[e].shifts \in Nat
        /\ emissions[e].array \in DOMAIN heap
        /\ Cardinality(GapOf(e)) \in Nat /\ Cardinality(GapOf(e)) <= emissions[e].shifts
    BY GapTypes DEF GapInv
  <2>2. CASE emissions[e].array # callbacks
    <3>1. emissions'[e].shifts = emissions[e].shifts
      BY <1>1, <2>2, ShiftedShifts DEF TypeInv
    <3>2. heap'[emissions[e].array] = heap[emissions[e].array] BY <1>1, <2>1, <2>2
    <3> QED BY <2>1, <3>1, <3>2 DEF GapOf
  <2>3. CASE emissions[e].array = callbacks
    <3> DEFINE at == emissions[e].at
               called == emissions[e].called
               rest == heap'[callbacks]
               list == Current
               m == Cardinality(Gap(at, called, list))
               n == Cardinality(Gap(at, called, rest))
               past == {j \in {i} : j <= at}
    <3>1. emissions'[e].shifts = emissions[e].shifts + Cardinality(past)
      BY <1>1, <2>3, ShiftedShifts DEF TypeInv
    <3>2. /\ Len(list) \in Nat /\ DOMAIN list = 1 .. Len(list) /\ i \in 1 .. Len(list)
          /\ at \in Nat
      BY <2>1, CurrentType DEF TypeInv
    <3>3. /\ DOMAIN rest = 1 .. Len(list) - 1
          /\ \A j \in 1 .. Len(list) - 1 : rest[j] = IF j < i THEN list[j] ELSE list[j + 1]
      BY <1>1
    <3>4. m = Cardinality(GapOf(e)) BY <1>1, <2>3 DEF GapOf
    <3>5. Cardinality(past) = IF i <= at THEN 1 ELSE 0
      <4>1. i <= at => past = {i} OBVIOUS
      <4>2. ~(i <= at) => past = {} OBVIOUS
      <4> QED BY <4>1, <4>2, FS_Singleton, FS_EmptySet
    <3> HIDE DEF at, called, rest, list, past
    <3>6. (i <= at => n <= m + 1) /\ (~(i <= at) => n <= m)
      BY <3>2, <3>3, SplicedGap
    <3>7. m \in Nat /\ n \in Nat BY <3>2, GapFinite
    <3> HIDE DEF m, n
    <3>8. n <= emissions'[e].shifts BY <2>1, <3>1, <3>4, <3>5, <3>6, <3>7
    <3> QED BY <2>3, <3>8 DEF n, at, called, rest
  <2> QED BY <2>2, <2>3
<1> QED BY <1>1, <1>2 DEF GapInv, GapOf, SameEmissions

(* off(ev): every listener before the place of an emission is counted.      *)
LEMMA OffEventGap ==
  ASSUME TypeInv, GapInv, OffEvent
  PROVE  GapInv'
<1>1. /\ callbacks \in DOMAIN heap /\ Current = heap[callbacks]
      /\ \A a \in DOMAIN heap : a # callbacks => heap'[a] = heap[a]
      /\ heap'[callbacks] = <<>>
      /\ SameEmissions /\ emissions' = Shifted(DOMAIN Current)
  BY OffEventLists DEF TypeInv, OffEvent
<1>2. ASSUME NEW e \in DOMAIN emissions
      PROVE  Cardinality(Gap(emissions[e].at, emissions[e].called, heap'[emissions[e].array]))
               <= emissions'[e].shifts
  <2>1. /\ emissions[e].at \in Nat /\ emissions[e].shifts \in Nat
        /\ emissions[e].array \in DOMAIN heap
        /\ Cardinality(GapOf(e)) \in Nat /\ Cardinality(GapOf(e)) <= emissions[e].shifts
    BY GapTypes DEF GapInv
  <2>2. CASE emissions[e].array # callbacks
    <3>1. emissions'[e].shifts = emissions[e].shifts
      BY <1>1, <2>2, ShiftedShifts DEF TypeInv
    <3>2. heap'[emissions[e].array] = heap[emissions[e].array] BY <1>1, <2>1, <2>2
    <3> QED BY <2>1, <3>1, <3>2 DEF GapOf
  <2>3. CASE emissions[e].array = callbacks
    <3> DEFINE at == emissions[e].at
               called == emissions[e].called
               list == Current
               m == Cardinality(Gap(at, called, list))
               n == Cardinality(Gap(at, called, <<>>))
               p == Cardinality({i \in DOMAIN list : i <= at})
    <3>1. emissions'[e].shifts = emissions[e].shifts + p
      BY <1>1, <2>3, ShiftedShifts DEF TypeInv
    <3>2. Len(list) \in Nat /\ DOMAIN list = 1 .. Len(list) /\ at \in Nat
      BY <2>1, CurrentType DEF TypeInv
    <3>3. m = Cardinality(GapOf(e)) BY <1>1, <2>3 DEF GapOf
    <3> HIDE DEF at, called, list
    <3>4. n <= m + p /\ p \in Nat BY <3>2, EmptiedGap
    <3>5. m \in Nat /\ n \in Nat BY <3>2, GapFinite
    <3> HIDE DEF m, n, p
    <3>6. n <= emissions'[e].shifts BY <2>1, <3>1, <3>3, <3>4, <3>5
    <3> QED BY <1>1, <2>3, <3>6 DEF n, at, called
  <2> QED BY <2>2, <2>3
<1> QED BY <1>1, <1>2 DEF GapInv, GapOf, SameEmissions

(* A new emission has called all that it is past. *)
LEMMA EmitGap ==
  ASSUME TypeInv, GapInv, Emit
  PROVE  GapInv'
<1> DEFINE z == Len(emissions) + 1
<1>1. heap' = heap BY DEF Emit
<1>2. /\ Current = heap[callbacks]
      /\ emissions' \in Seq(Running) /\ DOMAIN emissions' = 1 .. z
      /\ \A e \in DOMAIN emissions : emissions'[e] = emissions[e]
      /\ emissions'[z].array = callbacks
      /\ \/ DOMAIN emissions'[z].called = {} /\ emissions'[z].at = 0
         \/ /\ 1 \in DOMAIN Current /\ emissions'[z].at = 1
            /\ DOMAIN emissions'[z].called = {1}
            /\ emissions'[z].called[1] = Current[1].number
  BY EmitLists DEF TypeInv
<1>3. ASSUME NEW e \in DOMAIN emissions', e # z PROVE e \in DOMAIN emissions
  BY <1>2, <1>3, Parts DEF TypeInv
<1>4. z \in DOMAIN emissions' BY <1>2, Parts DEF TypeInv
<1> HIDE DEF z
<1>5. Gap(emissions'[z].at, emissions'[z].called, heap[callbacks]) = {}
  <2>1. CASE emissions'[z].at = 0 BY <2>1 DEF Gap
  <2>2. CASE /\ 1 \in DOMAIN Current /\ emissions'[z].at = 1
             /\ DOMAIN emissions'[z].called = {1}
             /\ emissions'[z].called[1] = Current[1].number
    <3>1. \A n \in 1 .. 1 : n = 1 OBVIOUS
    <3> QED BY <1>2, <2>2, <3>1 DEF Gap
  <2> QED BY <1>2, <2>1, <2>2
<1>6. emissions'[z].shifts \in Nat
  <2>1. emissions'[z] \in Running BY <1>2, <1>4, ElementOfSeq, LenProperties
  <2> QED BY <2>1 DEF Running
<1>7. ASSUME NEW e \in DOMAIN emissions'
      PROVE  Cardinality(Gap(emissions'[e].at, emissions'[e].called, heap[emissions'[e].array]))
               <= emissions'[e].shifts
  <2>1. CASE e = z
    <3>1. Cardinality(Gap(emissions'[e].at, emissions'[e].called, heap[emissions'[e].array])) = 0
      BY <1>2, <1>5, <2>1, FS_EmptySet
    <3> QED BY <1>6, <2>1, <3>1
  <2>2. CASE e # z BY <1>2, <1>3, <2>2 DEF GapInv, GapOf
  <2> QED BY <2>1, <2>2
<1> QED BY <1>1, <1>7 DEF GapInv, GapOf

(* An emission that goes on calls what is at its new place.                 *)
LEMMA ContinueGap ==
  ASSUME TypeInv, GapInv, NEW e \in DOMAIN emissions, Continue(e) \/ Throw(e)
  PROVE  GapInv'
<1> DEFINE at == emissions[e].at + 1
           n  == Len(emissions[e].called)
           list == heap[emissions[e].array]
<1>1. heap' = heap BY DEF Continue, Throw
<1>2. /\ DOMAIN emissions' = DOMAIN emissions
      /\ \A f \in DOMAIN emissions : f # e => emissions'[f] = emissions[f]
      /\ emissions'[e].array = emissions[e].array
      /\ emissions'[e].shifts = emissions[e].shifts
      /\ \/ emissions'[e].at = emissions[e].at /\ emissions'[e].called = emissions[e].called
         \/ /\ at \in DOMAIN list /\ emissions'[e].at = at
            /\ DOMAIN emissions'[e].called = 1 .. n + 1
            /\ \A k \in 1 .. n : emissions'[e].called[k] = emissions[e].called[k]
            /\ emissions'[e].called[n + 1] = list[at].number
  BY ContinueLists
<1>3. /\ emissions[e].at \in Nat /\ emissions[e].shifts \in Nat
      /\ Cardinality(GapOf(e)) \in Nat /\ Cardinality(GapOf(e)) <= emissions[e].shifts
  BY GapTypes DEF GapInv
<1>4. n \in Nat /\ DOMAIN emissions[e].called = 1 .. n BY Parts DEF TypeInv
<1>5. at \in Nat /\ \A p \in 1 .. at : p = at \/ p \in 1 .. emissions[e].at BY <1>3
<1> HIDE DEF at, n, list
<1> DEFINE G == Gap(emissions[e].at, emissions[e].called, list)
           H == Gap(emissions'[e].at, emissions'[e].called, list)
<1>6. H \subseteq G
  <2>1. CASE emissions'[e].at = emissions[e].at /\ emissions'[e].called = emissions[e].called
    BY <2>1
  <2>2. CASE /\ at \in DOMAIN list /\ emissions'[e].at = at
             /\ DOMAIN emissions'[e].called = 1 .. n + 1
             /\ \A k \in 1 .. n : emissions'[e].called[k] = emissions[e].called[k]
             /\ emissions'[e].called[n + 1] = list[at].number
    <3> SUFFICES ASSUME NEW p \in H PROVE p \in G OBVIOUS
    <3>1. p \in 1 .. at /\ (p \in DOMAIN list =>
            \A k \in 1 .. n + 1 : emissions'[e].called[k] # list[p].number)
      BY <2>2 DEF Gap
    <3>2. n + 1 \in 1 .. n + 1 /\ \A k \in 1 .. n : k \in 1 .. n + 1 BY <1>4
    <3>3. p # at BY <2>2, <3>1, <3>2
    <3>4. p \in 1 .. emissions[e].at BY <1>5, <3>1, <3>3
    <3>5. p \in DOMAIN list => \A k \in 1 .. n : emissions[e].called[k] # list[p].number
      BY <2>2, <3>1, <3>2
    <3> QED BY <1>4, <3>4, <3>5 DEF Gap
  <2> QED BY <1>2, <2>1, <2>2
<1>7. Cardinality(H) \in Nat /\ Cardinality(H) <= Cardinality(G) BY <1>3, <1>6, Fewer
<1>8. Cardinality(G) = Cardinality(GapOf(e)) BY DEF GapOf, list
<1> DEFINE c == Cardinality(H)
<1>9. c \in Nat /\ c <= Cardinality(GapOf(e)) BY <1>7, <1>8
<1> HIDE DEF c
<1>10. c <= emissions'[e].shifts BY <1>2, <1>3, <1>9
<1>11. \A f \in DOMAIN emissions :
         Cardinality(Gap(emissions'[f].at, emissions'[f].called, heap[emissions'[f].array]))
           <= emissions'[f].shifts
  <2> SUFFICES ASSUME NEW f \in DOMAIN emissions
               PROVE  Cardinality(Gap(emissions'[f].at, emissions'[f].called,
                                      heap[emissions'[f].array])) <= emissions'[f].shifts
    OBVIOUS
  <2>1. CASE f # e BY <1>2, <2>1 DEF GapInv, GapOf
  <2>2. CASE f = e BY <1>2, <1>10, <2>2 DEF c, list
  <2> QED BY <2>1, <2>2
<1> QED BY <1>1, <1>2, <1>11 DEF GapInv, GapOf

(* Every step keeps the account. *)
LEMMA NextGap == TypeInv /\ GapInv /\ [Next]_vars => GapInv'
<1> SUFFICES ASSUME TypeInv, GapInv, [Next]_vars PROVE GapInv' OBVIOUS
<1>1. ASSUME NEW l \in Listeners, On(l) \/ Once(l) PROVE GapInv'
  BY <1>1, RegisterGap DEF On, Once
<1>2. CASE OffAll BY <1>2 DEF OffAll, GapInv, GapOf
<1>3. CASE UNCHANGED vars BY <1>3 DEF vars, GapInv, GapOf
<1> QED BY <1>1, <1>2, <1>3, OffSplit, OffGap, OffEventGap, EmitGap, ContinueGap DEF Next

(* What was missed is one of the places. *)
LEMMA GapMissed == TypeInv /\ GapInv => MissedByRemoval
<1> SUFFICES ASSUME TypeInv, GapInv, NEW e \in DOMAIN emissions
             PROVE  Cardinality(Missed(e)) <= emissions[e].shifts
  BY DEF MissedByRemoval
<1>1. /\ emissions[e].at \in Nat /\ emissions[e].shifts \in Nat
      /\ Len(heap[emissions[e].array]) \in Nat
      /\ DOMAIN heap[emissions[e].array] = 1 .. Len(heap[emissions[e].array])
      /\ Cardinality(GapOf(e)) \in Nat /\ Cardinality(GapOf(e)) <= emissions[e].shifts
  BY GapTypes DEF GapInv
<1>2. Missed(e) \subseteq GapOf(e)
  <2> SUFFICES ASSUME NEW n \in Missed(e) PROVE n \in GapOf(e) OBVIOUS
  <2>1. /\ n \in DOMAIN heap[emissions[e].array] /\ n <= emissions[e].at
        /\ heap[emissions[e].array][n].number \notin ToSet(emissions[e].called)
    BY DEF Missed, Passed
  <2>2. n \in 1 .. emissions[e].at BY <1>1, <2>1
  <2>3. \A k \in DOMAIN emissions[e].called :
          emissions[e].called[k] # heap[emissions[e].array][n].number
    BY <2>1 DEF ToSet
  <2> QED BY <2>2, <2>3 DEF GapOf, Gap
<1>3. Cardinality(Missed(e)) \in Nat /\ Cardinality(Missed(e)) <= Cardinality(GapOf(e))
  BY <1>1, <1>2, Fewer DEF GapOf
<1> QED BY <1>1, <1>3

(* An emission passes over a listener only when a removal moved it into a   *)
(* place that the emission is past: once for each removal at most, for any  *)
(* number of registrations, emissions and removals (emitReserved, off).     *)
THEOREM MissedByRemovalCorrect == Spec => []MissedByRemoval
<1>1. Init => GapInv
  <2> SUFFICES ASSUME Init PROVE GapInv OBVIOUS
  <2>1. DOMAIN emissions = {} BY EmptySeq DEF Init
  <2> QED BY <2>1 DEF GapInv
<1>2. TypeInv /\ GapInv /\ [Next]_vars => TypeInv' /\ GapInv' BY NextType, NextGap
<1> QED BY <1>1, <1>2, InitType, GapMissed, PTL DEF Spec
=============================================================================
