---------------------------- MODULE EngineLifecycle ----------------------------
(***************************************************************************)
(* What an engine promises the manager that uses it, without the polls,     *)
(* posts, queues and listeners by which PollingEngine keeps the promise:    *)
(* a life that only goes forward, one stream of messages in each direction, *)
(* and an end that comes once it is due.                                    *)
(*                                                                          *)
(* The streams are numbered, so that a reordered, repeated or missing       *)
(* message shows.  The session is the server's.                             *)
(***************************************************************************)
EXTENDS Naturals, Sequences

VARIABLES
  state,    \* the engine's life as its user can tell it
  written,  \* how many messages write() has taken
  arrived,  \* the messages the server has, as they came
  session,  \* "none", "open" or "closed"
  served,   \* how many messages the server has sent
  heard     \* the messages the user has been given, as they came

streams == <<written, arrived, served, heard>>
vars == <<state, session, streams>>

States == {"opening", "open", "closing", "closed"}

(* A life goes forward: an engine that is closing does not open any more.   *)
Later(s) ==
  CASE s = "opening" -> {"open", "closing", "closed"}
    [] s = "open"    -> {"closing", "closed"}
    [] s = "closing" -> {"closed"}
    [] s = "closed"  -> {}

Newest == IF arrived = <<>> THEN 0 ELSE arrived[Len(arrived)]

(* What may arrive next: messages the server does not have, in order.       *)
Continues(new) ==
  /\ \A i \in DOMAIN new : new[i] \in Newest + 1 .. written
  /\ \A i, j \in DOMAIN new : i < j => new[i] < new[j]

(* The same without a gap. *)
Gapless(new) == \A i \in DOMAIN new : new[i] = Newest + i

Init ==
  /\ state = "opening" /\ session = "none"
  /\ written = 0 /\ arrived = <<>> /\ served = 0 /\ heard = <<>>

(* The life goes on, by an answer, a failure, a timer or a call. *)
Advance ==
  /\ state' \in Later(state)
  /\ UNCHANGED <<session, streams>>

Write ==
  /\ state # "closed"
  /\ written' = written + 1
  /\ UNCHANGED <<state, session, arrived, served, heard>>

(* The server takes what a request carries.  It keeps the session only if   *)
(* nothing is missing; the sender may learn of it in the same step.         *)
Arrive ==
  /\ session = "open"
  /\ LET new == SubSeq(arrived', Len(arrived) + 1, Len(arrived'))
     IN /\ arrived' = arrived \o new
        /\ Continues(new)
        /\ session' \in {"open", "closed"}
        /\ session' = "open" => Gapless(new)
  /\ state' \in {state} \cup Later(state)
  /\ UNCHANGED <<written, served, heard>>

Serve ==
  /\ session = "open"
  /\ served' = served + 1
  /\ UNCHANGED <<state, session, written, arrived, heard>>

Hear ==
  /\ state # "closed"
  /\ Len(heard) < served
  /\ heard' = Append(heard, Len(heard) + 1)
  /\ UNCHANGED <<state, session, written, arrived, served>>

SessionStarts ==
  /\ session = "none" /\ session' = "open"
  /\ UNCHANGED <<state, streams>>

SessionEnds ==
  /\ session = "open" /\ session' = "closed"
  /\ UNCHANGED <<state, streams>>

Next ==
  \/ Advance \/ Write \/ Arrive \/ Serve \/ Hear
  \/ SessionStarts \/ SessionEnds

(* A close that was asked for, or has begun, is carried through.            *)
CloseComes == state = "closing" ~> state = "closed"

(* An engine notices that its session is gone. *)
LossNoticed == session = "closed" ~> state = "closed"

Spec == Init /\ [][Next]_vars /\ CloseComes /\ LossNoticed
=============================================================================
