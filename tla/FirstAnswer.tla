---------------------------- MODULE FirstAnswer ----------------------------
(***************************************************************************)
(* What holding a sender's connection for a browser tab promises, without  *)
(* channels, maps, locks or clocks: each held request is replied to once,  *)
(* with the first answer accepted while it was undecided, and with the     *)
(* default only if none was accepted or the sender has gone.  HeldReply    *)
(* implements it.                                                          *)
(***************************************************************************)
CONSTANTS
  Request,
  Answer,        \* what tabs send back
  AnswersTo,     \* request -> the answers that belong to it
  NoAnswer,
  Default        \* the default 202 reply

VARIABLES
  held,          \* the requests held so far
  gone,          \* those whose sender hung up
  offer,         \* request -> accepted answer the reply will use, or NoAnswer
  reply          \* request -> answer, Default, or NoAnswer while undecided

vars == <<held, gone, offer, reply>>

Undecided(r) == r \in held /\ reply[r] = NoAnswer

Init ==
  /\ held = {}
  /\ gone = {}
  /\ offer = [r \in Request |-> NoAnswer]
  /\ reply = [r \in Request |-> NoAnswer]

Hold(r) ==
  /\ r \notin held
  /\ held' = held \cup {r}
  /\ UNCHANGED <<gone, offer, reply>>

Leave(r) ==
  /\ Undecided(r)
  /\ gone' = gone \cup {r}
  /\ UNCHANGED <<held, offer, reply>>

\* An answer is accepted and kept until the handler looks.
Offer(r, a) ==
  /\ Undecided(r)
  /\ offer[r] = NoAnswer
  /\ offer' = [offer EXCEPT ![r] = a]
  /\ UNCHANGED <<held, gone, reply>>

Take(r) ==
  /\ Undecided(r)
  /\ offer[r] # NoAnswer
  /\ reply' = [reply EXCEPT ![r] = offer[r]]
  /\ offer' = [offer EXCEPT ![r] = NoAnswer]
  /\ UNCHANGED <<held, gone>>

\* An answer handed straight to a waiting handler.
Relay(r, a) ==
  /\ Undecided(r)
  /\ offer[r] = NoAnswer
  /\ reply' = [reply EXCEPT ![r] = a]
  /\ UNCHANGED <<held, gone, offer>>

GiveUp(r) ==
  /\ Undecided(r)
  /\ offer[r] = NoAnswer \/ r \in gone
  /\ reply' = [reply EXCEPT ![r] = Default]
  /\ offer' = [offer EXCEPT ![r] = NoAnswer]
  /\ UNCHANGED <<held, gone>>

Next ==
  \E r \in Request :
    \/ Hold(r) \/ Leave(r) \/ Take(r) \/ GiveUp(r)
    \/ \E a \in AnswersTo[r] : Offer(r, a) \/ Relay(r, a)

Spec == Init /\ [][Next]_vars
=============================================================================
