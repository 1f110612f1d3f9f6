------------------------- MODULE AtLeastOnceQueue -------------------------
(***************************************************************************)
(* What a webda.io queue promises to the code that sends and receives:     *)
(* a message that was sent stays available until a reader that received it *)
(* deletes it.  A message is leased to one reader at a time; the lease may *)
(* lapse, and then the message is handed out again.  Nothing is said of    *)
(* order, of blocking or of the clock.                                     *)
(***************************************************************************)
CONSTANTS Messages, Readers, NoMessage

VARIABLES
  stage,   \* the life of each message
  hand     \* the message each reader is working on, or NoMessage

vars == <<stage, hand>>

Stages == {"unsent", "available", "leased", "deleted"}

TypeOK ==
  /\ stage \in [Messages -> Stages]
  /\ hand \in [Readers -> Messages \union {NoMessage}]

Init ==
  /\ stage = [m \in Messages |-> "unsent"]
  /\ hand = [r \in Readers |-> NoMessage]

Send(m) ==
  /\ stage[m] = "unsent"
  /\ stage' = [stage EXCEPT ![m] = "available"]
  /\ UNCHANGED hand

Lease(r, m) ==
  /\ hand[r] = NoMessage
  /\ stage[m] = "available"
  /\ stage' = [stage EXCEPT ![m] = "leased"]
  /\ hand' = [hand EXCEPT ![r] = m]

\* A lease that never reaches its reader: the message is set aside all the same
LeaseLost(m) ==
  /\ stage[m] = "available"
  /\ stage' = [stage EXCEPT ![m] = "leased"]
  /\ UNCHANGED hand

Lapse(m) ==
  /\ stage[m] = "leased"
  /\ stage' = [stage EXCEPT ![m] = "available"]
  /\ UNCHANGED hand

Delete(r) ==
  /\ hand[r] # NoMessage
  /\ stage' = [stage EXCEPT ![hand[r]] = "deleted"]
  /\ hand' = [hand EXCEPT ![r] = NoMessage]

Abandon(r) ==
  /\ hand[r] # NoMessage
  /\ hand' = [hand EXCEPT ![r] = NoMessage]
  /\ UNCHANGED stage

\* The readers of a process that crashes
AbandonAll(rs) ==
  /\ hand' = [r \in Readers |-> IF r \in rs THEN NoMessage ELSE hand[r]]
  /\ UNCHANGED stage

Next ==
  \/ \E m \in Messages : Send(m) \/ LeaseLost(m) \/ Lapse(m)
  \/ \E r \in Readers, m \in Messages : Lease(r, m)
  \/ \E r \in Readers : Delete(r) \/ Abandon(r)
  \/ \E rs \in SUBSET Readers : AbandonAll(rs)

Spec == Init /\ [][Next]_vars
=============================================================================
