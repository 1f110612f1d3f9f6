------------------------- MODULE AtMostOncePubSub -------------------------
(***************************************************************************)
(* What a PubSubService promises its consumers                             *)
(* (packages/core/src/queues/pubsubservice.ts): an event reaches a         *)
(* consumer at most once, the events of one publisher in the order they    *)
(* were published, and any of them may be lost.  An event is its           *)
(* publisher and its rank among the events of that publisher.              *)
(***************************************************************************)
EXTENDS Naturals

CONSTANT Peers

VARIABLES
  sent,  \* sent[p]: how many events p has published
  got    \* got[p][q]: the rank of the last event of q dispatched at p

Init ==
  /\ sent = [p \in Peers |-> 0]
  /\ got = [p \in Peers |-> [q \in Peers |-> 0]]

\* A publisher that still consumes sees its own event at once.
Publish(p) ==
  /\ sent' = [sent EXCEPT ![p] = @ + 1]
  /\ \/ got' = [got EXCEPT ![p][p] = sent'[p]]
     \/ UNCHANGED got

\* The events skipped are lost to p.
Dispatch(p, q) ==
  /\ \E n \in (got[p][q] + 1)..sent[q] : got' = [got EXCEPT ![p][q] = n]
  /\ UNCHANGED sent

Next ==
  \/ \E p \in Peers : Publish(p)
  \/ \E p, q \in Peers : Dispatch(p, q)

Spec == Init /\ [][Next]_<<sent, got>>
=============================================================================
