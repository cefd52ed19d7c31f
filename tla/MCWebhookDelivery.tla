---------------------------- MODULE MCWebhookDelivery ----------------------------
(* Instances of WebhookDelivery: two events, requests that overlap, and one     *)
(* fault are enough for every pair of steps to be torn apart.                   *)
EXTENDS WebhookDelivery, TLC

Symmetry == Permutations(Events) \cup Permutations(Callers) \cup Permutations(Batches)

\* Batches that overlap are followed with two events, or with one and a fault or a
\* call by hand.  Two events, a call by hand and a fault all together are followed
\* when the call was a replay, which sends an event of its own.
Overlapping ==
  \/ \E i \in Items : shared[i] > 0
  \/ \A b \in Batches : worker[b].pc # "idle"
Happened == Cardinality(Logged) + byHand + faults
InFewCases ==
  /\ Overlapping => Happened <= 2
  /\ Happened = 4 => viaReplay # {}
=============================================================================
