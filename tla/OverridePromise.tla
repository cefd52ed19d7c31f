---------------------------- MODULE OverridePromise ----------------------------
(* What the queue of overrides promises the admin who filled it, whatever the   *)
(* refreshes that drain it do to one another: an order is taken once, in one    *)
(* batch with others that wait, pays at most once and only while it is being    *)
(* executed, and ends completed, having paid, or failed; then it is final.      *)
(* Where the scheduler may simulate, an order may pretend to pay instead.       *)
(* Module PayrollScheduler is shown to keep the promise.                        *)
EXTENDS Integers, FiniteSets

CONSTANTS
  Orders,
  BatchLimit,    \* orders that are taken at once
  MayPretend     \* some process of the scheduler simulates its payments

VARIABLES
  order,         \* "none", "pending", "processing", "completed" or "failed"
  payments,      \* made for an order
  pretences      \* payments that were only simulated

orderVars == <<order, payments, pretences>>

OrderInit ==
  /\ order = [o \in Orders |-> "none"]
  /\ payments = [o \in Orders |-> 0] /\ pretences = [o \in Orders |-> 0]

Turns(o, from, to) ==
  /\ order[o] = from /\ order' = [order EXCEPT ![o] = to]
  /\ UNCHANGED <<payments, pretences>>

Queues(o) == Turns(o, "none", "pending")

Takes(batch) ==
  /\ Cardinality(batch) <= BatchLimit /\ \A o \in batch : order[o] = "pending"
  /\ order' = [o \in Orders |-> IF o \in batch THEN "processing" ELSE order[o]]
  /\ UNCHANGED <<payments, pretences>>

\* Executed for the first time.
Unpaid(o) == order[o] = "processing" /\ payments[o] + pretences[o] = 0

Pays(o) ==
  Unpaid(o) /\ payments' = [payments EXCEPT ![o] = 1] /\ UNCHANGED <<order, pretences>>

Pretends(o) ==
  /\ MayPretend
  /\ Unpaid(o) /\ pretences' = [pretences EXCEPT ![o] = 1] /\ UNCHANGED <<order, payments>>

Completes(o) == payments[o] + pretences[o] = 1 /\ Turns(o, "processing", "completed")
Fails(o) == Turns(o, "processing", "failed")

OrderNext ==
  \/ \E o \in Orders : Queues(o) \/ Pays(o) \/ Pretends(o) \/ Completes(o) \/ Fails(o)
  \/ \E batch \in SUBSET Orders : Takes(batch)

OrderSpec == OrderInit /\ [][OrderNext]_orderVars
=============================================================================
