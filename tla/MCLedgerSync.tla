------------------------------ MODULE MCLedgerSync ------------------------------
(* Instances of LedgerSync.  e1 pays w1 with stream s1; e2 pays w1 with s2.     *)
EXTENDS LedgerSync, TLC

CONSTANTS s1, s2, e1, e2, w1

Event(ledger, kind, s) ==
  [ledger |-> ledger, kind |-> kind, id |-> s, worker |-> w1,
   employer |-> IF s = s1 THEN e1 ELSE e2, total |-> 5]

\* Two streams, a withdrawal, a foreign event and an empty ledger (3).  A batch
\* of two cuts no ledger but the second, when it starts at the first.
MixedChain == << Event(1, "created", s1), Event(2, "other", s1),
                 Event(2, "withdrawn", s1), Event(4, "created", s2) >>

\* A withdrawal in the ledger after the stream is created, and a cancellation.
LifeChain == << Event(1, "created", s1), Event(2, "withdrawn", s1),
                Event(3, "canceled", s1) >>
================================================================================
