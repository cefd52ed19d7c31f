---------------------------- MODULE StreamApiProofs ----------------------------
(* For any set of streams, employers, requests and amounts: the tables keep    *)
(* their types, a stream is charged once and refunded at most once, and the     *)
(* balance is what the audit log and the vault's events say.                   *)
EXTENDS StreamApi, SequenceLemmas

IInv == TypeOK /\ ChargedOnceRefundedOnce

\* The row an upsert leaves is a row, and an update keeps its identity.
LEMMA RowAfterIsRow ==
  ASSUME TablesTypeOK, NEW p \in UpsertParams, p.total # 0
  PROVE  /\ RowAfter(p) \in Rows
         /\ Exists(p.id) =>
              /\ RowAfter(p).employer = streams[p.id].employer
              /\ RowAfter(p).worker = streams[p.id].worker
              /\ RowAfter(p).total = streams[p.id].total
              /\ RowAfter(p).deleted = streams[p.id].deleted
         /\ ~Exists(p.id) =>
              /\ RowAfter(p).total = p.total
              /\ RowAfter(p).deleted = FALSE
BY DEF TablesTypeOK, UpsertParams, Rows, RowAfter, Exists

\* A refund is a natural number no larger than the stream.
LEMMA RefundBound ==
  ASSUME NEW row \in Rows
  PROVE  Refund(row) \in Nat /\ Refund(row) <= row.total
BY DEF Rows, Refund

\* The audit rows after a cancellation are well typed.
LEMMA CancelledIsAuditRow ==
  ASSUME NEW a \in AuditRows, NEW R \in Nat
  PROVE  [a EXCEPT !.cancelled = 1, !.refunded = R] \in AuditRows
BY DEF AuditRows

\* upsertStream keeps the tables well typed and the audit log exact.
LEMMA UpsertStep ==
  ASSUME TablesTypeOK, ChargedOnceRefundedOnce,
         NEW p \in UpsertParams, UpsertStream(p)
  PROVE  TablesTypeOK' /\ ChargedOnceRefundedOnce'
<1> DEFINE q == p.id
<1>1. q \in StreamIds /\ p.employer \in Employers /\ p.total \in Nat \ {0}
  BY DEF UpsertParams, UpsertStream, Rejected
<1>2. /\ RowAfter(p) \in Rows
      /\ streams' = [streams EXCEPT ![q] = RowAfter(p)]
  BY <1>1, RowAfterIsRow DEF UpsertStream
<1>3. RowAfter(p) # NoRow
  BY <1>2, NoRowAssumption
<1>4. CASE Exists(q)
  <2>1. balance' = balance /\ audit' = audit
    BY <1>4 DEF UpsertStream
  <2>2. TablesTypeOK'
    BY <1>1, <1>2, <2>1 DEF TablesTypeOK
  <2>3. ASSUME NEW s \in StreamIds
        PROVE  /\ Exists(s)' <=> Exists(s)
               /\ Exists(s) => /\ streams'[s].total = streams[s].total
                               /\ streams'[s].deleted = streams[s].deleted
    BY <1>1, <1>2, <1>3, <1>4, RowAfterIsRow DEF TablesTypeOK, Exists
  <2> QED
    BY <2>1, <2>2, <2>3 DEF ChargedOnceRefundedOnce
<1>5. CASE ~Exists(q)
  <2>1. /\ balance' = [balance EXCEPT ![p.employer] = @ - p.total]
        /\ audit' = [audit EXCEPT ![q].created = @ + 1,
                                  ![q].charged = @ + p.total]
    BY <1>5 DEF UpsertStream
  <2>2. audit[q] = NoAudit
    BY <1>1, <1>5 DEF ChargedOnceRefundedOnce
  <2>3. audit'[q] = [created |-> 1, cancelled |-> 0,
                     charged |-> p.total, refunded |-> 0]
    BY <1>1, <2>1, <2>2 DEF TablesTypeOK, NoAudit
  <2>4. \A s \in StreamIds \ {q} :
          audit'[s] = audit[s] /\ streams'[s] = streams[s]
    BY <1>1, <1>2, <2>1 DEF TablesTypeOK
  <2>5. audit' \in [StreamIds -> AuditRows]
    <3>1. audit' = [audit EXCEPT ![q] = audit'[q]]
      BY <1>1, <2>1 DEF TablesTypeOK
    <3>2. audit'[q] \in AuditRows
      BY <1>1, <2>3 DEF AuditRows
    <3> QED BY <3>1, <3>2 DEF TablesTypeOK
  <2>6. TablesTypeOK'
    BY <1>1, <1>2, <2>1, <2>5 DEF TablesTypeOK
  <2>7. streams'[q] = RowAfter(p)
    BY <1>1, <1>2 DEF TablesTypeOK
  <2>8. Exists(q)' /\ streams'[q].total = p.total /\ streams'[q].deleted = FALSE
    BY <1>1, <1>3, <1>5, <2>7, RowAfterIsRow DEF Exists
  <2>9. \A s \in StreamIds \ {q} : Exists(s)' <=> Exists(s)
    BY <2>4 DEF Exists
  <2> QED
    BY <1>1, <2>3, <2>4, <2>6, <2>8, <2>9 DEF ChargedOnceRefundedOnce
<1> QED
  BY <1>4, <1>5

\* softDeleteStream does too.
LEMMA DeleteStep ==
  ASSUME TablesTypeOK, ChargedOnceRefundedOnce,
         NEW q \in StreamIds, SoftDeleteStream(q)
  PROVE  TablesTypeOK' /\ ChargedOnceRefundedOnce'
<1> DEFINE row == streams[q]
           new == [row EXCEPT !.deleted = TRUE, !.status = "cancelled"]
<1>1. row \in Rows /\ row # NoRow /\ row.deleted = FALSE
  BY DEF SoftDeleteStream, TablesTypeOK, Exists, Rows
<1>2. /\ new \in Rows /\ new.total = row.total /\ new.deleted = TRUE
  BY <1>1 DEF Rows, Statuses
<1>3. new # NoRow
  BY <1>2, NoRowAssumption
<1>4. streams' = [streams EXCEPT ![q] = new]
  BY DEF SoftDeleteStream, TablesTypeOK
<1>5. /\ Refund(row) \in Nat /\ Refund(row) <= row.total
      /\ row.employer \in Employers
  BY <1>1, RefundBound DEF Rows
<1>6. /\ balance' = [balance EXCEPT ![row.employer] = @ + Refund(row)]
      /\ audit' = [audit EXCEPT ![q].cancelled = @ + 1,
                                ![q].refunded = @ + Refund(row)]
  BY DEF SoftDeleteStream
<1>7. /\ audit[q].created = 1 /\ audit[q].charged = row.total
      /\ audit[q].cancelled = 0 /\ audit[q].refunded = 0
  BY <1>1 DEF ChargedOnceRefundedOnce, Exists, TablesTypeOK, AuditRows
<1>8. /\ audit'[q].created = 1 /\ audit'[q].charged = row.total
      /\ audit'[q].cancelled = 1 /\ audit'[q].refunded = Refund(row)
      /\ audit'[q] \in AuditRows
  <2>1. PICK R \in Nat : R = Refund(row)
    BY <1>5
  <2>2. audit[q] \in AuditRows
    BY DEF TablesTypeOK
  <2>3. audit'[q] = [audit[q] EXCEPT !.cancelled = audit[q].cancelled + 1,
                                     !.refunded = audit[q].refunded + R]
    BY <1>6, <2>1 DEF TablesTypeOK
  <2>4. audit[q].cancelled + 1 = 1 /\ audit[q].refunded + R = R
    BY <1>7
  <2>5. audit'[q] = [audit[q] EXCEPT !.cancelled = 1, !.refunded = R]
    BY <2>3, <2>4
  <2>6. /\ audit'[q].created = audit[q].created
        /\ audit'[q].charged = audit[q].charged
        /\ audit'[q].cancelled = 1 /\ audit'[q].refunded = R
    BY <2>2, <2>5 DEF AuditRows
  <2>7. audit'[q] \in AuditRows
    BY <2>2, <2>5, CancelledIsAuditRow
  <2> QED BY <1>7, <2>1, <2>6, <2>7
<1>9. audit' = [audit EXCEPT ![q] = audit'[q]]
  BY <1>6 DEF TablesTypeOK
<1>10. TablesTypeOK'
  <2>1. streams' \in [StreamIds -> Rows \cup {NoRow}]
    BY <1>2, <1>4 DEF TablesTypeOK
  <2>2. balance' \in [Employers -> Int]
    BY <1>5, <1>6 DEF TablesTypeOK
  <2>3. audit' \in [StreamIds -> AuditRows]
    BY <1>8, <1>9 DEF TablesTypeOK
  <2> QED BY <2>1, <2>2, <2>3 DEF TablesTypeOK
<1>11. streams'[q] = new /\ Exists(q)'
  BY <1>3, <1>4 DEF TablesTypeOK, Exists
<1>12. \A s \in StreamIds \ {q} :
         /\ audit'[s] = audit[s] /\ streams'[s] = streams[s]
         /\ Exists(s)' <=> Exists(s)
  BY <1>4, <1>9 DEF TablesTypeOK, Exists
<1>13. streams'[q].total = row.total /\ streams'[q].deleted = TRUE
  BY <1>2, <1>11
<1>14. ChargedOnceRefundedOnce'
  <2> SUFFICES ASSUME NEW s \in StreamIds
               PROVE  IF Exists(s)'
                      THEN /\ audit'[s].created = 1
                           /\ audit'[s].charged = streams'[s].total
                           /\ audit'[s].cancelled =
                                (IF streams'[s].deleted THEN 1 ELSE 0)
                           /\ audit'[s].refunded <= audit'[s].charged
                           /\ audit'[s].refunded > 0 => streams'[s].deleted
                      ELSE audit'[s] = NoAudit
    BY DEF ChargedOnceRefundedOnce
  <2>1. CASE s = q
    BY <1>5, <1>8, <1>11, <1>13, <2>1
  <2>2. CASE s # q
    BY <1>12, <2>2 DEF ChargedOnceRefundedOnce
  <2> QED BY <2>1, <2>2
<1> QED
  BY <1>10, <1>14

\* A step of a deposit leaves streams and audit log alone.
LEMMA DepositStep ==
  ASSUME TypeOK, ChargedOnceRefundedOnce, NEW d \in Deposits,
         \/ \E e \in Employers, a \in DepositAmounts : DepositRead(d, e, a)
         \/ DepositWrite(d) \/ DepositRecord(d) \/ DepositFails(d)
  PROVE  TypeOK' /\ ChargedOnceRefundedOnce'
<1>1. streams' = streams /\ audit' = audit
  BY DEF DepositRead, DepositWrite, DepositRecord, DepositFails, tableVars
<1>2. ChargedOnceRefundedOnce'
  BY <1>1 DEF ChargedOnceRefundedOnce, Exists
<1>3. ASSUME NEW e \in Employers, NEW a \in DepositAmounts, DepositRead(d, e, a)
      PROVE  TypeOK'
  BY <1>3 DEF DepositRead, TypeOK, TablesTypeOK, DepositStates, tableVars
<1>4. ASSUME DepositWrite(d) \/ DepositRecord(d) \/ DepositFails(d)
      PROVE  TypeOK'
  <2>1. dep[d] \in DepositStates
    BY <1>4 DEF DepositWrite, DepositRecord, DepositFails, TypeOK, NewDeposit
  <2>2. /\ dep[d].employer \in Employers /\ dep[d].amount \in Nat
        /\ dep[d].seen \in Int
    BY <2>1, AmountsAssumption DEF DepositStates
  <2>3. dep' \in [Deposits -> DepositStates \cup {NewDeposit}]
    <3>1. PICK x \in {"read", "written", "done"} :
            dep' = [dep EXCEPT ![d].pc = x]
      BY <1>4 DEF DepositWrite, DepositRecord, DepositFails
    <3>2. [dep[d] EXCEPT !.pc = x] \in DepositStates
      BY <2>1, <3>1 DEF DepositStates
    <3> QED BY <3>1, <3>2 DEF TypeOK
  <2>4. balance' \in [Employers -> Int]
    BY <1>4, <2>2 DEF DepositWrite, DepositRecord, DepositFails, TypeOK,
                      TablesTypeOK, tableVars
  <2>5. vault' \in [Employers -> Nat]
    BY <1>4, <2>2 DEF DepositWrite, DepositRecord, DepositFails, TypeOK
  <2>6. disturbed' \in [Employers -> BOOLEAN]
    BY <1>4, <2>2 DEF DepositWrite, DepositRecord, DepositFails, TypeOK
  <2> QED
    BY <1>1, <2>3, <2>4, <2>5, <2>6 DEF TypeOK, TablesTypeOK
<1> QED
  BY <1>2, <1>3, <1>4

\* The invariant is inductive.
THEOREM InductiveInvariant == Spec => []IInv
<1>1. Init => IInv
  <2> SUFFICES ASSUME Init PROVE IInv
    OBVIOUS
  <2>1. TypeOK
    BY DEF Init, TablesInit, TypeOK, TablesTypeOK, NoAudit, AuditRows
  <2>2. ChargedOnceRefundedOnce
    BY DEF Init, TablesInit, ChargedOnceRefundedOnce, Exists
  <2> QED BY <2>1, <2>2 DEF IInv
<1>2. IInv /\ [Next]_vars => IInv'
  <2> SUFFICES ASSUME TypeOK, ChargedOnceRefundedOnce, [Next]_vars
               PROVE  TypeOK' /\ ChargedOnceRefundedOnce'
    BY DEF IInv
  <2>1. ASSUME NEW p \in Requests, CreateStream(p)
        PROVE  TypeOK' /\ ChargedOnceRefundedOnce'
    <3>1. p \in UpsertParams
      BY AmountsAssumption DEF Requests, UpsertParams
    <3> QED
      BY <2>1, <3>1, UpsertStep DEF CreateStream, TypeOK, apiVars
  <2>2. ASSUME NEW s \in StreamIds, CancelStream(s)
        PROVE  TypeOK' /\ ChargedOnceRefundedOnce'
    BY <2>2, DeleteStep DEF CancelStream, TypeOK, apiVars
  <2>3. CASE UNCHANGED vars
    BY <2>3 DEF vars, TypeOK, TablesTypeOK, ChargedOnceRefundedOnce, Exists
  <2> QED
    BY <2>1, <2>2, <2>3, DepositStep DEF Next
<1> QED
  BY <1>1, <1>2, PTL DEF Spec

\* Type correctness of the tables and of the deposit requests.
THEOREM TypeCorrect == Spec => []TypeOK
<1>1. IInv => TypeOK
  BY DEF IInv
<1> QED
  BY InductiveInvariant, <1>1, PTL

\* However creations, replays, cancellations and deposits interleave, a stream
\* costs its employer its amount once and gives back at most that, once
\* (queries.ts:216-303, 1221-1308).
THEOREM ChargedOnceTheorem == Spec => []ChargedOnceRefundedOnce
<1>1. IInv => ChargedOnceRefundedOnce
  BY DEF IInv
<1> QED
  BY InductiveInvariant, <1>1, PTL

\* What a row is does not change with an upsert, which for an existing stream
\* writes two columns (queries.ts:241-245), nor with a soft delete, nor with a
\* deposit: parties, amount and the mark of the deletion stay.
THEOREM RowIdentityTheorem == Spec => RowIdentityKept
<1> DEFINE Kept(s) ==
      Exists(s) =>
        /\ streams'[s] # NoRow
        /\ streams'[s].employer = streams[s].employer
        /\ streams'[s].worker = streams[s].worker
        /\ streams'[s].total = streams[s].total
        /\ streams[s].deleted => streams'[s].deleted
<1>1. TypeOK /\ [Next]_vars => [\A s \in StreamIds : Kept(s)]_tableVars
  <2> SUFFICES ASSUME TypeOK, [Next]_vars, NEW s \in StreamIds, Exists(s)
               PROVE  Kept(s)
    OBVIOUS
  <2>1. streams[s] \in Rows /\ streams \in [StreamIds -> Rows \cup {NoRow}]
    BY DEF Exists, TypeOK, TablesTypeOK
  <2>2. ASSUME NEW p \in Requests, CreateStream(p) PROVE Kept(s)
    <3>1. p \in UpsertParams /\ p.id \in StreamIds
      BY AmountsAssumption DEF Requests, UpsertParams
    <3>2. p.total # 0 /\ streams' = [streams EXCEPT ![p.id] = RowAfter(p)]
      BY <2>2 DEF CreateStream, UpsertStream, Rejected
    <3>3. RowAfter(p) \in Rows
      BY <3>1, <3>2, RowAfterIsRow DEF TypeOK
    <3>4. CASE p.id = s
      <4>1. streams'[s] = RowAfter(p) /\ streams'[s] # NoRow
        BY <2>1, <3>2, <3>3, <3>4, NoRowAssumption
      <4> QED
        BY <3>1, <3>2, <3>4, <4>1, RowAfterIsRow DEF TypeOK
    <3>5. CASE p.id # s
      BY <2>1, <3>1, <3>2, <3>5 DEF Exists
    <3> QED BY <3>4, <3>5
  <2>3. ASSUME NEW q \in StreamIds, CancelStream(q) PROVE Kept(s)
    <3>1. streams' = [streams EXCEPT ![q] = [@ EXCEPT !.deleted = TRUE,
                                                      !.status = "cancelled"]]
      BY <2>1, <2>3 DEF CancelStream, SoftDeleteStream
    <3>2. CASE q = s
      <4> DEFINE new == [streams[s] EXCEPT !.deleted = TRUE, !.status = "cancelled"]
      <4>1. new \in Rows /\ new.deleted = TRUE /\ new.total = streams[s].total
            /\ new.employer = streams[s].employer /\ new.worker = streams[s].worker
        BY <2>1 DEF Rows, Statuses
      <4>2. streams'[s] = new
        BY <2>1, <3>1, <3>2
      <4> HIDE DEF new
      <4> QED BY <4>1, <4>2, NoRowAssumption
    <3>3. CASE q # s
      BY <2>1, <3>1, <3>3 DEF Exists
    <3> QED BY <3>2, <3>3
  <2>4. ASSUME streams' = streams PROVE Kept(s)
    BY <2>4 DEF Exists
  <2>5. ASSUME NEW d \in Deposits,
               \/ \E e \in Employers, a \in DepositAmounts : DepositRead(d, e, a)
               \/ DepositWrite(d) \/ DepositRecord(d) \/ DepositFails(d)
        PROVE  streams' = streams
    BY <2>5 DEF DepositRead, DepositWrite, DepositRecord, DepositFails, tableVars
  <2>6. CASE UNCHANGED vars
    BY <2>4, <2>6 DEF vars
  <2> QED
    BY <2>2, <2>3, <2>4, <2>5, <2>6 DEF Next
<1> QED
  BY TypeCorrect, <1>1, PTL DEF Spec, RowIdentityKept

-----------------------------------------------------------------------------
(* The books. *)

\* What a stream costs an employer, and what a deposit adds to the balance
\* before it is recorded.
Cost(s, e) ==
  IF Exists(s) /\ streams[s].employer = e THEN audit[s].charged - audit[s].refunded ELSE 0
Surplus(d, e) ==
  IF dep[d].pc = "written" /\ dep[d].employer = e THEN dep[d].amount ELSE 0
Costs(e) == [s \in StreamIds |-> Cost(s, e)]
Surpluses(e) == [d \in Deposits |-> Surplus(d, e)]

SharesFine ==
  \A e \in Employers :
    /\ Costs(e) \in [StreamIds -> Int] /\ Surpluses(e) \in [Deposits -> Int]
    /\ NetCharged(e) = SumFunction(Costs(e))
    /\ Unrecorded(e) = SumFunction(Surpluses(e))

LEMMA SharesAreNumbers == TypeOK => SharesFine
<1> SUFFICES ASSUME TypeOK, NEW e \in Employers
             PROVE  /\ Costs(e) \in [StreamIds -> Int] /\ Surpluses(e) \in [Deposits -> Int]
                    /\ NetCharged(e) = SumFunction(Costs(e))
                    /\ Unrecorded(e) = SumFunction(Surpluses(e))
  BY DEF SharesFine
<1>1. ASSUME NEW s \in StreamIds PROVE Cost(s, e) \in Int
  <2>1. audit[s] \in AuditRows
    BY DEF TypeOK, TablesTypeOK
  <2>2. audit[s].charged \in Nat /\ audit[s].refunded \in Nat
    BY <2>1 DEF AuditRows
  <2> QED
    BY <2>2 DEF Cost
<1>2. ASSUME NEW d \in Deposits PROVE Surplus(d, e) \in Int
  <2>1. CASE dep[d].pc = "written"
    <3>1. dep[d] \in DepositStates
      BY <2>1 DEF TypeOK, NewDeposit
    <3>2. dep[d].amount \in Nat
      BY <3>1, AmountsAssumption DEF DepositStates
    <3> QED
      BY <3>2 DEF Surplus
  <2>2. CASE dep[d].pc # "written"
    BY <2>2 DEF Surplus
  <2> QED
    BY <2>1, <2>2
<1>3. Costs(e) \in [StreamIds -> Int]
  BY <1>1 DEF Costs
<1>4. Surpluses(e) \in [Deposits -> Int]
  BY <1>2 DEF Surpluses
<1>5. NetCharged(e) = SumFunction(Costs(e))
  BY DEF NetCharged, Costs, Cost
<1>6. Unrecorded(e) = SumFunction(Surpluses(e))
  BY DEF Unrecorded, Surpluses, Surplus
<1> QED
  BY <1>3, <1>4, <1>5, <1>6

\* A change of one stream changes the sum by what that stream changes.
LEMMA OneStreamChanges ==
  ASSUME TypeOK, TypeOK', NEW e \in Employers, NEW q \in StreamIds,
         \A s \in StreamIds \ {q} : streams'[s] = streams[s] /\ audit'[s] = audit[s]
  PROVE  /\ NetCharged(e) \in Int /\ NetCharged(e)' \in Int
         /\ NetCharged(e)' = NetCharged(e) + (Cost(q, e)' - Cost(q, e))
<1>0. SharesFine /\ SharesFine'
  <2>1. SharesFine
    BY SharesAreNumbers
  <2>2. TypeOK' => SharesFine'
    BY SharesAreNumbers, PTL
  <2> QED
    BY <2>1, <2>2
<1>1. PICK f \in [StreamIds -> Int] : f = Costs(e)
  BY <1>0 DEF SharesFine
<1>2. PICK h \in [StreamIds -> Int] : h = Costs(e)'
  BY <1>0 DEF SharesFine
<1>3. \A s \in StreamIds : f[s] = Cost(s, e)
  BY <1>1 DEF Costs
<1>4. \A s \in StreamIds : h[s] = Cost(s, e)'
  BY <1>2 DEF Costs
<1>5. \A s \in StreamIds \ {q} : Cost(s, e)' = Cost(s, e)
  BY DEF Cost, Exists
<1>6. \A s \in StreamIds \ {q} : f[s] = h[s]
  BY <1>3, <1>4, <1>5
<1>7. /\ SumFunction(f) \in Int /\ SumFunction(h) \in Int
      /\ SumFunction(h) = SumFunction(f) + (h[q] - f[q])
  BY <1>6, FiniteAssumption, SumChanges
<1>8. NetCharged(e) = SumFunction(f)
  BY <1>0, <1>1 DEF SharesFine
<1>9. NetCharged(e)' = SumFunction(h)
  BY <1>0, <1>2 DEF SharesFine
<1> QED
  BY <1>3, <1>4, <1>7, <1>8, <1>9

LEMMA OneDepositChanges ==
  ASSUME TypeOK, TypeOK', NEW e \in Employers, NEW x \in Deposits,
         \A d \in Deposits \ {x} : dep'[d] = dep[d]
  PROVE  /\ Unrecorded(e) \in Int /\ Unrecorded(e)' \in Int
         /\ Unrecorded(e)' = Unrecorded(e) + (Surplus(x, e)' - Surplus(x, e))
<1>0. SharesFine /\ SharesFine'
  <2>1. SharesFine
    BY SharesAreNumbers
  <2>2. TypeOK' => SharesFine'
    BY SharesAreNumbers, PTL
  <2> QED
    BY <2>1, <2>2
<1>1. PICK f \in [Deposits -> Int] : f = Surpluses(e)
  BY <1>0 DEF SharesFine
<1>2. PICK h \in [Deposits -> Int] : h = Surpluses(e)'
  BY <1>0 DEF SharesFine
<1>3. \A d \in Deposits : f[d] = Surplus(d, e)
  BY <1>1 DEF Surpluses
<1>4. \A d \in Deposits : h[d] = Surplus(d, e)'
  BY <1>2 DEF Surpluses
<1>5. \A d \in Deposits \ {x} : Surplus(d, e)' = Surplus(d, e)
  BY DEF Surplus
<1>6. \A d \in Deposits \ {x} : f[d] = h[d]
  BY <1>3, <1>4, <1>5
<1>7. /\ SumFunction(f) \in Int /\ SumFunction(h) \in Int
      /\ SumFunction(h) = SumFunction(f) + (h[x] - f[x])
  BY <1>6, FiniteAssumption, SumChanges
<1>8. Unrecorded(e) = SumFunction(f)
  BY <1>0, <1>1 DEF SharesFine
<1>9. Unrecorded(e)' = SumFunction(h)
  BY <1>0, <1>2 DEF SharesFine
<1> QED
  BY <1>3, <1>4, <1>7, <1>8, <1>9

LEMMA SumsAreNumbers ==
  ASSUME TypeOK, NEW e \in Employers
  PROVE  NetCharged(e) \in Int /\ Unrecorded(e) \in Int
<1>1. SharesFine
  BY SharesAreNumbers
<1>2. PICK f \in [StreamIds -> Int] : f = Costs(e)
  BY <1>1 DEF SharesFine
<1>3. PICK g \in [Deposits -> Int] : g = Surpluses(e)
  BY <1>1 DEF SharesFine
<1>4. SumFunctionOnSet(f, StreamIds) \in Int /\ SumFunctionOnSet(g, Deposits) \in Int
  <2>1. StreamIds \in SUBSET StreamIds /\ Deposits \in SUBSET Deposits
    OBVIOUS
  <2> QED
    BY <1>2, <1>3, <2>1, FiniteAssumption, SumTakesAny
<1>5. SumFunction(f) \in Int /\ SumFunction(g) \in Int
  BY <1>4 DEF SumFunction
<1> QED
  BY <1>1, <1>2, <1>3, <1>5 DEF SharesFine

BooksOf(e) == ~disturbed[e] => balance[e] = vault[e] + Unrecorded(e) - NetCharged(e)

\* POST /streams: a new stream costs its employer its amount, a known one nothing.
LEMMA CreateKeepsBooks ==
  ASSUME IInv, IInv', NEW p \in Requests, CreateStream(p), NEW e \in Employers, BooksOf(e)
  PROVE  BooksOf(e)'
<1>1. TypeOK /\ TypeOK' /\ ChargedOnceRefundedOnce /\ ChargedOnceRefundedOnce'
  BY DEF IInv
<1>2. p \in UpsertParams /\ p.id \in StreamIds /\ p.employer \in Employers /\ p.total \in Nat
  BY AmountsAssumption DEF Requests, UpsertParams
<1>3. PICK row \in Rows : row = RowAfter(p)
  <2>1. p.total # 0
    BY DEF CreateStream, UpsertStream, Rejected
  <2> QED
    BY <1>1, <1>2, <2>1, RowAfterIsRow DEF TypeOK
<1>4. streams' = [streams EXCEPT ![p.id] = row] /\ UNCHANGED <<dep, vault, disturbed>>
  BY <1>3 DEF CreateStream, UpsertStream, apiVars
<1>5. streams'[p.id] = row /\ \A s \in StreamIds \ {p.id} : streams'[s] = streams[s]
  BY <1>1, <1>2, <1>4 DEF TypeOK, TablesTypeOK
<1>6. Unrecorded(e)' = Unrecorded(e)
  BY <1>4 DEF Unrecorded
<1>7. CASE Exists(p.id)
  <2>1. balance' = balance /\ audit' = audit
    BY <1>7 DEF CreateStream, UpsertStream
  <2>2. row.employer = streams[p.id].employer
    BY <1>1, <1>2, <1>3, <1>7 DEF RowAfter, TypeOK, TablesTypeOK, Rows, Exists
  <2>3. Exists(p.id)'
    BY <1>5, NoRowAssumption DEF Exists
  <2>4. Cost(p.id, e)' = Cost(p.id, e)
    BY <1>5, <1>7, <2>1, <2>2, <2>3 DEF Cost
  <2>5. NetCharged(e)' = NetCharged(e)
    <3>1. NetCharged(e)' = NetCharged(e) + (Cost(p.id, e)' - Cost(p.id, e))
          /\ NetCharged(e) \in Int
      BY <1>1, <1>2, <1>5, <2>1, OneStreamChanges
    <3>2. Cost(p.id, e) \in Int
      BY <1>1, <1>2, SharesAreNumbers DEF SharesFine, Costs
    <3> QED
      BY <2>4, <3>1, <3>2
  <2> QED
    BY <1>4, <1>6, <2>1, <2>5 DEF BooksOf
<1>8. CASE ~Exists(p.id)
  <2>1. /\ balance' = [balance EXCEPT ![p.employer] = @ - p.total]
        /\ audit' = [audit EXCEPT ![p.id].created = @ + 1, ![p.id].charged = @ + p.total]
    BY <1>8 DEF CreateStream, UpsertStream
  <2>2. row.employer = p.employer /\ row.total = p.total /\ row.deleted = FALSE
    BY <1>3, <1>8 DEF RowAfter
  <2>3. Exists(p.id)'
    BY <1>5, NoRowAssumption DEF Exists
  <2>4. audit'[p.id].charged = p.total /\ audit'[p.id].refunded = 0
    <3>1. audit'[p.id].charged = p.total /\ ~(audit'[p.id].refunded > 0)
      BY <1>1, <1>2, <1>5, <2>2, <2>3 DEF ChargedOnceRefundedOnce
    <3>2. audit'[p.id].refunded \in Nat
      BY <1>1, <1>2 DEF TypeOK, TablesTypeOK, AuditRows
    <3> QED
      BY <3>1, <3>2
  <2>5. Cost(p.id, e) = 0
    BY <1>8 DEF Cost
  <2>6. Cost(p.id, e)' = IF e = p.employer THEN p.total ELSE 0
    <3>1. streams'[p.id].employer = p.employer
      BY <1>5, <2>2
    <3> QED
      BY <1>2, <2>3, <2>4, <3>1 DEF Cost
  <2>7. \A s \in StreamIds \ {p.id} : audit'[s] = audit[s]
    BY <1>1, <1>2, <2>1 DEF TypeOK, TablesTypeOK
  <2>8. NetCharged(e)' = NetCharged(e) + (Cost(p.id, e)' - Cost(p.id, e)) /\ NetCharged(e) \in Int
    BY <1>1, <1>2, <1>5, <2>7, OneStreamChanges
  <2>9. balance'[e] = balance[e] - (IF e = p.employer THEN p.total ELSE 0) /\ balance[e] \in Int
    BY <1>1, <1>2, <2>1 DEF TypeOK, TablesTypeOK
  <2>10. vault[e] \in Nat /\ Unrecorded(e) \in Int
    BY <1>1, SumsAreNumbers DEF TypeOK
  <2> QED
    BY <1>2, <1>4, <1>6, <2>5, <2>6, <2>8, <2>9, <2>10 DEF BooksOf
<1> QED
  BY <1>7, <1>8

\* DELETE /streams/:id: the refund goes back.
LEMMA CancelKeepsBooks ==
  ASSUME IInv, IInv', NEW q \in StreamIds, CancelStream(q), NEW e \in Employers, BooksOf(e)
  PROVE  BooksOf(e)'
<1>1. TypeOK /\ TypeOK' /\ ChargedOnceRefundedOnce /\ ChargedOnceRefundedOnce'
  BY DEF IInv
<1>2. streams[q] \in Rows /\ streams[q] # NoRow /\ ~streams[q].deleted
  BY <1>1 DEF CancelStream, SoftDeleteStream, TypeOK, TablesTypeOK, Exists
<1>3. PICK back \in Nat : back = Refund(streams[q])
  BY <1>2, RefundBound
<1>4. PICK owner \in Employers : owner = streams[q].employer
  BY <1>2 DEF Rows
<1>5. /\ balance' = [balance EXCEPT ![owner] = @ + back]
      /\ audit' = [audit EXCEPT ![q].cancelled = @ + 1, ![q].refunded = @ + back]
      /\ UNCHANGED <<dep, vault, disturbed>>
  BY <1>3, <1>4 DEF CancelStream, SoftDeleteStream, apiVars
<1>6. PICK row : row = [streams[q] EXCEPT !.deleted = TRUE, !.status = "cancelled"]
  OBVIOUS
<1>7. streams' = [streams EXCEPT ![q] = row]
  BY <1>6 DEF CancelStream, SoftDeleteStream
<1>8. row \in Rows /\ row.employer = owner /\ row # NoRow
  <2>1. row \in Rows /\ row.employer = owner
    BY <1>2, <1>4, <1>6 DEF Rows, Statuses
  <2> QED
    BY <2>1, NoRowAssumption
<1>9. /\ streams'[q] = row
      /\ \A s \in StreamIds \ {q} : streams'[s] = streams[s] /\ audit'[s] = audit[s]
  BY <1>1, <1>5, <1>7 DEF TypeOK, TablesTypeOK
<1>10. /\ audit'[q].charged = audit[q].charged /\ audit'[q].refunded = audit[q].refunded + back
       /\ audit[q].charged \in Nat /\ audit[q].refunded \in Nat
  BY <1>1, <1>5 DEF TypeOK, TablesTypeOK, AuditRows
<1>11. Cost(q, e) = IF e = owner THEN audit[q].charged - audit[q].refunded ELSE 0
  BY <1>2, <1>4 DEF Cost, Exists
<1>12. Cost(q, e)' = IF e = owner THEN audit'[q].charged - audit'[q].refunded ELSE 0
  BY <1>8, <1>9 DEF Cost, Exists
<1>13. NetCharged(e)' = NetCharged(e) + (Cost(q, e)' - Cost(q, e)) /\ NetCharged(e) \in Int
  BY <1>1, <1>9, OneStreamChanges
<1>14. balance'[e] = balance[e] + (IF e = owner THEN back ELSE 0) /\ balance[e] \in Int
  BY <1>1, <1>5 DEF TypeOK, TablesTypeOK
<1>15. vault[e] \in Nat /\ Unrecorded(e) \in Int /\ Unrecorded(e)' = Unrecorded(e)
  BY <1>1, <1>5, SumsAreNumbers DEF TypeOK, Unrecorded
<1>16. Cost(q, e)' - Cost(q, e) = IF e = owner THEN 0 - back ELSE 0
  BY <1>10, <1>11, <1>12
<1> QED
  BY <1>5, <1>13, <1>14, <1>15, <1>16 DEF BooksOf

\* The steps of a deposit: read, write back, record, or give up.
LEMMA DepositKeepsBooks ==
  ASSUME IInv, IInv', NEW x \in Deposits,
         \/ \E e \in Employers, a \in DepositAmounts : DepositRead(x, e, a)
         \/ DepositWrite(x) \/ DepositRecord(x) \/ DepositFails(x),
         NEW e \in Employers, BooksOf(e)
  PROVE  BooksOf(e)'
<1>1. TypeOK /\ TypeOK'
  BY DEF IInv
<1>2. /\ UNCHANGED <<streams, audit>>
      /\ \A d \in Deposits \ {x} : dep'[d] = dep[d]
  BY <1>1 DEF DepositRead, DepositWrite, DepositRecord, DepositFails, tableVars, TypeOK
<1>3. NetCharged(e)' = NetCharged(e) /\ NetCharged(e) \in Int
  BY <1>1, <1>2, SumsAreNumbers DEF NetCharged, Exists
<1>4. /\ Unrecorded(e) \in Int
      /\ Unrecorded(e)' = Unrecorded(e) + (Surplus(x, e)' - Surplus(x, e))
  BY <1>1, <1>2, OneDepositChanges
<1>5. balance[e] \in Int /\ vault[e] \in Nat
  BY <1>1 DEF TypeOK, TablesTypeOK
<1>6. CASE \E a \in DepositAmounts, o \in Employers : DepositRead(x, o, a)
  <2>1. dep[x].pc = "new" /\ dep'[x].pc = "read" /\ UNCHANGED <<balance, vault, disturbed>>
    BY <1>1, <1>6 DEF DepositRead, TypeOK, tableVars
  <2>2. Surplus(x, e) = 0 /\ Surplus(x, e)' = 0
    BY <2>1 DEF Surplus
  <2> QED
    BY <1>3, <1>4, <2>1, <2>2 DEF BooksOf
<1>7. CASE DepositWrite(x) \/ DepositRecord(x) \/ DepositFails(x)
  <2>1. dep[x] \in DepositStates
    BY <1>1, <1>7 DEF DepositWrite, DepositRecord, DepositFails, TypeOK, NewDeposit
  <2>2. PICK owner \in Employers : owner = dep[x].employer
    BY <2>1 DEF DepositStates
  <2>3. PICK sum \in Nat : sum = dep[x].amount
    BY <2>1, AmountsAssumption DEF DepositStates
  <2>4. PICK seen \in Int : seen = dep[x].seen
    BY <2>1 DEF DepositStates
  <2>5. dep'[x].employer = owner /\ dep'[x].amount = sum
    BY <1>1, <1>7, <2>1, <2>2, <2>3
    DEF DepositWrite, DepositRecord, DepositFails, TypeOK, DepositStates
  <2>6. CASE DepositWrite(x)
    <3>1. /\ dep[x].pc = "read" /\ UNCHANGED vault
          /\ balance' = [balance EXCEPT ![owner] = seen + sum]
          /\ disturbed' = [disturbed EXCEPT ![owner] = @ \/ balance[owner] # seen]
      BY <2>2, <2>3, <2>4, <2>6 DEF DepositWrite
    <3>2. dep'[x].pc = "written"
      BY <1>1, <2>1, <2>6 DEF DepositWrite, TypeOK, DepositStates
    <3>3. Surplus(x, e) = 0 /\ Surplus(x, e)' = IF e = owner THEN sum ELSE 0
      BY <2>5, <3>1, <3>2 DEF Surplus
    <3>4. CASE e = owner
      <4>1. balance'[e] = seen + sum /\ (~disturbed'[e] => ~disturbed[e] /\ balance[e] = seen)
        BY <1>1, <3>1, <3>4 DEF TypeOK, TablesTypeOK
      <4> QED
        BY <1>3, <1>4, <1>5, <3>1, <3>3, <3>4, <4>1 DEF BooksOf
    <3>5. CASE e # owner
      <4>1. balance'[e] = balance[e] /\ disturbed'[e] = disturbed[e]
        BY <1>1, <3>1, <3>5 DEF TypeOK, TablesTypeOK
      <4> QED
        BY <1>3, <1>4, <1>5, <3>1, <3>3, <3>5, <4>1 DEF BooksOf
    <3> QED
      BY <3>4, <3>5
  <2>7. CASE DepositRecord(x)
    <3>1. /\ dep[x].pc = "written" /\ UNCHANGED <<balance, disturbed>>
          /\ vault' = [vault EXCEPT ![owner] = @ + sum]
      BY <2>2, <2>3, <2>7 DEF DepositRecord, tableVars
    <3>2. dep'[x].pc = "done"
      BY <1>1, <2>1, <2>7 DEF DepositRecord, TypeOK, DepositStates
    <3>3. Surplus(x, e)' = 0 /\ Surplus(x, e) = IF e = owner THEN sum ELSE 0
      BY <2>2, <2>3, <3>1, <3>2 DEF Surplus
    <3>4. vault'[e] = vault[e] + (IF e = owner THEN sum ELSE 0)
      BY <1>1, <3>1 DEF TypeOK
    <3> QED
      BY <1>3, <1>4, <1>5, <3>1, <3>3, <3>4 DEF BooksOf
  <2>8. CASE DepositFails(x)
    <3>1. /\ dep[x].pc \in {"read", "written"} /\ UNCHANGED <<balance, vault>>
          /\ disturbed' = [disturbed EXCEPT ![owner] = @ \/ dep[x].pc = "written"]
      BY <2>2, <2>8 DEF DepositFails, tableVars
    <3>2. dep'[x].pc = "done"
      BY <1>1, <2>1, <2>8 DEF DepositFails, TypeOK, DepositStates
    <3>3. Surplus(x, e)' = 0
      BY <3>2 DEF Surplus
    <3>4. CASE e = owner /\ dep[x].pc = "written"
      <4>1. disturbed'[e]
        BY <1>1, <3>1, <3>4 DEF TypeOK
      <4> QED
        BY <4>1 DEF BooksOf
    <3>5. CASE e # owner \/ dep[x].pc = "read"
      <4>1. disturbed'[e] = disturbed[e]
        BY <1>1, <3>1, <3>5 DEF TypeOK
      <4>2. Surplus(x, e) = 0
        BY <2>2, <3>5 DEF Surplus
      <4> QED
        BY <1>3, <1>4, <1>5, <3>1, <3>3, <4>1, <4>2 DEF BooksOf
    <3> QED
      BY <3>1, <3>4, <3>5
  <2> QED
    BY <1>7, <2>6, <2>7, <2>8
<1> QED
  BY <1>6, <1>7

\* Treasury, vault events and audit log agree: what creations, cancellations and
\* undisturbed deposits did to a balance is what they wrote down
\* (queries.ts:263-292, 1263-1296, employers.ts:82-95).
THEOREM BooksTheorem == Spec => []BooksBalance
<1>1. Init => BooksBalance
  <2> SUFFICES ASSUME Init, NEW e \in Employers PROVE BooksOf(e)
    BY DEF BooksBalance, BooksOf
  <2>1. TypeOK
    BY DEF Init, TablesInit, TypeOK, TablesTypeOK, NoAudit, AuditRows
  <2>2. SharesFine
    BY <2>1, SharesAreNumbers
  <2>3. PICK f \in [StreamIds -> Int] : f = Costs(e)
    BY <2>2 DEF SharesFine
  <2>4. PICK g \in [Deposits -> Int] : g = Surpluses(e)
    BY <2>2 DEF SharesFine
  <2>5. \A s \in StreamIds : f[s] = 0
    BY <2>3 DEF Costs, Cost, Exists, Init, TablesInit
  <2>6. \A d \in Deposits : g[d] = 0
    BY <2>4 DEF Surpluses, Surplus, Init, NewDeposit
  <2>7. SumFunction(f) = 0 /\ SumFunction(g) = 0
    BY <2>5, <2>6, FiniteAssumption, SumOfNothing
  <2>8. NetCharged(e) = 0 /\ Unrecorded(e) = 0
    BY <2>2, <2>3, <2>4, <2>7 DEF SharesFine
  <2>9. balance[e] = 0 /\ vault[e] = 0
    BY DEF Init, TablesInit
  <2> QED
    BY <2>8, <2>9 DEF BooksOf
<1>2. IInv /\ IInv' /\ BooksBalance /\ [Next]_vars => BooksBalance'
  <2> SUFFICES ASSUME IInv, IInv', BooksBalance, [Next]_vars, NEW e \in Employers
               PROVE  BooksOf(e)'
    BY DEF BooksBalance, BooksOf
  <2>1. BooksOf(e)
    BY DEF BooksBalance, BooksOf
  <2>2. ASSUME NEW p \in Requests, CreateStream(p) PROVE BooksOf(e)'
    BY <2>1, <2>2, CreateKeepsBooks
  <2>3. ASSUME NEW q \in StreamIds, CancelStream(q) PROVE BooksOf(e)'
    BY <2>1, <2>3, CancelKeepsBooks
  <2>4. ASSUME NEW d \in Deposits,
               \/ \E o \in Employers, a \in DepositAmounts : DepositRead(d, o, a)
               \/ DepositWrite(d) \/ DepositRecord(d) \/ DepositFails(d)
        PROVE  BooksOf(e)'
    BY <2>1, <2>4, DepositKeepsBooks
  <2>5. CASE UNCHANGED vars
    BY <2>1, <2>5 DEF vars, BooksOf, NetCharged, Unrecorded, Exists
  <2> QED
    BY <2>2, <2>3, <2>4, <2>5 DEF Next
<1> QED
  BY InductiveInvariant, <1>1, <1>2, PTL DEF Spec
-----------------------------------------------------------------------------
(* The tables keep TreasuryPromise: a request charges a stream, closes one, is  *)
(* a deposit, or changes no money.                                             *)

Money == <<ContractStates, ContractPayers, ChargedBy, ReturnedBy, balance>>

\* The upsert that inserts is a charge of the promise.
LEMMA FirstUpsert ==
  ASSUME IInv, NEW p \in UpsertParams, UpsertStream(p), ~Exists(p.id), p.total \in Totals
  PROVE  Treasury!Charges(p.id)
<1>1. TablesTypeOK /\ ChargedOnceRefundedOnce /\ p.id \in StreamIds /\ p.total \in Nat \ {0}
      /\ p.employer \in Employers
  BY DEF IInv, TypeOK, UpsertParams, UpsertStream, Rejected
<1>2. PICK row \in Rows : row = RowAfter(p)
  BY <1>1, RowAfterIsRow
<1>3. row.employer = p.employer /\ row.deleted = FALSE /\ row # NoRow
  BY <1>1, <1>2, NoRowAssumption DEF RowAfter
<1>4. streams' = [streams EXCEPT ![p.id] = row]
  BY <1>2 DEF UpsertStream
<1>5. /\ streams'[p.id] = row /\ Exists(p.id)'
      /\ \A s \in StreamIds \ {p.id} : streams'[s] = streams[s] /\ (Exists(s)' <=> Exists(s))
  BY <1>1, <1>3, <1>4 DEF TablesTypeOK, Exists
<1>6. /\ audit' = [audit EXCEPT ![p.id].created = @ + 1, ![p.id].charged = @ + p.total]
      /\ balance' = [balance EXCEPT ![p.employer] = @ - p.total]
  BY DEF UpsertStream
<1>7. /\ audit'[p.id].charged = p.total /\ audit'[p.id].refunded = audit[p.id].refunded
      /\ \A s \in StreamIds \ {p.id} : audit'[s] = audit[s]
  <2>1. audit[p.id] = NoAudit /\ audit[p.id].charged = 0
    BY <1>1 DEF ChargedOnceRefundedOnce, NoAudit
  <2> QED
    BY <1>1, <1>6, <2>1 DEF TablesTypeOK, AuditRows, NoAudit
<1>8. ContractStates[p.id] = "absent" /\ ContractStates' = [ContractStates EXCEPT ![p.id] = "open"]
  BY <1>1, <1>3, <1>5 DEF ContractStates
<1>9. ContractPayers' = [ContractPayers EXCEPT ![p.id] = p.employer]
  BY <1>1, <1>3, <1>5 DEF ContractPayers
<1>10. ChargedBy' = [ChargedBy EXCEPT ![p.id] = p.total] /\ ReturnedBy' = ReturnedBy
  BY <1>1, <1>7 DEF ChargedBy, ReturnedBy
<1>11. p.total \in Totals \ {0}
  BY <1>1
<1> QED
  BY <1>1, <1>6, <1>8, <1>9, <1>10, <1>11 DEF Treasury!Charges

\* The one that updates changes no money.
LEMMA LaterUpsert ==
  ASSUME IInv, NEW p \in UpsertParams, UpsertStream(p), Exists(p.id)
  PROVE  UNCHANGED Money
<1>1. TablesTypeOK /\ p.id \in StreamIds /\ p.total # 0
  BY DEF IInv, TypeOK, UpsertParams, UpsertStream, Rejected
<1>2. PICK row \in Rows : row = RowAfter(p)
  BY <1>1, RowAfterIsRow
<1>3. row.employer = streams[p.id].employer /\ row.deleted = streams[p.id].deleted /\ row # NoRow
  BY <1>1, <1>2, RowAfterIsRow, NoRowAssumption
<1>4. streams' = [streams EXCEPT ![p.id] = row] /\ UNCHANGED <<audit, balance>>
  BY <1>2 DEF UpsertStream
<1>5. \A s \in StreamIds :
        /\ Exists(s)' <=> Exists(s)
        /\ streams'[s].employer = streams[s].employer /\ streams'[s].deleted = streams[s].deleted
  BY <1>1, <1>3, <1>4 DEF TablesTypeOK, Exists
<1>6. ContractStates' = ContractStates /\ ContractPayers' = ContractPayers
  BY <1>5 DEF ContractStates, ContractPayers
<1> QED
  BY <1>4, <1>6 DEF Money, ChargedBy, ReturnedBy

LEMMA CancelCloses ==
  ASSUME IInv, NEW q \in StreamIds, CancelStream(q)
  PROVE  Treasury!Closes(q)
<1>1. TablesTypeOK /\ ChargedOnceRefundedOnce /\ Exists(q) /\ streams[q] \in Rows
      /\ ~streams[q].deleted
  BY DEF IInv, TypeOK, TablesTypeOK, CancelStream, SoftDeleteStream, Exists
<1>2. PICK back \in Nat : back = Refund(streams[q])
  BY <1>1, RefundBound
<1>3. PICK row : row = [streams[q] EXCEPT !.deleted = TRUE, !.status = "cancelled"]
  OBVIOUS
<1>4. row \in Rows /\ row.employer = streams[q].employer /\ row.deleted = TRUE /\ row # NoRow
  <2>1. row \in Rows /\ row.employer = streams[q].employer /\ row.deleted = TRUE
    BY <1>1, <1>3 DEF Rows, Statuses
  <2> QED
    BY <2>1, NoRowAssumption
<1>5. /\ streams' = [streams EXCEPT ![q] = row]
      /\ balance' = [balance EXCEPT ![streams[q].employer] = @ + back]
      /\ audit' = [audit EXCEPT ![q].cancelled = @ + 1, ![q].refunded = @ + back]
  BY <1>2, <1>3 DEF CancelStream, SoftDeleteStream
<1>6. /\ streams'[q] = row /\ Exists(q)'
      /\ \A s \in StreamIds \ {q} : streams'[s] = streams[s] /\ (Exists(s)' <=> Exists(s))
  BY <1>1, <1>4, <1>5 DEF TablesTypeOK, Exists
<1>7. /\ audit'[q].charged = audit[q].charged /\ audit'[q].refunded = back
      /\ \A s \in StreamIds \ {q} : audit'[s] = audit[s]
  <2>1. audit[q].refunded = 0 /\ audit[q] \in AuditRows
    BY <1>1 DEF ChargedOnceRefundedOnce, TablesTypeOK, AuditRows
  <2> QED
    BY <1>1, <1>5, <2>1 DEF TablesTypeOK, AuditRows
<1>8. back \in 0..ChargedBy[q]
  <2>1. audit[q].charged = streams[q].total /\ back <= streams[q].total /\ streams[q].total \in Nat
    BY <1>1, <1>2, RefundBound DEF ChargedOnceRefundedOnce, Rows
  <2> QED
    BY <1>2, <2>1 DEF ChargedBy
<1>9. ContractStates[q] = "open" /\ ContractStates' = [ContractStates EXCEPT ![q] = "closed"]
  BY <1>1, <1>4, <1>6 DEF ContractStates
<1>10. ContractPayers' = ContractPayers /\ ContractPayers[q] = streams[q].employer
  BY <1>1, <1>4, <1>6 DEF ContractPayers
<1>11. ReturnedBy' = [ReturnedBy EXCEPT ![q] = back] /\ ChargedBy' = ChargedBy
  BY <1>7 DEF ReturnedBy, ChargedBy
<1> QED
  BY <1>5, <1>8, <1>9, <1>10, <1>11 DEF Treasury!Closes

\* A deposit writes one balance, or none.
LEMMA DepositDeposits ==
  ASSUME IInv, NEW d \in Deposits,
         \/ \E e \in Employers, a \in DepositAmounts : DepositRead(d, e, a)
         \/ DepositWrite(d) \/ DepositRecord(d) \/ DepositFails(d)
  PROVE  UNCHANGED Money \/ \E e \in Employers : Treasury!MovesByOwner(e)
<1>1. UNCHANGED <<streams, audit>>
  BY DEF DepositRead, DepositWrite, DepositRecord, DepositFails, tableVars
<1>2. UNCHANGED <<ContractStates, ContractPayers, ChargedBy, ReturnedBy>>
  BY <1>1 DEF ContractStates, ContractPayers, ChargedBy, ReturnedBy, Exists
<1>3. CASE DepositWrite(d)
  <2>1. PICK e \in Employers :
          balance' = [balance EXCEPT ![e] = dep[d].seen + dep[d].amount]
    <3>1. dep[d] \in DepositStates
      BY <1>3 DEF DepositWrite, IInv, TypeOK, NewDeposit
    <3> QED
      BY <1>3, <3>1 DEF DepositWrite, DepositStates
  <2>2. \A o \in Employers \ {e} : balance'[o] = balance[o]
    BY <2>1 DEF IInv, TypeOK, TablesTypeOK
  <2> QED
    BY <1>2, <2>2 DEF Treasury!MovesByOwner
<1>4. CASE ~DepositWrite(d)
  <2>1. balance' = balance
    BY <1>4 DEF DepositRead, DepositRecord, DepositFails, tableVars
  <2> QED
    BY <1>2, <2>1 DEF Money
<1> QED
  BY <1>3, <1>4

\* For any streams, employers, amounts and order of requests: the treasury is
\* charged once for a stream, gets back at most that, once and to the employer
\* that was charged, and is changed by its employer's deposits otherwise
\* (queries.ts:236-292, 1221-1308, employers.ts:82).
THEOREM TreasuryKept == Spec => KeepsTreasury
<1>1. Init => Treasury!TreasuryInit
  BY DEF Init, TablesInit, NoAudit, Treasury!TreasuryInit, ContractStates, ChargedBy,
         ReturnedBy, Exists
<1>2. IInv /\ [Next]_vars => [Treasury!TreasuryNext]_(Treasury!treasuryVars)
  <2> SUFFICES ASSUME IInv, [Next]_vars
               PROVE  Treasury!TreasuryNext \/ UNCHANGED Money
    BY DEF Money, Treasury!treasuryVars
  <2>1. ASSUME NEW p \in Requests, CreateStream(p)
        PROVE  Treasury!TreasuryNext \/ UNCHANGED Money
    <3>1. p \in UpsertParams /\ p.id \in StreamIds /\ p.total \in Totals
      BY AmountsAssumption DEF Requests, UpsertParams
    <3>2. UpsertStream(p)
      BY <2>1 DEF CreateStream
    <3>3. CASE Exists(p.id)
      BY <3>1, <3>2, <3>3, LaterUpsert
    <3>4. CASE ~Exists(p.id)
      BY <3>1, <3>2, <3>4, FirstUpsert DEF Treasury!TreasuryNext
    <3> QED
      BY <3>3, <3>4
  <2>2. ASSUME NEW q \in StreamIds, CancelStream(q) PROVE Treasury!TreasuryNext
    BY <2>2, CancelCloses DEF Treasury!TreasuryNext
  <2>3. ASSUME NEW d \in Deposits,
               \/ \E e \in Employers, a \in DepositAmounts : DepositRead(d, e, a)
               \/ DepositWrite(d) \/ DepositRecord(d) \/ DepositFails(d)
        PROVE  Treasury!TreasuryNext \/ UNCHANGED Money
    BY <2>3, DepositDeposits DEF Treasury!TreasuryNext
  <2>4. CASE UNCHANGED vars
    BY <2>4 DEF vars, Money, ContractStates, ContractPayers, ChargedBy, ReturnedBy, Exists
  <2> QED
    BY <2>1, <2>2, <2>3, <2>4 DEF Next
<1> QED
  BY InductiveInvariant, <1>1, <1>2, PTL DEF Spec, KeepsTreasury, Treasury!TreasurySpec
=============================================================================
