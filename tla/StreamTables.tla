----------------------------- MODULE StreamTables -----------------------------
(* The PostgreSQL tables behind payroll streams and the two transactions that *)
(* write them: upsertStream and softDeleteStream (src/db/queries.ts).  Both    *)
(* run in withDbTransaction and lock the stream row before the treasury row,  *)
(* so each is one atomic action.                                               *)
EXTENDS Integers

CONSTANTS
  StreamIds, Employers, Workers,
  NoRow       \* no row of payroll_streams has this stream_id

Statuses == {"active", "paused", "completed", "cancelled"}

\* A row of payroll_streams.  deleted stands for deleted_at IS NOT NULL.
Rows == [employer : Employers, worker : Workers, total : Nat \ {0},
         withdrawn : Nat, status : Statuses, deleted : BOOLEAN]

ASSUME NoRowAssumption == NoRow \notin Rows

\* The parameters of upsertStream that reach a column some property looks at.
UpsertParams == [id : StreamIds, employer : Employers, worker : Workers,
                 total : Nat, withdrawn : Nat, status : Statuses]

VARIABLES
  streams,   \* payroll_streams by stream_id
  balance,   \* treasury_balances by employer; no row reads as 0
  audit      \* stream_audit_log by stream: rows per action, amounts they carry

tableVars == <<streams, balance, audit>>

AuditRows == [created : Nat, cancelled : Nat, charged : Nat, refunded : Nat]
NoAudit == [created |-> 0, cancelled |-> 0, charged |-> 0, refunded |-> 0]

TablesTypeOK ==
  /\ streams \in [StreamIds -> Rows \cup {NoRow}]
  /\ balance \in [Employers -> Int]
  /\ audit \in [StreamIds -> AuditRows]

TablesInit ==
  /\ streams = [s \in StreamIds |-> NoRow]
  /\ balance = [e \in Employers |-> 0]
  /\ audit = [s \in StreamIds |-> NoAudit]

Exists(s) == streams[s] # NoRow

-----------------------------------------------------------------------------
\* Mutation of RowAfter: the update takes every column from the request.
RowReplaced(p) ==
  [employer |-> p.employer, worker |-> p.worker, total |-> p.total,
   withdrawn |-> p.withdrawn, status |-> p.status, deleted |-> FALSE]

\* The row an upsert leaves: an insert takes every column, an update only
\* withdrawn_amount and status (deleted_at and the parties stay).
RowAfter(p) ==
  IF Exists(p.id)
  THEN [streams[p.id] EXCEPT !.withdrawn = p.withdrawn, !.status = p.status]
  ELSE [employer |-> p.employer, worker |-> p.worker, total |-> p.total,
        withdrawn |-> p.withdrawn, status |-> p.status, deleted |-> FALSE]

\* Migration 013: PostgreSQL checks total_amount > 0 on the proposed row even
\* when ON CONFLICT turns the insert into an update, and allows one active
\* stream per employer and worker.
Rejected(p) ==
  \/ p.total = 0
  \/ /\ p.status = "active"
     /\ \E s \in StreamIds \ {p.id} :
          /\ Exists(s)
          /\ streams[s].status = "active"
          /\ streams[s].employer = RowAfter(p).employer
          /\ streams[s].worker = RowAfter(p).worker

\* Mutation of UpsertStream: an update charges the employer too.
UpsertCharging(p) ==
  /\ ~Rejected(p)
  /\ streams' = [streams EXCEPT ![p.id] = RowAfter(p)]
  /\ balance' = [balance EXCEPT ![p.employer] = @ - p.total]
  /\ audit' = [audit EXCEPT ![p.id].created = @ + 1,
                            ![p.id].charged = @ + p.total]

\* upsertStream commits: the first insertion also charges the employer and
\* writes the 'created' audit row, an update does neither.
UpsertStream(p) ==
  /\ ~Rejected(p)
  /\ streams' = [streams EXCEPT ![p.id] = RowAfter(p)]
  /\ \/ /\ ~Exists(p.id)
        /\ balance' = [balance EXCEPT ![p.employer] = @ - p.total]
        /\ audit' = [audit EXCEPT ![p.id].created = @ + 1,
                                  ![p.id].charged = @ + p.total]
     \/ /\ Exists(p.id)
        /\ UNCHANGED <<balance, audit>>

\* Mutation of Refund: GREATEST is missing.
RefundUnclipped(row) == row.total - row.withdrawn

\* GREATEST(total_amount - withdrawn_amount, 0).
Refund(row) == IF row.total > row.withdrawn THEN row.total - row.withdrawn ELSE 0

\* Mutation of SoftDeleteStream: "deleted_at IS NULL" is missing from the
\* target query, so a second cancellation refunds again.
DeleteAgain(s) ==
  /\ Exists(s)
  /\ streams' = [streams EXCEPT ![s].deleted = TRUE, ![s].status = "cancelled"]
  /\ balance' = [balance EXCEPT ![streams[s].employer] = @ + Refund(streams[s])]
  /\ audit' = [audit EXCEPT ![s].cancelled = 1,
                            ![s].refunded = @ + Refund(streams[s])]

\* softDeleteStream commits.  A missing or deleted stream matches no row, and
\* the function returns false without writing.
SoftDeleteStream(s) ==
  /\ Exists(s) /\ ~streams[s].deleted
  /\ streams' = [streams EXCEPT ![s].deleted = TRUE, ![s].status = "cancelled"]
  /\ balance' = [balance EXCEPT ![streams[s].employer] = @ + Refund(streams[s])]
  /\ audit' = [audit EXCEPT ![s].cancelled = @ + 1,
                            ![s].refunded = @ + Refund(streams[s])]

-----------------------------------------------------------------------------
\* The streams as TreasuryPromise sees them: its contracts, and what the audit
\* log says of each.
ContractStates ==
  [s \in StreamIds |-> IF ~Exists(s) THEN "absent"
                       ELSE IF streams[s].deleted THEN "closed" ELSE "open"]
ContractPayers == [s \in StreamIds |-> IF Exists(s) THEN streams[s].employer ELSE NoRow]
ChargedBy == [s \in StreamIds |-> audit[s].charged]
ReturnedBy == [s \in StreamIds |-> audit[s].refunded]

\* Over any sequence of creations, replays, status changes and cancellations
\* (queries.ts:263-292, 1263-1296) a stream is charged exactly once, for its
\* full amount, and refunded at most once, for no more than that amount, and
\* the refund exists exactly when the stream is soft-deleted.
ChargedOnceRefundedOnce ==
  \A s \in StreamIds :
    IF Exists(s)
    THEN /\ audit[s].created = 1
         /\ audit[s].charged = streams[s].total
         /\ audit[s].cancelled = (IF streams[s].deleted THEN 1 ELSE 0)
         /\ audit[s].refunded <= audit[s].charged
         /\ audit[s].refunded > 0 => streams[s].deleted
    ELSE audit[s] = NoAudit

\* A replay never rewrites what a stream is: its parties, its amount and the
\* soft-delete mark survive every later upsert (queries.ts:241-245).
RowIdentityKept ==
  [][\A s \in StreamIds : Exists(s) =>
       /\ streams'[s] # NoRow
       /\ streams'[s].employer = streams[s].employer
       /\ streams'[s].worker = streams[s].worker
       /\ streams'[s].total = streams[s].total
       /\ streams[s].deleted => streams'[s].deleted]_tableVars
=============================================================================
