------------------------------- MODULE StreamApi -------------------------------
(* The HTTP handlers that move an employer's treasury: POST and DELETE         *)
(* /streams (src/routes/streams.ts) and POST /employers/treasury/deposit       *)
(* (src/routes/employers.ts).  The deposit handler reads the balance, adds in  *)
(* memory and writes the sum back in a later statement, then records the       *)
(* deposit in vault_events in a third one.                                     *)
EXTENDS StreamTables, FiniteSets, Functions

CONSTANTS
  Totals, Withdrawn,     \* amounts that requests to POST /streams carry
  Deposits,              \* requests to the deposit handler
  DepositAmounts         \* amounts they carry

ASSUME AmountsAssumption ==
  Totals \subseteq Nat /\ Withdrawn \subseteq Nat /\ DepositAmounts \subseteq Nat
\* Tables have finitely many rows.
ASSUME FiniteAssumption == IsFiniteSet(StreamIds) /\ IsFiniteSet(Deposits)

VARIABLES
  dep,        \* dep[d]: a deposit request and what it has read
  vault,      \* vault[e]: sum of the 'deposit' rows of vault_events
  disturbed   \* history: a deposit of e wrote over a change it had not read,
              \* or died between its two writes

apiVars == <<dep, vault, disturbed>>
vars == <<streams, balance, audit, dep, vault, disturbed>>

DepositStates ==
  [pc : {"new", "read", "written", "done"}, employer : Employers,
   amount : DepositAmounts, seen : Int]

NewDeposit == [pc |-> "new"]

TypeOK ==
  /\ TablesTypeOK
  /\ dep \in [Deposits -> DepositStates \cup {NewDeposit}]
  /\ vault \in [Employers -> Nat]
  /\ disturbed \in [Employers -> BOOLEAN]

Init ==
  /\ TablesInit
  /\ dep = [d \in Deposits |-> NewDeposit]
  /\ vault = [e \in Employers |-> 0]
  /\ disturbed = [e \in Employers |-> FALSE]

Requests == [id : StreamIds, employer : Employers, worker : Workers,
             total : Totals, withdrawn : Withdrawn, status : Statuses]

-----------------------------------------------------------------------------
\* POST /streams.  A rejected upsert becomes an error response.
CreateStream(p) == UpsertStream(p) /\ UNCHANGED apiVars

\* DELETE /streams/:id.
CancelStream(s) == SoftDeleteStream(s) /\ UNCHANGED apiVars

\* The handler reads the treasury balance.
DepositRead(d, e, a) ==
  /\ dep[d].pc = "new"
  /\ dep' = [dep EXCEPT ![d] = [pc |-> "read", employer |-> e, amount |-> a,
                                seen |-> balance[e]]]
  /\ UNCHANGED <<tableVars, vault, disturbed>>

\* updateTreasuryBalance(currentBalance + amount): overwrites the balance.
DepositWrite(d) ==
  LET e == dep[d].employer IN
  /\ dep[d].pc = "read"
  /\ balance' = [balance EXCEPT ![e] = dep[d].seen + dep[d].amount]
  /\ disturbed' = [disturbed EXCEPT ![e] = @ \/ balance[e] # dep[d].seen]
  /\ dep' = [dep EXCEPT ![d].pc = "written"]
  /\ UNCHANGED <<streams, audit, vault>>

\* Mutation of DepositRecord: records the balance, not the amount.
RecordBalance(d) ==
  LET e == dep[d].employer IN
  /\ dep[d].pc = "written"
  /\ vault' = [vault EXCEPT ![e] = @ + dep[d].seen + dep[d].amount]
  /\ dep' = [dep EXCEPT ![d].pc = "done"]
  /\ UNCHANGED <<tableVars, disturbed>>

\* recordVaultEvent("deposit"), then 201 "accepted".
DepositRecord(d) ==
  LET e == dep[d].employer IN
  /\ dep[d].pc = "written"
  /\ vault' = [vault EXCEPT ![e] = @ + dep[d].amount]
  /\ dep' = [dep EXCEPT ![d].pc = "done"]
  /\ UNCHANGED <<tableVars, disturbed>>

\* A statement fails or the process dies; nothing is undone.
DepositFails(d) ==
  LET e == dep[d].employer IN
  /\ dep[d].pc \in {"read", "written"}
  /\ dep' = [dep EXCEPT ![d].pc = "done"]
  /\ disturbed' = [disturbed EXCEPT ![e] = @ \/ dep[d].pc = "written"]
  /\ UNCHANGED <<tableVars, vault>>

Next ==
  \/ \E p \in Requests : CreateStream(p)
  \/ \E s \in StreamIds : CancelStream(s)
  \/ \E d \in Deposits, e \in Employers, a \in DepositAmounts :
       DepositRead(d, e, a)
  \/ \E d \in Deposits :
       DepositWrite(d) \/ DepositRecord(d) \/ DepositFails(d)

Spec == Init /\ [][Next]_vars

-----------------------------------------------------------------------------
\* What the employer's streams have taken out of the treasury.
NetCharged(e) ==
  SumFunction([s \in StreamIds |->
    IF Exists(s) /\ streams[s].employer = e THEN audit[s].charged - audit[s].refunded ELSE 0])

\* Deposits that are in the balance and not yet in vault_events.
Unrecorded(e) ==
  SumFunction([d \in Deposits |->
    IF dep[d].pc = "written" /\ dep[d].employer = e THEN dep[d].amount ELSE 0])

\* The books balance: treasury_balances equals the recorded deposits minus what
\* the audit log charges plus what it refunds, unless a deposit's
\* read-add-write (employers.ts:82-95) overlapped another change of the same
\* balance or failed half way.
BooksBalance ==
  \A e \in Employers : ~disturbed[e] =>
    balance[e] = vault[e] + Unrecorded(e) - NetCharged(e)

\* TreasuryPromise of the tables under the routes.
Treasury == INSTANCE TreasuryPromise WITH
  Contracts <- StreamIds, Payers <- Employers, Amounts <- Totals, Depositors <- Employers,
  state <- ContractStates, payer <- ContractPayers,
  charged <- ChargedBy, returned <- ReturnedBy, treasury <- balance

\* Whatever creations, replays and cancellations are asked for in whatever order,
\* together they only charge a stream once to one employer, give that employer
\* back at most the charge, once, and leave every other treasury alone: each
\* request is one of these steps or changes no money (queries.ts:236-292,
\* 1221-1308).
KeepsTreasury == Treasury!TreasurySpec
=============================================================================
