------------------------------- MODULE LedgerSync -------------------------------
(* Ingestion of contract events into the stream tables: the syncer             *)
(* (src/syncer.ts) with its batches run as jobs of the shared queue            *)
(* (src/queue/asyncQueue.ts), and the event indexer                            *)
(* (src/services/eventIndexer.ts), which polls beside it and shares its row of *)
(* sync_cursors.  Each call of startSyncer adds a poll loop; in src/ only the  *)
(* admin route that replays a ledger_sync_batch item calls it (adminRouter.ts  *)
(* :277), while index.ts:416 starts the indexer.                               *)
EXTENDS StreamTables, Sequences, FiniteSets

CONSTANTS
  Chain,        \* the contract's events in ledger order
  MaxHead,      \* bound: the last ledger the network closes
  SyncStart,    \* SYNC_START_LEDGER
  BatchSize,    \* events per getEvents call of the syncer
  IndexBatch,   \* events per getEvents call of the indexer
  MaxAttempts,  \* attempts of a queue job
  Unservable,   \* start ledgers getEvents always refuses (out of retention)
  Loops,        \* poll loops of the syncer, of all replicas
  MaxFaults     \* bound on RPC errors, database errors and crashes

ASSUME BoundsAssumption ==
  /\ MaxHead \in Nat /\ SyncStart \in Nat /\ MaxFaults \in Nat
  /\ BatchSize \in Nat \ {0} /\ IndexBatch \in Nat \ {0} /\ MaxAttempts \in Nat \ {0}

Events == 1..Len(Chain)
Kinds == {"created", "withdrawn", "canceled", "other"}

\* What a node serves: events with the topics and parties of the contract, in
\* the order of their ledgers.
ASSUME ChainAssumption ==
  /\ Chain \in Seq([ledger : Nat, kind : Kinds, id : StreamIds, employer : Employers,
                    worker : Workers, total : Nat])
  /\ \A i, j \in Events : i <= j => Chain[i].ledger <= Chain[j].ledger

VARIABLES
  head,         \* last closed ledger
  cursor,       \* sync_cursors.last_ledger of the contract; no row reads as 0
  withdrawals,  \* rows of the withdrawals table per event
  failed,       \* events whose statement failed; ingestEvents logs and goes on
  dlq,          \* start ledgers of the ledger_sync_batch items in the DLQ
  sync,         \* sync[l]: the cycle of a poll loop of the syncer
  indexing,     \* startEventIndexer has been called
  index,        \* the cycle of the event indexer
  faults        \* faults so far

ledgerVars == <<cursor, withdrawals, failed>>
indexVars == <<indexing, index>>
vars == <<streams, balance, audit, head, cursor, withdrawals, failed, dlq, sync,
          indexing, index, faults>>

\* from is the loop variable `cursor`, next the value a batch gives it, todo the
\* events of the batch still to ingest.
Idle == [pc |-> "idle", from |-> 0, latest |-> 0, attempt |-> 1, next |-> 0,
         todo |-> {}]
Cycles == [pc : {"idle", "started", "fetch", "ingest", "save"}, from : Nat,
           latest : Nat, attempt : 1..MaxAttempts, next : Nat, todo : SUBSET Events]

TypeOK ==
  /\ TablesTypeOK
  /\ head \in 0..MaxHead /\ cursor \in 0..MaxHead
  /\ withdrawals \in [Events -> Nat] /\ failed \subseteq Events
  /\ dlq \subseteq Nat /\ faults \in 0..MaxFaults
  /\ sync \in [Loops -> Cycles] /\ index \in Cycles /\ indexing \in BOOLEAN

Init ==
  /\ TablesInit
  /\ head = 0 /\ cursor = 0 /\ faults = 0
  /\ withdrawals = [i \in Events |-> 0]
  /\ failed = {} /\ dlq = {}
  /\ sync = [l \in Loops |-> Idle] /\ index = Idle /\ indexing = FALSE

Fault == faults < MaxFaults /\ faults' = faults + 1

-----------------------------------------------------------------------------
(* The network and its RPC nodes. *)

\* getEvents: the first n events from a ledger on, up to the head.  That a node
\* answers up to the head is assumed: a short answer of one that lags would be
\* taken for the end, and the cursor moved past what it left out
\* (syncer.ts:356-373).  What may lag is getLatestLedger.
EventsFrom(ledger, n) ==
  LET there == {i \in Events : Chain[i].ledger \in ledger..head}
  IN  {i \in there : Cardinality({j \in there : j < i}) < n}

\* getLatestLedger: a node behind the RPC address may lag by a ledger.
LatestLedgers == {l \in {head, head - 1} : l >= 0}

CloseLedger ==
  /\ head < MaxHead
  /\ head' = head + 1
  /\ UNCHANGED <<tableVars, ledgerVars, dlq, sync, indexVars, faults>>

-----------------------------------------------------------------------------
(* ingestEvents of the syncer. *)

\* What the decoder makes of a created or canceled event: no amount comes with
\* a cancellation, so totalAmount is 0n.
Decoded(ev) ==
  [id |-> ev.id, employer |-> ev.employer, worker |-> ev.worker,
   total |-> IF ev.kind = "created" THEN ev.total ELSE 0, withdrawn |-> 0,
   status |-> IF ev.kind = "created" THEN "active" ELSE "cancelled"]

\* upsertStream for a created or canceled event.
IngestStream(i) ==
  /\ Chain[i].kind \in {"created", "canceled"}
  /\ UpsertStream(Decoded(Chain[i]))
  /\ UNCHANGED <<withdrawals, failed, faults>>

\* recordWithdrawal: a plain INSERT whose stream must exist (foreign key).  The
\* read that follows it may still fail, which is logged like a failed insert.
IngestWithdrawal(i) ==
  /\ Chain[i].kind = "withdrawn" /\ Exists(Chain[i].id)
  /\ withdrawals' = [withdrawals EXCEPT ![i] = @ + 1]
  /\ \/ UNCHANGED <<failed, faults>>
     \/ Fault /\ failed' = failed \cup {i}
  /\ UNCHANGED tableVars

\* parseEvent returns null.
IngestOther(i) ==
  /\ Chain[i].kind = "other"
  /\ UNCHANGED <<tableVars, withdrawals, failed, faults>>

\* The statement is refused, or the database fails; the error is logged.
IngestFails(i) ==
  /\ \/ /\ Chain[i].kind \in {"created", "canceled"}
        /\ Rejected(Decoded(Chain[i]))
        /\ UNCHANGED faults
     \/ Chain[i].kind = "withdrawn" /\ ~Exists(Chain[i].id) /\ UNCHANGED faults
     \/ Chain[i].kind # "other" /\ Fault
  /\ failed' = failed \cup {i}
  /\ UNCHANGED <<tableVars, withdrawals>>

Ingest(i) ==
  IngestStream(i) \/ IngestWithdrawal(i) \/ IngestOther(i) \/ IngestFails(i)

-----------------------------------------------------------------------------
(* A cycle of the syncer: runSync under the advisory lock. *)

\* The advisory lock (ideal here; AdvisoryLock has the real one) is free, and
\* the cursor is read.
Begun(cycle) ==
  [cycle EXCEPT !.pc = "started",
                !.from = (IF cursor > SyncStart THEN cursor ELSE SyncStart) + 1]
SyncStarts(l) ==
  /\ \A m \in Loops : sync[m].pc = "idle"
  /\ sync' = [sync EXCEPT ![l] = Begun(@)]
  /\ UNCHANGED <<tableVars, ledgerVars, head, dlq, indexVars, faults>>

\* A cycle that learns the latest ledger: nothing to do when it starts past it.
Bounded(cycle, latest) ==
  IF cycle.from > latest THEN Idle ELSE [cycle EXCEPT !.latest = latest, !.pc = "fetch"]

\* Mutation of SyncReadsHead: no early return when there is nothing to do.
SyncReadsHeadAlways(l, latest) ==
  /\ sync[l].pc = "started"
  /\ sync' = [sync EXCEPT ![l] = [@ EXCEPT !.latest = latest,
                                 !.pc = IF sync[l].from > latest THEN "save" ELSE "fetch"]]
  /\ UNCHANGED <<tableVars, ledgerVars, head, dlq, indexVars, faults>>

\* Mutation of SyncReadsHead: a start at the latest ledger is put off.
SyncReadsHeadLate(l, latest) ==
  /\ sync[l].pc = "started"
  /\ sync' = [sync EXCEPT ![l] = IF @.from >= latest THEN Idle ELSE Bounded(@, latest)]
  /\ UNCHANGED <<tableVars, ledgerVars, head, dlq, indexVars, faults>>

\* getLatestLedger.
SyncReadsHead(l, latest) ==
  /\ sync[l].pc = "started"
  /\ sync' = [sync EXCEPT ![l] = Bounded(@, latest)]
  /\ UNCHANGED <<tableVars, ledgerVars, head, dlq, indexVars, faults>>

\* A cycle with a batch, after which it goes on at the ledger next.
Fetched(cycle, batch, next) ==
  [cycle EXCEPT !.pc = "ingest", !.todo = batch, !.next = next]

\* Mutation of BatchFetched: a batch is taken for the whole answer.
BatchFetchedOnce(l) ==
  LET batch == EventsFrom(sync[l].from, BatchSize) IN
  /\ sync[l].pc = "fetch" /\ sync[l].from \notin Unservable
  /\ sync' = [sync EXCEPT ![l] = Fetched(@, batch, @.latest + 1)]
  /\ UNCHANGED <<tableVars, ledgerVars, head, dlq, indexVars, faults>>

\* The job's getEvents call answers.
BatchFetched(l) ==
  LET batch == EventsFrom(sync[l].from, BatchSize) IN
  /\ sync[l].pc = "fetch" /\ sync[l].from \notin Unservable
  /\ \/ batch = {} /\ sync' = [sync EXCEPT ![l] = Fetched(@, batch, @.latest + 1)]
     \/ \E last \in batch :
          /\ \A i \in batch : i <= last
          /\ sync' = [sync EXCEPT ![l] = Fetched(@, batch, Chain[last].ledger + 1)]
  /\ UNCHANGED <<tableVars, ledgerVars, head, dlq, indexVars, faults>>

Tried(cycle, attempt) == [cycle EXCEPT !.attempt = attempt]

\* Mutation of BatchFails: the attempts of a job are not limited.
BatchFailsForever(l) ==
  /\ sync[l].pc = "fetch"
  /\ \/ sync[l].from \in Unservable /\ UNCHANGED faults
     \/ Fault
  /\ sync' = [sync EXCEPT ![l] = Tried(@, @.attempt + 1)]
  /\ UNCHANGED <<tableVars, ledgerVars, head, dlq, indexVars>>

\* It fails: the job backs off and tries again; after the last attempt the
\* batch goes to the DLQ (unless that insert fails too), enqueueJob resolves as
\* after a success, and the while loop enqueues the same batch again.
BatchFails(l) ==
  /\ sync[l].pc = "fetch"
  /\ \/ sync[l].from \in Unservable /\ UNCHANGED faults
     \/ Fault
  /\ IF sync[l].attempt < MaxAttempts
     THEN /\ sync' = [sync EXCEPT ![l] = Tried(@, @.attempt + 1)]
          /\ UNCHANGED dlq
     ELSE /\ sync' = [sync EXCEPT ![l] = Tried(@, 1)]
          /\ dlq' \in {dlq \cup {sync[l].from}}
                        \cup (IF faults' > faults THEN {dlq} ELSE {})
  /\ UNCHANGED <<tableVars, ledgerVars, head, indexVars>>

\* The next event of the batch.
Handed(cycle, i) == [cycle EXCEPT !.todo = @ \ {i}]
SyncIngests(l) ==
  /\ sync[l].pc = "ingest"
  /\ \E i \in sync[l].todo : /\ \A j \in sync[l].todo : i <= j
                             /\ Ingest(i)
                             /\ sync' = [sync EXCEPT ![l] = Handed(@, i)]
  /\ UNCHANGED <<head, cursor, dlq, indexVars>>

\* The loop test after a batch.
Looped(cycle, next) ==
  [cycle EXCEPT !.from = next, !.attempt = 1,
                !.pc = IF next <= cycle.latest THEN "fetch" ELSE "save"]

\* The batch is done: the job returns and the loop test is evaluated.
BatchDone(l) ==
  /\ sync[l].pc = "ingest" /\ sync[l].todo = {}
  /\ sync' = [sync EXCEPT ![l] = Looped(@, @.next)]
  /\ UNCHANGED <<tableVars, ledgerVars, head, dlq, indexVars, faults>>

\* updateSyncCursor(latestLedger), after all batches, and the lock is released.
SyncSaves(l) ==
  /\ sync[l].pc = "save"
  /\ cursor' = sync[l].latest
  /\ sync' = [sync EXCEPT ![l] = Idle]
  /\ UNCHANGED <<tableVars, withdrawals, failed, head, dlq, indexVars, faults>>

\* A statement or RPC call outside the job throws, or the process dies: the
\* cycle ends without saving, and the next one starts from the old cursor.
SyncDies(l) ==
  /\ sync[l].pc # "idle"
  /\ Fault
  /\ sync' = [sync EXCEPT ![l] = Idle]
  /\ UNCHANGED <<tableVars, ledgerVars, head, dlq, indexVars>>

SyncStep(l) ==
  \/ SyncStarts(l) \/ BatchFetched(l) \/ BatchFails(l)
  \/ \E latest \in LatestLedgers : SyncReadsHead(l, latest)
  \/ SyncIngests(l) \/ BatchDone(l) \/ SyncSaves(l)

-----------------------------------------------------------------------------
(* A cycle of the event indexer: runCycle, under no lock. *)

\* startEventIndexer.
StartIndexer ==
  /\ ~indexing
  /\ indexing' = TRUE
  /\ UNCHANGED <<tableVars, ledgerVars, head, dlq, sync, index, faults>>

IndexStarts ==
  /\ indexing /\ index.pc = "idle"
  /\ index' = Begun(index)
  /\ UNCHANGED <<tableVars, ledgerVars, head, dlq, sync, indexing, faults>>

IndexReadsHead ==
  /\ index.pc = "started"
  /\ \E latest \in LatestLedgers : index' = Bounded(index, latest)
  /\ UNCHANGED <<tableVars, ledgerVars, head, dlq, sync, indexing, faults>>

\* A batch.  Its events change nothing: parseEvent looks for the words
\* "create", "stream", "withdraw" in the base64 XDR of topic 0, where the
\* contract's symbol "stream" reads AAAADwAAAAZzdHJlYW0AAA==, and returns null.
\* The loop ends with an empty batch or past the latest ledger.
IndexFetches ==
  LET batch == EventsFrom(index.from, IndexBatch) IN
  /\ index.pc = "fetch" /\ index.from \notin Unservable
  /\ \/ batch = {} /\ index' = [index EXCEPT !.pc = "save"]
     \/ \E last \in batch : /\ \A i \in batch : i <= last
                           /\ index' = Looped(index, Chain[last].ledger + 1)
  /\ UNCHANGED <<tableVars, ledgerVars, head, dlq, sync, indexing, faults>>

IndexSaves ==
  /\ index.pc = "save"
  /\ cursor' = index.latest
  /\ index' = Idle
  /\ UNCHANGED <<tableVars, withdrawals, failed, head, dlq, sync, indexing, faults>>

\* The cycle throws, or the process dies.
IndexDies ==
  /\ index.pc # "idle"
  /\ \/ index.pc = "fetch" /\ index.from \in Unservable /\ UNCHANGED faults
     \/ Fault
  /\ index' = Idle
  /\ UNCHANGED <<tableVars, ledgerVars, head, dlq, sync, indexing>>

IndexStep == IndexStarts \/ IndexReadsHead \/ IndexFetches \/ IndexSaves

Next ==
  \/ CloseLedger
  \/ \E l \in Loops : SyncStep(l) \/ SyncDies(l)
  \/ StartIndexer \/ IndexStep \/ IndexDies

Spec == Init /\ [][Next]_vars

\* The network goes on closing ledgers, and a loop that has a step to take takes
\* it: every timer fires, every call answers or fails.  A loop that asks for the
\* latest ledger again and again is not told of an old one for ever.
FairSpec ==
  /\ Spec
  /\ WF_vars(CloseLedger)
  /\ \A l \in Loops :
       WF_vars(SyncStep(l)) /\ SF_vars(SyncReadsHead(l, head))
  /\ WF_vars(IndexStep)

-----------------------------------------------------------------------------
\* The event has reached the table it belongs to.
Ingested(i) ==
  CASE Chain[i].kind = "created"   -> Exists(Chain[i].id)
    [] Chain[i].kind = "withdrawn" -> withdrawals[i] > 0
    [] Chain[i].kind = "canceled"  ->
         Exists(Chain[i].id) /\ streams[Chain[i].id].status = "cancelled"
    [] OTHER -> TRUE

FirstOfLedger(i) == \A j \in Events : Chain[j].ledger = Chain[i].ledger => i <= j

\* With the syncer alone, whatever crashes, retries, latest ledgers that are old
\* and partial batches do, a ledger below the persisted cursor (syncer.ts:403) has had its
\* first event handled: it is in its table, or its statement failed and was
\* logged (syncer.ts:320-326).
FirstOfLedgerHandled ==
  ~indexing => \A i \in Events :
    SyncStart < Chain[i].ledger /\ Chain[i].ledger <= cursor /\ FirstOfLedger(i) =>
      Ingested(i) \/ i \in failed

\* With the syncer alone and its lock working the persisted cursor never moves
\* back, although updateSyncCursor (queries.ts:200-212) writes what it is given
\* and a lagging node may report an older ledger.
CursorNeverBack == [][~indexing => cursor' >= cursor]_vars

\* TreasuryPromise of the tables under the ingestion, where nobody deposits.
Treasury == INSTANCE TreasuryPromise WITH
  Contracts <- StreamIds, Payers <- Employers,
  Amounts <- {Chain[i].total : i \in Events}, Depositors <- {},
  state <- ContractStates, payer <- ContractPayers,
  charged <- ChargedBy, returned <- ReturnedBy, treasury <- balance

\* A crash or a failed save replays every event of a cycle, a node may serve a
\* ledger twice and loops may follow one another (syncer.ts:286-326, 341-403):
\* all the same the treasuries are changed by the first ingestion of a stream's
\* creation alone, by its amount.
KeepsTreasury == Treasury!TreasurySpec

\* Once faults stop and every ledger can be served, the cursor reaches the head:
\* no batch, retry or restart leaves the syncer stuck (syncer.ts:352-403).
CatchesUp == <>[](cursor = MaxHead)

\* README.md:173: "failed batches go to the dead-letter queue and the cursor is
\* advanced to avoid a permanent stall" (also syncer.ts:387-388).
DeadBatchSkipped == \A ledger \in 1..MaxHead : ledger \in dlq ~> cursor >= ledger

\* README.md:169: the Event Indexer "handles backfill and structured
\* persistence": an event below the cursor it shares is in its table (or its
\* statement failed).
SyncedIsPersisted ==
  \A i \in Events :
    SyncStart < Chain[i].ledger /\ Chain[i].ledger <= cursor =>
      Ingested(i) \/ i \in failed

\* README.md:173: the syncer "upserts stream/withdrawal rows": without faults, a
\* cancellation below the syncer's cursor has reached the stream it cancels.
CancellationsApplied ==
  \A i \in Events :
    /\ faults = 0 /\ ~indexing
    /\ Chain[i].kind = "canceled"
    /\ SyncStart < Chain[i].ledger /\ Chain[i].ledger <= cursor
    => Ingested(i)
=============================================================================
