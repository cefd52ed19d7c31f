------------------------------ MODULE CrossChain ------------------------------
(* Deposits from EVM chains: the indexer that reads MessageSent events         *)
(* (src/services/cctpIndexer.ts), the poller that asks Circle for their        *)
(* attestations (src/services/attestationPoller.ts), both in every replica,    *)
(* and the route that asks by hand (src/routes/crossChain.ts).  The last block *)
(* an indexer read is in its memory.                                           *)
EXTENDS Integers, FiniteSets, FiniteSetsExt

CONSTANTS
  CctReplicas,     \* processes
  Burns,           \* burn transactions
  DoubleBurns,     \* those with two messages
  BatchDepth,      \* BLOCKS_PER_BATCH
  PollLimit,       \* rows of one poll, 50
  MaxCctFaults     \* bound on failed calls and crashes

ASSUME CrossChainAssumption ==
  /\ IsFiniteSet(Burns) /\ DoubleBurns \subseteq Burns
  /\ BatchDepth \in Nat /\ MaxCctFaults \in Nat

VARIABLES
  cctHead,         \* the newest block
  cctBlock,        \* the block of a burn, or 0
  cctReady,        \* burns that Circle has attested
  cctRow,          \* cross_chain_transfers: the status of a burn's row, or "none"
  cctColumn,       \* message_hash as migration 015 or as schema.ts makes it
  cctLast,         \* lastBlock
  cctFirst,        \* history: the first block of this process's range
  cctIndex,        \* an indexer's cycle: step, logs to go, and newest block
  cctPoll,         \* rows of a poll that are still to be asked about
  cctRefused,      \* history: burns whose log was caught and passed over
  cctFaults

cctVars == <<cctHead, cctBlock, cctReady, cctRow, cctColumn, cctLast, cctFirst,
             cctIndex, cctPoll, cctRefused, cctFaults>>
cctWorld == <<cctHead, cctBlock, cctReady, cctColumn>>

CctBlocks == 0 .. BatchDepth + Cardinality(Burns) + 1
IdleIndexer == [pc |-> "idle"]

\* A burn's log for every message it sent.
Logs == {log \in Burns \X {1, 2} : log[2] = 1 \/ log[1] \in DoubleBurns}

CctTypeOK ==
  /\ cctHead \in CctBlocks /\ cctBlock \in [Burns -> CctBlocks]
  /\ cctReady \subseteq Burns /\ cctRefused \subseteq Burns
  /\ cctRow \in [Burns -> {"none", "pending", "attested"}]
  /\ cctColumn \in {"varchar128", "text"}
  /\ cctLast \in [CctReplicas -> CctBlocks] /\ cctFirst \in [CctReplicas -> CctBlocks]
  /\ cctIndex \in [CctReplicas ->
       [pc : {"check", "insert"}, logs : SUBSET Logs, latest : CctBlocks] \cup {IdleIndexer}]
  /\ cctPoll \in [CctReplicas -> SUBSET Burns]
  /\ cctFaults \in 0..MaxCctFaults

CctInit ==
  /\ cctHead = BatchDepth + 1 /\ cctBlock = [t \in Burns |-> 0]
  /\ cctReady = {} /\ cctRefused = {}
  /\ cctRow = [t \in Burns |-> "none"]
  /\ cctColumn \in {"varchar128", "text"}
  /\ cctLast = [p \in CctReplicas |-> 0] /\ cctFirst = [p \in CctReplicas |-> 0]
  /\ cctIndex = [p \in CctReplicas |-> IdleIndexer]
  /\ cctPoll = [p \in CctReplicas |-> {}]
  /\ cctFaults = 0

CctFault == cctFaults < MaxCctFaults /\ cctFaults' = cctFaults + 1

-----------------------------------------------------------------------------
(* The chain and Circle. *)

MineBurn(t) ==
  /\ cctBlock[t] = 0
  /\ cctHead' = cctHead + 1 /\ cctBlock' = [cctBlock EXCEPT ![t] = cctHead + 1]
  /\ UNCHANGED <<cctReady, cctRow, cctColumn, cctLast, cctFirst, cctIndex, cctPoll,
                 cctRefused, cctFaults>>

CircleAttests(t) ==
  /\ cctBlock[t] # 0 /\ t \notin cctReady
  /\ cctReady' = cctReady \cup {t}
  /\ UNCHANGED <<cctHead, cctBlock, cctRow, cctColumn, cctLast, cctFirst, cctIndex,
                 cctPoll, cctRefused, cctFaults>>

-----------------------------------------------------------------------------
(* The indexer. *)

FromBlock(p) == IF cctLast[p] > 0 THEN cctLast[p] + 1 ELSE cctHead - BatchDepth

\* The logs in a range of blocks, and the next one of those to go: they come in
\* the order of their blocks.
LogsIn(from, to) == {log \in Logs : cctBlock[log[1]] \in from..to}
NextOf(log, logs) ==
  /\ log \in logs
  /\ \A other \in logs : \/ cctBlock[log[1]] < cctBlock[other[1]]
                          \/ (log[1] = other[1] /\ log[2] <= other[2])

\* getBlockNumber and getLogs.
IndexScans(p) ==
  /\ cctIndex[p].pc = "idle"
  /\ FromBlock(p) <= cctHead
  /\ LET logs == LogsIn(FromBlock(p), cctHead) IN
     IF logs = {}
     THEN cctLast' = [cctLast EXCEPT ![p] = cctHead] /\ UNCHANGED cctIndex
     ELSE /\ cctIndex' = [cctIndex EXCEPT ![p] =
               [pc |-> "check", logs |-> logs, latest |-> cctHead]]
          /\ UNCHANGED cctLast
  /\ cctFirst' = [cctFirst EXCEPT ![p] = IF cctLast[p] > 0 THEN @ ELSE FromBlock(p)]
  /\ UNCHANGED <<cctWorld, cctRow, cctPoll, cctRefused, cctFaults>>

\* What is left of a cycle after a log.
Without(cycle, log) == [cycle EXCEPT !.pc = "check", !.logs = @ \ {log}]

\* Mutation of LogDone: the cycle ends at the block that is newest by then.
LogDoneNewest(p, log) ==
  IF cctIndex[p].logs = {log}
  THEN /\ cctIndex' = [cctIndex EXCEPT ![p] = IdleIndexer]
       /\ cctLast' = [cctLast EXCEPT ![p] = cctHead]
  ELSE cctIndex' = [cctIndex EXCEPT ![p] = Without(@, log)] /\ UNCHANGED cctLast

\* On to the next log, or the end of the cycle.
LogDone(p, log) ==
  IF cctIndex[p].logs = {log}
  THEN /\ cctIndex' = [cctIndex EXCEPT ![p] = IdleIndexer]
       /\ cctLast' = [cctLast EXCEPT ![p] = cctIndex[p].latest]
  ELSE cctIndex' = [cctIndex EXCEPT ![p] = Without(@, log)] /\ UNCHANGED cctLast

\* The SELECT by transaction hash: a second message of the burn ends here.
IndexChecks(p) ==
  /\ cctIndex[p].pc = "check"
  /\ \E log \in Logs :
       /\ NextOf(log, cctIndex[p].logs)
       /\ IF cctRow[log[1]] # "none"
          THEN LogDone(p, log)
          ELSE /\ cctIndex' = [cctIndex EXCEPT ![p] = [@ EXCEPT !.pc = "insert"]]
               /\ UNCHANGED cctLast
  /\ UNCHANGED <<cctWorld, cctRow, cctFirst, cctPoll, cctRefused, cctFaults>>

\* The INSERT.  A row that another replica has inserted since is refused by the
\* unique index, and the message by a column of 128 characters: it is hundreds
\* of characters long.
IndexInserts(p) ==
  /\ cctIndex[p].pc = "insert"
  /\ \E log \in Logs : LET t == log[1] IN
       /\ NextOf(log, cctIndex[p].logs)
       /\ IF cctRow[t] = "none" /\ cctColumn = "text"
          THEN cctRow' = [cctRow EXCEPT ![t] = "pending"] /\ UNCHANGED cctRefused
          ELSE cctRefused' = cctRefused \cup {t} /\ UNCHANGED cctRow
       /\ LogDone(p, log)
  /\ UNCHANGED <<cctWorld, cctFirst, cctPoll, cctFaults>>

\* A statement fails: the log is passed over, and the cycle ends as usual.
LogFails(p) ==
  /\ cctIndex[p].pc \in {"check", "insert"} /\ CctFault
  /\ \E log \in Logs : /\ NextOf(log, cctIndex[p].logs)
                       /\ cctRefused' = cctRefused \cup {log[1]}
                       /\ LogDone(p, log)
  /\ UNCHANGED <<cctWorld, cctRow, cctFirst, cctPoll>>

-----------------------------------------------------------------------------
(* The poller. *)

PendingRows == {t \in Burns : cctRow[t] = "pending"}

\* SELECT ... LIMIT 50, in no particular order.
PollSelects(p) ==
  /\ cctPoll[p] = {} /\ PendingRows # {}
  /\ \E rows \in kSubset(Min({PollLimit, Cardinality(PendingRows)}), PendingRows) :
       cctPoll' = [cctPoll EXCEPT ![p] = rows]
  /\ UNCHANGED <<cctWorld, cctRow, cctLast, cctFirst, cctIndex, cctRefused, cctFaults>>

\* Mutation of PollAsks: an attestation that is not there yet ends the poll.
PollAsksOrStops(p, t) ==
  /\ t \in cctPoll[p]
  /\ cctPoll' = [cctPoll EXCEPT ![p] = IF t \in cctReady THEN @ \ {t} ELSE {}]
  /\ cctRow' = IF t \in cctReady THEN [cctRow EXCEPT ![t] = "attested"] ELSE cctRow
  /\ UNCHANGED <<cctWorld, cctLast, cctFirst, cctIndex, cctRefused, cctFaults>>

\* fetchAttestation, and the UPDATE by id when it is complete.
PollAsks(p, t) ==
  /\ t \in cctPoll[p]
  /\ cctPoll' = [cctPoll EXCEPT ![p] = @ \ {t}]
  /\ cctRow' = IF t \in cctReady THEN [cctRow EXCEPT ![t] = "attested"] ELSE cctRow
  /\ UNCHANGED <<cctWorld, cctLast, cctFirst, cctIndex, cctRefused, cctFaults>>

\* Circle or the database fails for this row; the others go on.
PollFails(p, t) ==
  /\ t \in cctPoll[p] /\ CctFault
  /\ cctPoll' = [cctPoll EXCEPT ![p] = @ \ {t}]
  /\ UNCHANGED <<cctWorld, cctRow, cctLast, cctFirst, cctIndex, cctRefused>>

\* POST /attestation/request: the row of the message, whatever its status.
RequestAttestation(t) ==
  /\ t \in cctReady /\ cctRow[t] # "none"
  /\ cctRow' = [cctRow EXCEPT ![t] = "attested"]
  /\ UNCHANGED <<cctWorld, cctLast, cctFirst, cctIndex, cctPoll, cctRefused, cctFaults>>

\* A process dies and starts again with no last block.
CctCrash(p) ==
  /\ CctFault
  /\ cctLast' = [cctLast EXCEPT ![p] = 0] /\ cctFirst' = [cctFirst EXCEPT ![p] = 0]
  /\ cctIndex' = [cctIndex EXCEPT ![p] = IdleIndexer]
  /\ cctPoll' = [cctPoll EXCEPT ![p] = {}]
  /\ UNCHANGED <<cctWorld, cctRow, cctRefused>>

PollStep(p) == PollSelects(p) \/ \E t \in Burns : PollAsks(p, t)
IndexStep(p) == IndexScans(p) \/ IndexChecks(p) \/ IndexInserts(p)

CctNext ==
  \/ \E t \in Burns : MineBurn(t) \/ CircleAttests(t) \/ RequestAttestation(t)
  \/ \E p \in CctReplicas :
       \/ IndexStep(p) \/ PollStep(p) \/ LogFails(p) \/ CctCrash(p)
       \/ \E t \in Burns : PollFails(p, t)

CctFairness == \A p \in CctReplicas : WF_cctVars(PollStep(p)) /\ WF_cctVars(IndexStep(p))
CctSpec == CctInit /\ [][CctNext]_cctVars /\ CctFairness

-----------------------------------------------------------------------------
\* Between the first block a process looked at and the last one it counts as
\* read, every burn has its row, or its own log failed: no burn is passed over
\* because it was mined while a cycle ran, or because of another one's error
\* (cctpIndexer.ts:101-190).
RangeIndexed ==
  \A p \in CctReplicas, t \in Burns :
    /\ cctLast[p] > 0 /\ cctBlock[t] # 0
    /\ cctBlock[t] \in cctFirst[p]..cctLast[p]
    => cctRow[t] # "none" \/ t \in cctRefused

\* A transfer that Circle has attested is attested here in the end, as long as
\* no more rows are pending than one poll takes (attestationPoller.ts:18-93).
TransferAttested ==
  \A t \in Burns : (cctRow[t] = "pending" /\ t \in cctReady) ~> cctRow[t] = "attested"
=============================================================================
