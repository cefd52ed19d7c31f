------------------------------- MODULE Archive -------------------------------
(* Retention (src/services/archiveService.ts): under an advisory lock a cycle  *)
(* copies expired rows to the archive database, a batch of each kind at a      *)
(* time, and then deletes them by id.  The kinds of a batch run at once, and   *)
(* a failure of one ends the cycle while the other goes on.  src/services/     *)
(* dataLifecycle.ts would run a cycle every night.                             *)
EXTENDS Integers, FiniteSets, FiniteSetsExt

CONSTANTS
  ArchRows,        \* rows of the tables
  Attempted,       \* those that are failed webhook events, which may be retried by hand
  ArchReplicas,    \* processes
  ArchBatch,       \* ARCHIVE_BATCH_SIZE
  MaxBatches,      \* ARCHIVE_MAX_BATCHES_PER_RUN
  MaxArchFaults,   \* bound on failed statements and crashes
  Nobody           \* nobody holds the lock

ASSUME ArchiveAssumption ==
  Attempted \subseteq ArchRows /\ MaxBatches \in Nat /\ MaxArchFaults \in Nat

VARIABLES
  archLive,        \* rows of the primary database
  archOld,         \* rows that are older than their TTL
  archVersion,     \* how often a row has been changed since
  archCopies,      \* rows of the archive, with the version that was copied
  archCycle,       \* a process's cycle: step, batches done, whether one was full
  archWork,        \* a process's work on a kind: step, and the rows it listed
  archLock,        \* holder of advisory lock 616161
  archRaced,       \* history: rows changed after they had been listed or copied
  archFaults

archVars == <<archLive, archOld, archVersion, archCopies, archCycle, archWork,
              archLock, archRaced, archFaults>>
archTables == <<archLive, archOld, archVersion, archCopies>>

ArchKinds == {"webhook", "other"}
OfKind(k) == IF k = "webhook" THEN Attempted ELSE ArchRows \ Attempted
IdleCycle == [pc |-> "idle", batch |-> 0, full |-> FALSE]
IdleWork == [pc |-> "idle", rows |-> {}]
ArchSnapshots == [id : ArchRows, version : 0..1]

ArchTypeOK ==
  /\ archLive \subseteq ArchRows /\ archOld \subseteq ArchRows /\ archRaced \subseteq ArchRows
  /\ archVersion \in [ArchRows -> 0..1] /\ archCopies \subseteq ArchSnapshots
  /\ archCycle \in [ArchReplicas ->
       [pc : {"idle", "list", "wait", "unlock"}, batch : 0..MaxBatches, full : BOOLEAN]]
  /\ archWork \in [ArchReplicas -> [ArchKinds ->
       [pc : {"idle", "copy", "delete"}, rows : SUBSET ArchSnapshots]]]
  /\ archLock \in ArchReplicas \cup {Nobody} /\ archFaults \in 0..MaxArchFaults

ArchInit ==
  /\ archLive = ArchRows /\ archOld = {}
  /\ archVersion = [e \in ArchRows |-> 0] /\ archCopies = {}
  /\ archCycle = [p \in ArchReplicas |-> IdleCycle]
  /\ archWork = [p \in ArchReplicas |-> [k \in ArchKinds |-> IdleWork]]
  /\ archLock = Nobody /\ archRaced = {} /\ archFaults = 0

ArchFault == archFaults < MaxArchFaults /\ archFaults' = archFaults + 1
Listed(e) == \E p \in ArchReplicas, k \in ArchKinds : \E r \in archWork[p][k].rows : r.id = e
Copied(e) == \E r \in archCopies : r.id = e

RowExpires(e) ==
  /\ e \notin archOld /\ archOld' = archOld \cup {e}
  /\ UNCHANGED <<archLive, archVersion, archCopies, archCycle, archWork, archLock,
                 archRaced, archFaults>>

\* retryWebhookEvent changes the row of an old event, however old it is.
EventRetried(e) ==
  /\ e \in Attempted \cap archLive /\ archVersion[e] = 0
  /\ archVersion' = [archVersion EXCEPT ![e] = 1]
  /\ archRaced' = IF Listed(e) \/ Copied(e) THEN archRaced \cup {e} ELSE archRaced
  /\ UNCHANGED <<archLive, archOld, archCopies, archCycle, archWork, archLock, archFaults>>

\* withAdvisoryLock; the holder's own session gets the lock once more.  A cycle
\* with nothing to archive changes nothing, and the last one's work is over
\* before the next night.
CycleStarts(p) ==
  /\ archCycle[p].pc = "idle" /\ archOld \cap archLive # {}
  /\ \A k \in ArchKinds : archWork[p][k].pc = "idle"
  /\ archLock \in {Nobody, p} /\ archLock' = p
  /\ archCycle' = [archCycle EXCEPT ![p].pc = "list"]
  /\ UNCHANGED <<archTables, archWork, archRaced, archFaults>>

\* The three SELECTs of a batch, as old as they are asked for and no more than
\* fit into it.
BatchListed(p) ==
  /\ archCycle[p].pc = "list"
  /\ \E rows \in [ArchKinds -> SUBSET (archOld \cap archLive)] :
       /\ \A k \in ArchKinds :
            LET expired == OfKind(k) \cap archOld \cap archLive IN
            rows[k] \in kSubset(Min({ArchBatch, Cardinality(expired)}), expired)
       /\ archWork' = [archWork EXCEPT ![p] = [k \in ArchKinds |->
            IF rows[k] = {} THEN IdleWork
            ELSE [pc |-> "copy",
                  rows |-> {[id |-> e, version |-> archVersion[e]] : e \in rows[k]}]]]
       /\ archCycle' = [archCycle EXCEPT ![p] = [@ EXCEPT !.pc = "wait",
            !.full = \E k \in ArchKinds : Cardinality(rows[k]) = ArchBatch]]
  /\ UNCHANGED <<archTables, archLock, archRaced, archFaults>>

\* One of the SELECTs fails.
ListFails(p) ==
  /\ archCycle[p].pc = "list" /\ ArchFault
  /\ archCycle' = [archCycle EXCEPT ![p].pc = "unlock"]
  /\ UNCHANGED <<archTables, archWork, archLock, archRaced>>

\* BEGIN, INSERT ... ON CONFLICT DO NOTHING for every row, COMMIT.
RowsCopied(p, k) ==
  /\ archWork[p][k].pc = "copy"
  /\ archCopies' = archCopies \cup {r \in archWork[p][k].rows : ~Copied(r.id)}
  /\ archWork' = [archWork EXCEPT ![p][k].pc = "delete"]
  /\ UNCHANGED <<archLive, archOld, archVersion, archCycle, archLock, archRaced, archFaults>>

\* Mutation of RowsDeleted: everything expired goes.
RowsDeletedByAge(p, k) ==
  /\ archWork[p][k].pc = "delete"
  /\ archLive' = archLive \ (OfKind(k) \cap archOld)
  /\ archWork' = [archWork EXCEPT ![p][k] = IdleWork]
  /\ UNCHANGED <<archOld, archVersion, archCopies, archCycle, archLock, archRaced, archFaults>>

\* DELETE ... WHERE id = ANY(...).
RowsDeleted(p, k) ==
  /\ archWork[p][k].pc = "delete"
  /\ archLive' = archLive \ {r.id : r \in archWork[p][k].rows}
  /\ archWork' = [archWork EXCEPT ![p][k] = IdleWork]
  /\ UNCHANGED <<archOld, archVersion, archCopies, archCycle, archLock, archRaced, archFaults>>

\* Both kinds are done: another batch while one was full.
BatchEnds(p) ==
  /\ archCycle[p].pc = "wait"
  /\ \A k \in ArchKinds : archWork[p][k].pc = "idle"
  /\ archCycle' = [archCycle EXCEPT ![p] =
       IF @.full /\ @.batch + 1 < MaxBatches
       THEN [@ EXCEPT !.pc = "list", !.batch = archCycle[p].batch + 1] ELSE [@ EXCEPT !.pc = "unlock"]]
  /\ UNCHANGED <<archTables, archWork, archLock, archRaced, archFaults>>

\* A statement fails: Promise.all rejects at once, nobody waits for the other
\* kind, and the cycle goes on to the unlock.
WorkFails(p, k) ==
  /\ archWork[p][k].pc # "idle" /\ ArchFault
  /\ archWork' = [archWork EXCEPT ![p][k] = IdleWork]
  /\ archCycle' = [archCycle EXCEPT ![p] = IF @.pc = "wait" THEN [@ EXCEPT !.pc = "unlock"] ELSE @]
  /\ UNCHANGED <<archTables, archLock, archRaced>>

\* pg_advisory_unlock, which does nothing on another session of the pool.
CycleUnlocks(p) ==
  /\ archCycle[p].pc = "unlock"
  /\ archLock' \in {Nobody, archLock}
  /\ archCycle' = [archCycle EXCEPT ![p] = IdleCycle]
  /\ UNCHANGED <<archTables, archWork, archRaced, archFaults>>

\* The process dies, and its sessions end.
ArchCrash(p) ==
  /\ ArchFault
  /\ archLock' = IF archLock = p THEN Nobody ELSE archLock
  /\ archCycle' = [archCycle EXCEPT ![p] = IdleCycle]
  /\ archWork' = [archWork EXCEPT ![p] = [k \in ArchKinds |-> IdleWork]]
  /\ UNCHANGED <<archTables, archRaced>>

ArchNext ==
  \/ \E e \in ArchRows : RowExpires(e) \/ EventRetried(e)
  \/ \E p \in ArchReplicas :
       \/ CycleStarts(p) \/ BatchListed(p) \/ BatchEnds(p) \/ CycleUnlocks(p) \/ ArchCrash(p)
       \/ ListFails(p)
       \/ \E k \in ArchKinds : RowsCopied(p, k) \/ RowsDeleted(p, k) \/ WorkFails(p, k)

ArchSpec == ArchInit /\ [][ArchNext]_archVars

-----------------------------------------------------------------------------
\* A row that is gone from its table is in the archive, as it was when it went,
\* unless a retry changed it after it had been listed or copied: whatever cycle
\* dies between the two databases, or overlaps another that was left behind by
\* a failure (archiveService.ts:284-490).
ArchiveKeepsRows ==
  \A e \in ArchRows \ archLive :
    \E r \in archCopies : r.id = e /\ (r.version = archVersion[e] \/ e \in archRaced)
=============================================================================
