------------------------------- MODULE AuditLog -------------------------------
(* The audit logger (src/audit/auditLogger.ts) and the process that shuts it   *)
(* down (src/index.ts).  Entries wait in memory; a timer that waits for nobody *)
(* starts flushes, each with a snapshot of the queue.  BEGIN, the INSERTs,     *)
(* COMMIT and ROLLBACK are pool.query calls of their own, and each runs on     *)
(* whatever session of the pool is idle: a transaction belongs to a session,   *)
(* not to a flush.                                                             *)
EXTENDS Integers, Sequences, FiniteSets, SequencesExt

CONSTANTS
  MaxEntries,      \* bound on entries logged
  MaxQueueSize,    \* config.maxQueueSize
  AuditFlushes,    \* flushes that may be under way together
  AuditSessions,   \* sessions of the pool
  MaxCopies,       \* bound on rows of an entry that is flushed once more
  MaxAuditFaults   \* bound on failed statements and closed sessions

ASSUME AuditAssumption ==
  /\ MaxEntries \in Nat /\ MaxQueueSize \in Nat /\ MaxCopies \in Nat /\ MaxAuditFaults \in Nat
  /\ IsFiniteSet(AuditFlushes) /\ IsFiniteSet(AuditSessions)

VARIABLES
  auditQueue,      \* writeQueue; entries are numbered as they are logged
  auditLogged,     \* history: entries logged so far
  auditDropped,    \* history: entries dropped because the queue was full
  auditTorn,       \* history: entries that went with somebody's transaction
  auditFlush,      \* a flush's step, its snapshot and the next entry's index
  auditSession,    \* a session's transaction and the rows inserted in it
  auditRows,       \* audit_logs: committed rows per entry
  auditPhase,      \* how far the shutdown of the process has come
  auditFaults

auditVars == <<auditQueue, auditLogged, auditDropped, auditTorn, auditFlush, auditSession, auditRows,
               auditPhase, auditFaults>>

AuditEntries == 1..MaxEntries
NoRows == [e \in AuditEntries |-> 0]
FreshSession == [tx |-> "none", rows |-> NoRows]
IdleFlush == [pc |-> "idle"]
\* index.ts: everything runs; the services are stopped, the pool last; then the
\* audit logger; then the process exits.
AuditPhases == <<"up", "stopping", "poolEnded", "exited">>

AuditTypeOK ==
  /\ auditQueue \in Seq(AuditEntries) /\ auditLogged \in 0..MaxEntries
  /\ auditDropped \subseteq AuditEntries /\ auditTorn \subseteq AuditEntries
  /\ auditFlush \in [AuditFlushes ->
       [pc : {"begin", "insert", "commit", "rollback"}, batch : Seq(AuditEntries), at : Nat]
       \cup {IdleFlush}]
  /\ auditSession \in [AuditSessions ->
       [tx : {"none", "open", "aborted"}, rows : [AuditEntries -> Nat]]]
  /\ auditRows \in [AuditEntries -> Nat]
  /\ auditPhase \in ToSet(AuditPhases) /\ auditFaults \in 0..MaxAuditFaults

AuditInit ==
  /\ auditQueue = <<>> /\ auditLogged = 0
  /\ auditDropped = {} /\ auditTorn = {}
  /\ auditFlush = [f \in AuditFlushes |-> IdleFlush]
  /\ auditSession = [s \in AuditSessions |-> FreshSession]
  /\ auditRows = NoRows
  /\ auditPhase = "up" /\ auditFaults = 0

AuditFault == auditFaults < MaxAuditFaults /\ auditFaults' = auditFaults + 1
PoolOpen == auditPhase \in {"up", "stopping"}
logKept == <<auditLogged, auditDropped, auditTorn>>
\* A session's transaction ends without its rows.
Torn(s) == auditTorn' = auditTorn \cup {e \in AuditEntries : auditSession[s].rows[e] > 0}

\* enqueueWrite: a full queue drops the new entry.
Enqueued(e) ==
  IF Len(auditQueue) < MaxQueueSize
  THEN auditQueue' = Append(auditQueue, e) /\ UNCHANGED auditDropped
  ELSE auditDropped' = auditDropped \cup {e} /\ UNCHANGED auditQueue

\* log, for a request or for a background service.
LogEntry ==
  /\ auditLogged < MaxEntries /\ auditPhase # "exited"
  /\ auditLogged' = auditLogged + 1
  /\ Enqueued(auditLogged + 1)
  /\ UNCHANGED <<auditTorn, auditFlush, auditSession, auditRows, auditPhase, auditFaults>>

-----------------------------------------------------------------------------
(* flushQueue. *)

\* The timer, which runs until the logger is shut down; without a pool the
\* entries stay.
FlushStarts(f) ==
  /\ auditFlush[f].pc = "idle"
  /\ auditQueue # <<>> /\ PoolOpen
  /\ \A e \in ToSet(auditQueue) : auditRows[e] < MaxCopies
  /\ auditFlush' = [auditFlush EXCEPT ![f] = [pc |-> "begin", batch |-> auditQueue, at |-> 1]]
  /\ auditQueue' = <<>>
  /\ UNCHANGED <<logKept, auditSession, auditRows, auditPhase, auditFaults>>

FlushGoes(f, pc) == auditFlush' = [auditFlush EXCEPT ![f].pc = pc]

FlushBegins(f, s) ==
  /\ auditFlush[f].pc = "begin" /\ PoolOpen
  /\ auditSession[s].tx # "aborted"
  /\ auditSession' = [auditSession EXCEPT ![s].tx = "open"]
  /\ FlushGoes(f, "insert")
  /\ UNCHANGED <<auditQueue, logKept, auditRows, auditPhase, auditFaults>>

WithRow(session, e) == [tx |-> session.tx, rows |-> [session.rows EXCEPT ![e] = @ + 1]]
\* The INSERTs go through the snapshot, and COMMIT follows the last.
Advanced(flush) ==
  [pc |-> IF flush.at = Len(flush.batch) THEN "commit" ELSE "insert",
   batch |-> flush.batch, at |-> flush.at + 1]

\* writeToDatabase: in the session's transaction, or committed at once.
FlushInserts(f, s) ==
  LET e == auditFlush[f].batch[auditFlush[f].at] IN
  /\ auditFlush[f].pc = "insert" /\ PoolOpen
  /\ \/ /\ auditSession[s].tx = "open"
        /\ auditSession' = [auditSession EXCEPT ![s] = WithRow(auditSession[s], e)]
        /\ UNCHANGED auditRows
     \/ /\ auditSession[s].tx = "none"
        /\ auditRows' = [auditRows EXCEPT ![e] = @ + 1] /\ UNCHANGED auditSession
  /\ auditFlush' = [auditFlush EXCEPT ![f] = Advanced(auditFlush[f])]
  /\ UNCHANGED <<auditQueue, logKept, auditPhase, auditFaults>>

\* COMMIT ends whatever transaction the session is in, an aborted one without
\* its rows and without an error, and none at all with a warning.
FlushCommits(f, s) ==
  /\ auditFlush[f].pc = "commit" /\ PoolOpen
  /\ \/ /\ auditSession[s].tx = "open"
        /\ auditRows' = [e \in AuditEntries |-> auditRows[e] + auditSession[s].rows[e]]
     \/ auditSession[s].tx # "open" /\ UNCHANGED auditRows
  /\ auditSession' = [auditSession EXCEPT ![s] = FreshSession]
  /\ auditFlush' = [auditFlush EXCEPT ![f] = IdleFlush]
  /\ UNCHANGED <<auditQueue, logKept, auditPhase, auditFaults>>

\* A statement throws: it fails in its session, whose transaction is aborted or
\* which is lost, or the session was in an aborted transaction already, or the
\* pool has ended.
FlushFails(f) ==
  /\ auditFlush[f].pc \in {"begin", "insert", "commit"}
  /\ \/ /\ PoolOpen /\ AuditFault
        /\ \E s \in AuditSessions :
             /\ Torn(s)
             /\ \E after \in {FreshSession} \cup
                     (IF auditSession[s].tx = "none" THEN {}
                      ELSE {[tx |-> "aborted", rows |-> NoRows]}) :
                  auditSession' = [auditSession EXCEPT ![s] = after]
     \/ /\ PoolOpen /\ auditFlush[f].pc # "commit"
        /\ \E s \in AuditSessions : auditSession[s].tx = "aborted"
        /\ UNCHANGED <<auditTorn, auditSession, auditFaults>>
     \/ ~PoolOpen /\ UNCHANGED <<auditTorn, auditSession, auditFaults>>
  /\ FlushGoes(f, "rollback")
  /\ UNCHANGED <<auditQueue, auditLogged, auditDropped, auditRows, auditPhase>>

\* The snapshot goes back to the front; too long a queue loses its oldest.
Requeued(f) ==
  LET all == auditFlush[f].batch \o auditQueue
      excess == IF Len(all) > MaxQueueSize THEN Len(all) - MaxQueueSize ELSE 0 IN
  /\ auditQueue' = SubSeq(all, excess + 1, Len(all))
  /\ auditDropped' = auditDropped \cup ToSet(SubSeq(all, 1, excess))

\* Mutation of FlushRollsBack: the snapshot is not put back.
FlushRollsBackOnly(f, s) ==
  /\ auditFlush[f].pc = "rollback" /\ PoolOpen
  /\ auditSession' = [auditSession EXCEPT ![s] = FreshSession] /\ Torn(s)
  /\ auditFlush' = [auditFlush EXCEPT ![f] = IdleFlush]
  /\ UNCHANGED <<auditQueue, auditLogged, auditDropped, auditRows, auditPhase, auditFaults>>

\* ROLLBACK on some session; then the snapshot is put back.
FlushRollsBack(f, s) ==
  /\ auditFlush[f].pc = "rollback" /\ PoolOpen
  /\ auditSession' = [auditSession EXCEPT ![s] = FreshSession] /\ Torn(s)
  /\ Requeued(f)
  /\ auditFlush' = [auditFlush EXCEPT ![f] = IdleFlush]
  /\ UNCHANGED <<auditLogged, auditRows, auditPhase, auditFaults>>

\* ROLLBACK throws as well, out of the catch block: the snapshot is gone.
RollbackThrows(f) ==
  /\ auditFlush[f].pc = "rollback"
  /\ (PoolOpen /\ AuditFault) \/ (~PoolOpen /\ UNCHANGED auditFaults)
  /\ auditFlush' = [auditFlush EXCEPT ![f] = IdleFlush]
  /\ auditTorn' = auditTorn \cup ToSet(auditFlush[f].batch)
  /\ UNCHANGED <<auditQueue, auditLogged, auditDropped, auditSession, auditRows, auditPhase>>

\* idle_in_transaction_session_timeout: the server closes the session.
SessionTimesOut(s) ==
  /\ auditSession[s].tx # "none" /\ AuditFault
  /\ auditSession' = [auditSession EXCEPT ![s] = FreshSession] /\ Torn(s)
  /\ UNCHANGED <<auditQueue, auditLogged, auditDropped, auditFlush, auditRows, auditPhase>>

-----------------------------------------------------------------------------
(* shutdown in index.ts. *)

\* SIGTERM: the HTTP server and the background services are stopped in turn.
ShutdownStarts ==
  /\ auditPhase = "up" /\ auditPhase' = "stopping"
  /\ UNCHANGED <<auditQueue, logKept, auditFlush, auditSession, auditRows, auditFaults>>

\* closeDb: getPool() is null from now on and the sessions are closed, with
\* what is not committed in them.
CloseDb ==
  /\ auditPhase = "stopping" /\ auditPhase' = "poolEnded"
  /\ auditSession' = [s \in AuditSessions |-> FreshSession]
  /\ UNCHANGED <<auditQueue, logKept, auditFlush, auditRows, auditFaults>>

\* auditLogger.shutdown: the timer is cleared, the last flush finds no pool and
\* leaves its entries where they are; process.exit.
AuditShutdown ==
  /\ auditPhase = "poolEnded" /\ auditPhase' = "exited"
  /\ auditQueue' = <<>>
  /\ auditFlush' = [f \in AuditFlushes |-> IdleFlush]
  /\ UNCHANGED <<logKept, auditSession, auditRows, auditFaults>>

FlushStep(f) ==
  \/ \E s \in AuditSessions :
       FlushBegins(f, s) \/ FlushInserts(f, s) \/ FlushCommits(f, s) \/ FlushRollsBack(f, s)
  \/ FlushFails(f) \/ RollbackThrows(f)

AuditNext ==
  \/ LogEntry
  \/ \E f \in AuditFlushes : FlushStarts(f) \/ FlushStep(f)
  \/ \E s \in AuditSessions : SessionTimesOut(s)
  \/ ShutdownStarts \/ CloseDb \/ AuditShutdown

AuditSpec == AuditInit /\ [][AuditNext]_auditVars

-----------------------------------------------------------------------------
Count(seq, e) == Cardinality({i \in DOMAIN seq : seq[i] = e})
\* Rows of an entry, committed or in a transaction that is still open.
Written(e) ==
  auditRows[e] + SumFunction([s \in AuditSessions |-> auditSession[s].rows[e]])
\* A flush has an entry that it has not written yet, or will put back.
Holding(flush, e) ==
  /\ flush.pc # "idle"
  /\ \E i \in DOMAIN flush.batch :
       flush.batch[i] = e /\ (flush.pc = "rollback" \/ flush.at <= i)
InHand(e) == Cardinality({f \in AuditFlushes : Holding(auditFlush[f], e)})

Places(e) == Count(auditQueue, e) + InHand(e) + Written(e)
               + (IF e \in auditDropped THEN 1 ELSE 0)

\* Until the pool is closed, every entry that was logged is queued, in the hands
\* of a flush, written or dropped by a full queue, unless it went with a
\* transaction that somebody else's statement ended or with a ROLLBACK that
\* threw; and while no statement fails and no session times out it is in exactly
\* one of these places.  This although flushes overlap, share the sessions'
\* transactions and fail half way (auditLogger.ts:361-412).
AuditAccounted ==
  PoolOpen =>
    \A e \in 1..auditLogged :
      /\ e \notin auditTorn => Places(e) >= 1
      /\ auditFaults = 0 => Places(e) = 1
=============================================================================
