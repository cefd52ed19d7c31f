------------------------------ MODULE Idempotency ------------------------------
(* The Idempotency-Key of POST /streams (src/middleware/idempotency.ts,        *)
(* src/services/idempotencyService.ts): Redis is asked first, the handler runs *)
(* on a miss, and its answer is stored after it was sent, in Redis and then in *)
(* idempotency_keys.  Requests of one key; other keys have entries of their    *)
(* own.  The stored answer is named by the request it answered.                *)
EXTENDS Integers, FiniteSets

CONSTANTS
  IdemRequests,    \* requests that carry the key
  MaxIdemFaults,   \* bound on Redis and database errors, expiries and crashes
  NoAnswer         \* no entry, no row, no answer yet

VARIABLES
  idemReq,         \* a request's step, its answer and whether it was replayed
  idemRedis,       \* the Redis entry
  idemRow,         \* the row of idempotency_keys
  idemDone,        \* requests whose upsertStream was committed
  idemBlind,       \* history: requests under way when a request looked
  idemFaults

idemVars == <<idemReq, idemRedis, idemRow, idemDone, idemBlind, idemFaults>>

Answers == [of : IdemRequests, ok : BOOLEAN]
ASSUME IdemAssumption == NoAnswer \notin Answers /\ MaxIdemFaults \in Nat

IdemPhases == {"new", "run", "redis", "row", "end"}

IdemTypeOK ==
  /\ idemReq \in [IdemRequests -> [pc : IdemPhases, answer : Answers \cup {NoAnswer},
                                   replayed : BOOLEAN]]
  /\ idemRedis \in Answers \cup {NoAnswer} /\ idemRow \in Answers \cup {NoAnswer}
  /\ idemDone \subseteq IdemRequests
  /\ idemBlind \in [IdemRequests -> SUBSET IdemRequests]
  /\ idemFaults \in 0..MaxIdemFaults

IdemInit ==
  /\ idemReq = [r \in IdemRequests |-> [pc |-> "new", answer |-> NoAnswer, replayed |-> FALSE]]
  /\ idemRedis = NoAnswer /\ idemRow = NoAnswer
  /\ idemDone = {} /\ idemBlind = [r \in IdemRequests |-> {}]
  /\ idemFaults = 0

IdemFault == idemFaults < MaxIdemFaults /\ idemFaults' = idemFaults + 1
UnderWay == {r \in IdemRequests : idemReq[r].pc \in {"run", "redis"}}

Misses(r) ==
  /\ idemReq' = [idemReq EXCEPT ![r].pc = "run"]
  /\ idemBlind' = [idemBlind EXCEPT ![r] = UnderWay]
Replayed(r) ==
  /\ idemReq' = [idemReq EXCEPT ![r] = [pc |-> "end", answer |-> idemRedis, replayed |-> TRUE]]
  /\ UNCHANGED idemBlind

\* Mutation of IdemLookup: a stored failure is tried again.
IdemLookupRetry(r) ==
  /\ idemReq[r].pc = "new"
  /\ \/ idemRedis \in {a \in Answers : a.ok} /\ Replayed(r) /\ UNCHANGED idemFaults
     \/ idemRedis \notin {a \in Answers : a.ok} /\ Misses(r) /\ UNCHANGED idemFaults
     \/ Misses(r) /\ IdemFault
  /\ UNCHANGED <<idemRedis, idemRow, idemDone>>

\* svc.get: a hit is replayed; a miss, a Redis error or no Redis runs the handler.
IdemLookup(r) ==
  /\ idemReq[r].pc = "new"
  /\ \/ idemRedis # NoAnswer /\ Replayed(r) /\ UNCHANGED idemFaults
     \/ idemRedis = NoAnswer /\ Misses(r) /\ UNCHANGED idemFaults
     \/ Misses(r) /\ IdemFault
  /\ UNCHANGED <<idemRedis, idemRow, idemDone>>

\* The handler: refused by validation, committed, or committed and then failed
\* in getStreamById.  Every one of these answers goes through res.json, that of
\* the error handler as well, and is then stored.
IdemHandle(r) ==
  /\ idemReq[r].pc = "run"
  /\ \E ok, done \in BOOLEAN :
       /\ ok => done
       /\ idemReq' = [idemReq EXCEPT ![r] = [@ EXCEPT !.pc = "redis",
                                             !.answer = [of |-> r, ok |-> ok]]]
       /\ idemDone' = IF done THEN idemDone \cup {r} ELSE idemDone
  /\ UNCHANGED <<idemRedis, idemRow, idemBlind, idemFaults>>

\* svc.set overwrites the Redis entry; an error is logged and swallowed.
StoreInRedis(r) ==
  /\ idemReq[r].pc = "redis"
  /\ idemReq' = [idemReq EXCEPT ![r].pc = "row"]
  /\ \/ idemRedis' = idemReq[r].answer /\ UNCHANGED idemFaults
     \/ IdemFault /\ UNCHANGED idemRedis
  /\ UNCHANGED <<idemRow, idemDone, idemBlind>>

\* INSERT ... ON CONFLICT DO NOTHING; an error is logged and swallowed.
StoreRow(r) ==
  /\ idemReq[r].pc = "row"
  /\ idemReq' = [idemReq EXCEPT ![r].pc = "end"]
  /\ \/ /\ idemRow' = IF idemRow = NoAnswer THEN idemReq[r].answer ELSE idemRow
        /\ UNCHANGED idemFaults
     \/ IdemFault /\ UNCHANGED idemRow
  /\ UNCHANGED <<idemRedis, idemDone, idemBlind>>

\* The entry's 24 hours are over, or Redis lost it.
IdemExpires ==
  /\ idemRedis # NoAnswer /\ IdemFault
  /\ idemRedis' = NoAnswer
  /\ UNCHANGED <<idemReq, idemRow, idemDone, idemBlind>>

\* The replica dies with what it had under way, some of it committed.
IdemCrash ==
  /\ IdemFault
  /\ idemReq' = [r \in IdemRequests |->
       IF idemReq[r].pc = "new" THEN idemReq[r] ELSE [idemReq[r] EXCEPT !.pc = "end"]]
  /\ \E done \in SUBSET {r \in IdemRequests : idemReq[r].pc = "run"} :
       idemDone' = idemDone \cup done
  /\ UNCHANGED <<idemRedis, idemRow, idemBlind>>

IdemNext ==
  \/ \E r \in IdemRequests : IdemLookup(r) \/ IdemHandle(r) \/ StoreInRedis(r) \/ StoreRow(r)
  \/ IdemExpires \/ IdemCrash

IdemSpec == IdemInit /\ [][IdemNext]_idemVars

-----------------------------------------------------------------------------
Overlapped(r, s) == r \in idemBlind[s] \/ s \in idemBlind[r]
Ran(r) == idemReq[r].answer # NoAnswer /\ ~idemReq[r].replayed

\* While nothing fails, two requests of one key are both executed only if one
\* looked while the other was under way (idempotency.ts:48-64), and where none
\* did, every client, the Redis entry and the audit row agree on one answer,
\* that of the request that was executed.
IdemOnceUnlessOverlapped ==
  idemFaults = 0 =>
    \/ \E r, s \in IdemRequests : r # s /\ Overlapped(r, s)
    \/ /\ \A r, s \in IdemRequests : Ran(r) /\ Ran(s) => r = s
       /\ Cardinality(idemDone) <= 1
       /\ Cardinality(({idemReq[r].answer : r \in IdemRequests} \cup {idemRedis, idemRow})
                      \ {NoAnswer}) <= 1
=============================================================================
