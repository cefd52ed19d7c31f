----------------------------- MODULE SummaryCache -----------------------------
(* The cached answers of the analytics routes (src/analytics.ts), the admin    *)
(* overview (src/adminRouter.ts), the cross-chain statistics and the branding: *)
(* a Map per replica (src/utils/cache.ts), and Redis before it for the payroll *)
(* summary of an organisation (src/services/payrollSummaryCache.ts).  Writes   *)
(* commit first and drop keys afterwards (src/db/queries.ts).  A behaviour     *)
(* follows one key, of one employer and one worker; keys do not interact.      *)
EXTENDS Integers

CONSTANTS
  CacheReplicas,
  CacheReaders,     \* requests that miss the cache
  CacheWrites,      \* writes to the tables
  MaxCacheFaults,   \* bound on Redis and database errors
  NoEntry

ASSUME CacheAssumption == MaxCacheFaults \in Nat

CacheKeys == {"summary", "trends", "employer", "worker", "payrollSummary",
              "payrollMonthly", "org", "topWorkers", "creationRate",
              "withdrawals", "platform", "crossChain", "branding"}

\* The tables behind the keys: rows of payroll_streams that are not deleted, all
\* of its rows, and the rows of withdrawals, of which no stream is computed.
FromLiveStreams == {"summary", "org", "creationRate", "platform"}
FromStreams == {"trends", "employer", "worker", "payrollSummary"}
FromWithdrawals == {"worker", "payrollMonthly", "topWorkers", "withdrawals", "platform"}

\* Whose answer a write changes; the trends have no status in them.
Changes(kind) ==
  CASE kind = "upsert" -> FromLiveStreams \cup FromStreams
    [] kind = "cancel" -> FromLiveStreams \cup (FromStreams \ {"trends"})
    [] kind \in {"withdraw", "withdrawDeleted"} -> FromWithdrawals
    [] kind = "transfer" -> {"crossChain"}
    [] kind = "brand" -> {"branding"}
    [] kind = "deposit" -> {}

\* The keys a write drops as soon as its statement has returned, and those it
\* drops after it has read the stream of a withdrawal; the organisation's key
\* goes last.  Of a deleted stream getStreamById returns nothing.
DropsFirst(kind) ==
  CASE kind = "upsert" -> {"summary", "trends", "employer", "worker",
                           "payrollSummary", "payrollMonthly"}
    [] kind = "cancel" -> {"summary", "trends"}
    [] kind \in {"withdraw", "withdrawDeleted"} -> {"worker", "summary"}
    [] kind = "deposit" -> {"payrollSummary", "payrollMonthly"}
    [] kind = "brand" -> {"branding"}
    [] kind = "transfer" -> {}
DropsNext(kind) == IF kind = "withdraw" THEN {"payrollSummary", "payrollMonthly"} ELSE {}
DropsOrg(kind) == kind \in {"upsert", "withdraw"}
Kinds == {"upsert", "cancel", "withdraw", "withdrawDeleted", "transfer", "brand", "deposit"}
Drops(kind) ==
  DropsFirst(kind) \cup DropsNext(kind) \cup (IF DropsOrg(kind) THEN {"org"} ELSE {})

VARIABLES
  cacheKey,      \* the key this behaviour follows
  cacheMem,      \* globalCache of each replica
  cacheShared,   \* Redis
  cacheLink,     \* replicas whose redisClient is not null
  cacheWrite,    \* a write's step, kind and replica
  cacheFill,     \* a reader's step, replica and what its query returned
  cacheFaults

cacheVars == <<cacheKey, cacheMem, cacheShared, cacheLink, cacheWrite, cacheFill, cacheFaults>>

\* An entry is the set of writes its query has seen; crossed is history: writes
\* that dropped the key between the query and the set.
Entries == [seen : SUBSET CacheWrites, crossed : SUBSET CacheWrites]
WriteSteps == {"none", "first", "next", "shared", "local", "done"}
IdleFill == [pc |-> "idle"]
NewWrite == [pc |-> "none"]

CacheTypeOK ==
  /\ cacheKey \in CacheKeys
  /\ cacheMem \in [CacheReplicas -> Entries \cup {NoEntry}]
  /\ cacheShared \in Entries \cup {NoEntry} /\ cacheLink \subseteq CacheReplicas
  /\ cacheWrite \in [CacheWrites -> [pc : WriteSteps \ {"none"}, kind : Kinds, at : CacheReplicas]
                                    \cup {NewWrite}]
  /\ cacheFill \in [CacheReaders -> [pc : {"query", "shared", "local"}, at : CacheReplicas,
                                     entry : Entries] \cup {IdleFill}]
  /\ cacheFaults \in 0..MaxCacheFaults

CacheInit ==
  /\ cacheKey \in CacheKeys
  /\ cacheMem = [p \in CacheReplicas |-> NoEntry]
  /\ cacheShared = NoEntry /\ cacheLink = CacheReplicas
  /\ cacheWrite = [w \in CacheWrites |-> NewWrite]
  /\ cacheFill = [r \in CacheReaders |-> IdleFill]
  /\ cacheFaults = 0

Fails == cacheFaults < MaxCacheFaults /\ cacheFaults' = cacheFaults + 1
Changing == {w \in CacheWrites : cacheWrite[w].pc # "none"
                                 /\ cacheKey \in Changes(cacheWrite[w].kind)}
\* A write drops the key: fills that have queried and not yet stored are crossed.
CrossedBy(fill, w) ==
  [fill EXCEPT !.entry = [seen |-> fill.entry.seen, crossed |-> fill.entry.crossed \cup {w}]]
Crossed(w) == [r \in CacheReaders |->
  IF cacheFill[r].pc \in {"shared", "local"} THEN CrossedBy(cacheFill[r], w) ELSE cacheFill[r]]

-----------------------------------------------------------------------------
(* A request that asks for the key. *)

\* A hit is answered; a miss goes to the database.  Redis is asked first, the
\* Map next, also after a miss in Redis or an error, which gives the client up.
CacheMiss(r, p) ==
  /\ cacheFill[r].pc = "idle"
  /\ cacheMem[p] = NoEntry
  /\ \/ /\ cacheKey # "org" \/ p \notin cacheLink \/ cacheShared = NoEntry
        /\ UNCHANGED <<cacheLink, cacheFaults>>
     \/ cacheKey = "org" /\ p \in cacheLink /\ Fails /\ cacheLink' = cacheLink \ {p}
  /\ cacheFill' = [cacheFill EXCEPT ![r] =
       [pc |-> "query", at |-> p, entry |-> [seen |-> {}, crossed |-> {}]]]
  /\ UNCHANGED <<cacheKey, cacheMem, cacheShared, cacheWrite>>

\* The query runs, or throws and the request ends with an error.
CacheQuery(r) ==
  /\ cacheFill[r].pc = "query"
  /\ \/ /\ cacheFill' = [cacheFill EXCEPT ![r] =
             [pc |-> IF cacheKey = "org" THEN "shared" ELSE "local", at |-> cacheFill[r].at,
              entry |-> [seen |-> Changing, crossed |-> {}]]]
        /\ UNCHANGED cacheFaults
     \/ Fails /\ cacheFill' = [cacheFill EXCEPT ![r] = IdleFill]
  /\ UNCHANGED <<cacheKey, cacheMem, cacheShared, cacheLink, cacheWrite>>

\* setCachedPayrollSummary: Redis, if the client is there; an error gives it up.
CacheStoreShared(r) ==
  LET p == cacheFill[r].at IN
  /\ cacheFill[r].pc = "shared"
  /\ cacheFill' = [cacheFill EXCEPT ![r].pc = "local"]
  /\ \/ /\ cacheShared' = IF p \in cacheLink THEN cacheFill[r].entry ELSE cacheShared
        /\ UNCHANGED <<cacheLink, cacheFaults>>
     \/ p \in cacheLink /\ Fails /\ cacheLink' = cacheLink \ {p} /\ UNCHANGED cacheShared
  /\ UNCHANGED <<cacheKey, cacheMem, cacheWrite>>

\* globalCache.set.
CacheStoreLocal(r) ==
  /\ cacheFill[r].pc = "local"
  /\ cacheMem' = [cacheMem EXCEPT ![cacheFill[r].at] = cacheFill[r].entry]
  /\ cacheFill' = [cacheFill EXCEPT ![r] = IdleFill]
  /\ UNCHANGED <<cacheKey, cacheShared, cacheLink, cacheWrite, cacheFaults>>

\* The entry's 60 s, five minutes or hour are over.
CacheExpires ==
  /\ \/ \E p \in CacheReplicas : cacheMem[p] # NoEntry /\ cacheMem' = [cacheMem EXCEPT ![p] = NoEntry]
                                 /\ UNCHANGED cacheShared
     \/ cacheShared # NoEntry /\ cacheShared' = NoEntry /\ UNCHANGED cacheMem
  /\ UNCHANGED <<cacheKey, cacheLink, cacheWrite, cacheFill, cacheFaults>>

-----------------------------------------------------------------------------
(* A write: commit, then drop. *)

WriteCommits(w, p, kind) ==
  /\ cacheWrite[w].pc = "none"
  /\ cacheKey \in Changes(kind) \cup Drops(kind)
  /\ cacheWrite' = [cacheWrite EXCEPT ![w] = [pc |-> "first", kind |-> kind, at |-> p]]
  /\ UNCHANGED <<cacheKey, cacheMem, cacheShared, cacheLink, cacheFill, cacheFaults>>

Dropped(w, keys) ==
  IF cacheKey \in keys
  THEN /\ cacheMem' = [cacheMem EXCEPT ![cacheWrite[w].at] = NoEntry]
       /\ cacheFill' = Crossed(w)
  ELSE UNCHANGED <<cacheMem, cacheFill>>

\* Mutation of DropFirst: keys with a suffix are not matched by their prefix.
DropFirstExact(w) ==
  /\ cacheWrite[w].pc = "first"
  /\ Dropped(w, DropsFirst(cacheWrite[w].kind) \ {"payrollSummary", "payrollMonthly", "trends"})
  /\ cacheWrite' = [cacheWrite EXCEPT ![w].pc =
       IF DropsOrg(cacheWrite[w].kind) THEN "next" ELSE "done"]
  /\ UNCHANGED <<cacheKey, cacheShared, cacheLink, cacheFaults>>

DropFirst(w) ==
  /\ cacheWrite[w].pc = "first"
  /\ Dropped(w, DropsFirst(cacheWrite[w].kind))
  /\ cacheWrite' = [cacheWrite EXCEPT ![w].pc =
       IF DropsOrg(cacheWrite[w].kind) THEN "next" ELSE "done"]
  /\ UNCHANGED <<cacheKey, cacheShared, cacheLink, cacheFaults>>

\* A withdrawal reads its stream to learn the employer; when that throws, the
\* rest is not dropped.
DropNext(w) ==
  /\ cacheWrite[w].pc = "next"
  /\ \/ /\ Dropped(w, DropsNext(cacheWrite[w].kind))
        /\ cacheWrite' = [cacheWrite EXCEPT ![w].pc = "shared"] /\ UNCHANGED cacheFaults
     \/ /\ cacheWrite[w].kind = "withdraw" /\ Fails
        /\ cacheWrite' = [cacheWrite EXCEPT ![w].pc = "done"] /\ UNCHANGED <<cacheMem, cacheFill>>
  /\ UNCHANGED <<cacheKey, cacheShared, cacheLink>>

\* invalidatePayrollSummaryCache: Redis, if the client is there, then the Map.
DropShared(w) ==
  LET p == cacheWrite[w].at IN
  /\ cacheWrite[w].pc = "shared"
  /\ cacheWrite' = [cacheWrite EXCEPT ![w].pc = "local"]
  /\ IF cacheKey = "org" /\ p \in cacheLink
     THEN \/ /\ cacheShared' = NoEntry /\ cacheFill' = Crossed(w)
             /\ UNCHANGED <<cacheLink, cacheFaults>>
          \/ Fails /\ cacheLink' = cacheLink \ {p} /\ UNCHANGED <<cacheShared, cacheFill>>
     ELSE UNCHANGED <<cacheShared, cacheFill, cacheLink, cacheFaults>>
  /\ UNCHANGED <<cacheKey, cacheMem>>

DropLocal(w) ==
  /\ cacheWrite[w].pc = "local"
  /\ Dropped(w, {"org"})
  /\ cacheWrite' = [cacheWrite EXCEPT ![w].pc = "done"]
  /\ UNCHANGED <<cacheKey, cacheShared, cacheLink, cacheFaults>>

CacheNext ==
  \/ \E r \in CacheReaders :
       \/ \E p \in CacheReplicas : CacheMiss(r, p)
       \/ CacheQuery(r) \/ CacheStoreShared(r) \/ CacheStoreLocal(r)
  \/ CacheExpires
  \/ \E w \in CacheWrites :
       \/ \E p \in CacheReplicas, kind \in Kinds : WriteCommits(w, p, kind)
       \/ DropFirst(w) \/ DropNext(w) \/ DropShared(w) \/ DropLocal(w)

CacheSpec == CacheInit /\ [][CacheNext]_cacheVars

-----------------------------------------------------------------------------
\* What an entry of replica p (or of Redis) may not know: a write of a kind that
\* does not drop the key, one that is still dropping, one that crossed the fill,
\* and in a Map one of another replica.
Excused(w, entry) ==
  \/ cacheKey \notin Drops(cacheWrite[w].kind)
  \/ cacheWrite[w].pc # "done"
  \/ w \in entry.crossed
  \/ cacheFaults > 0

\* A cached answer is older than the tables only for one of four reasons: its
\* query overlapped the write, the write does not drop that key, is not done, or
\* ran in another replica, whose Map nobody tells (queries.ts:296-334,
\* 1301-1305, payrollSummaryCache.ts:52-87).
StaleOnlyByOverlap ==
  /\ \A p \in CacheReplicas : \A w \in Changing :
       cacheMem[p] # NoEntry /\ w \notin cacheMem[p].seen =>
         Excused(w, cacheMem[p]) \/ cacheWrite[w].at # p
  /\ \A w \in Changing :
       cacheShared # NoEntry /\ w \notin cacheShared.seen => Excused(w, cacheShared)
=============================================================================
