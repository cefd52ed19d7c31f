--------------------------- MODULE LedgerSyncProofs ---------------------------
(* Proofs about the syncer, for any chain, batch size, number of loops, faults *)
(* and ledgers that cannot be served: types, that no ledger below the cursor   *)
(* is left out, and that the cursor never moves back.  The invariant follows a *)
(* cycle: what it has behind it is handled, what is left of its batch is to    *)
(* go, and the lock lets one cycle at a time do this.                          *)
EXTENDS LedgerSync, SequenceLemmas

\* The event has been handled: it is in its table, or its statement was logged.
Done(i) ==
  \/ i \in failed
  \/ Chain[i].kind = "created" /\ Exists(Chain[i].id)
  \/ Chain[i].kind = "withdrawn" /\ withdrawals[i] > 0
  \/ Chain[i].kind = "other"

\* The first event of every ledger before x is handled, or among those still to go.
Covered(x, todo) ==
  \A i \in Events :
    SyncStart < Chain[i].ledger /\ Chain[i].ledger < x /\ FirstOfLedger(i) =>
      Done(i) \/ i \in todo

\* A cycle is ahead of the persisted cursor and leaves nothing behind.
CycleFine(cycle) ==
  /\ cycle.pc = "started" => cycle.from > cursor
  /\ cycle.pc \in {"fetch", "ingest", "save"} => cycle.latest > cursor
  /\ cycle.pc \in {"started", "fetch"} => Covered(cycle.from, {})
  /\ cycle.pc = "ingest" => Covered(cycle.next, cycle.todo)
  /\ cycle.pc = "save" => Covered(cycle.latest + 1, {})

\* Nobody is ahead of the network, and one loop at a time holds the lock.
NobodyAhead ==
  /\ cursor <= head /\ index.latest <= head
  /\ \A l \in Loops : sync[l].latest <= head
LockHeldOnce ==
  \A l, m \in Loops : sync[l].pc # "idle" /\ sync[m].pc # "idle" => l = m

SyncerAlone ==
  ~indexing => /\ index.pc = "idle" /\ Covered(cursor + 1, {})
               /\ \A l \in Loops : CycleFine(sync[l])

SyncInv == TypeOK /\ NobodyAhead /\ LockHeldOnce /\ SyncerAlone

-----------------------------------------------------------------------------
(* The events of a ledger range. *)

LEMMA EventFields ==
  ASSUME NEW i \in Events
  PROVE  /\ Chain[i].ledger \in Nat /\ Chain[i].kind \in Kinds /\ Chain[i].id \in StreamIds
         /\ Chain[i].employer \in Employers /\ Chain[i].worker \in Workers
         /\ Chain[i].total \in Nat
<1>1. Chain[i] \in [ledger : Nat, kind : Kinds, id : StreamIds, employer : Employers,
                    worker : Workers, total : Nat]
  BY ChainAssumption, ElementOfSeq DEF Events
<1> QED BY <1>1

\* A batch is what comes first of the events in its range: none before its last
\* is missing, and it is empty only if there are none.
LEMMA BatchIsFirst ==
  ASSUME NEW ledger \in Nat, NEW n \in Nat \ {0}, head \in Nat
  PROVE  /\ EventsFrom(ledger, n) \subseteq Events
         /\ \A i \in EventsFrom(ledger, n) :
              /\ ledger <= Chain[i].ledger /\ Chain[i].ledger <= head
              /\ \A j \in Events : j < i /\ ledger <= Chain[j].ledger =>
                                    j \in EventsFrom(ledger, n)
         /\ EventsFrom(ledger, n) = {} =>
              \A i \in Events : Chain[i].ledger < ledger \/ head < Chain[i].ledger
<1> DEFINE there == {i \in Events : Chain[i].ledger \in ledger..head}
           Upto(i) == {j \in there : j < i}
<1>1. EventsFrom(ledger, n) = {i \in there : Cardinality(Upto(i)) < n}
  BY DEF EventsFrom
<1>2. Len(Chain) \in Nat /\ Events \subseteq Nat
  BY ChainAssumption, LenProperties DEF Events
<1>3. IsFiniteSet(Events)
  BY <1>2, FS_Interval DEF Events
<1>4. \A i : i \in there <=> /\ i \in Events /\ ledger <= Chain[i].ledger
                             /\ Chain[i].ledger <= head
  BY EventFields
<1>5. \A i : IsFiniteSet(Upto(i)) /\ Cardinality(Upto(i)) \in Nat
  <2> SUFFICES ASSUME NEW i PROVE IsFiniteSet(Upto(i)) /\ Cardinality(Upto(i)) \in Nat
    OBVIOUS
  <2>1. Upto(i) \subseteq Events
    OBVIOUS
  <2> HIDE DEF Upto
  <2> QED BY <1>3, <2>1, CountPart
<1>6. ASSUME NEW i \in EventsFrom(ledger, n), NEW j \in Events,
             j < i, ledger <= Chain[j].ledger
      PROVE  j \in EventsFrom(ledger, n)
  <2>1. i \in there /\ i \in Nat /\ j \in Nat /\ Cardinality(Upto(i)) < n
    BY <1>1, <1>2, <1>6
  <2>2. Chain[j].ledger <= Chain[i].ledger
    BY <1>1, <1>6, <2>1, ChainAssumption
  <2>3. j \in there
    BY <1>4, <1>6, <2>1, <2>2, EventFields
  <2>4. Upto(j) \subseteq Upto(i)
    <3> SUFFICES ASSUME NEW k \in there, k < j PROVE k < i
      OBVIOUS
    <3>1. k \in Nat
      BY <1>2
    <3> HIDE DEF there
    <3> QED BY <1>6, <2>1, <3>1
  <2>5. Cardinality(Upto(j)) <= Cardinality(Upto(i))
    <3> HIDE DEF Upto
    <3> QED BY <1>5, <2>4, CountPart
  <2>6. Cardinality(Upto(j)) < n
    <3> HIDE DEF Upto
    <3> QED BY <1>5, <2>1, <2>5
  <2> QED BY <1>1, <2>3, <2>6
<1>7. ASSUME EventsFrom(ledger, n) = {} PROVE there = {}
  <2> SUFFICES ASSUME there # {} PROVE FALSE
    OBVIOUS
  <2>1. there \subseteq Nat
    BY <1>2
  <2>2. PICK i \in there : \A j \in there : i <= j
    <3> HIDE DEF there
    <3> QED BY <2>1, LeastOne
  <2>3. Upto(i) = {}
    BY <2>1, <2>2
  <2>4. Cardinality(Upto(i)) = 0
    BY <2>3, FS_EmptySet
  <2> QED BY <1>1, <1>7, <2>2, <2>4
<1> HIDE DEF there, Upto
<1>8. EventsFrom(ledger, n) \subseteq there
  BY <1>1
<1>9. \A i \in EventsFrom(ledger, n) : ledger <= Chain[i].ledger /\ Chain[i].ledger <= head
  BY <1>4, <1>8
<1>10. EventsFrom(ledger, n) \subseteq Events
  BY <1>4, <1>8
<1>11. EventsFrom(ledger, n) = {} =>
         \A i \in Events : Chain[i].ledger < ledger \/ head < Chain[i].ledger
  BY <1>4, <1>7, EventFields
<1> QED BY <1>6, <1>9, <1>10, <1>11

-----------------------------------------------------------------------------
(* The tables. *)

LEMMA DecodedFields ==
  ASSUME NEW i \in Events
  PROVE  /\ Decoded(Chain[i]) \in UpsertParams /\ Decoded(Chain[i]).id = Chain[i].id
         /\ Chain[i].kind # "created" => Decoded(Chain[i]).total = 0
BY EventFields DEF Decoded, UpsertParams, Statuses

LEMMA ChargedRecord ==
  ASSUME NEW a \in AuditRows, NEW n \in Nat, NEW m \in Nat
  PROVE  [a EXCEPT !.created = n, !.charged = m] \in AuditRows
BY DEF AuditRows

\* An upsert leaves tables of their types, and removes no stream.
LEMMA UpsertKeepsTypes ==
  ASSUME TablesTypeOK, NEW p \in UpsertParams, UpsertStream(p)
  PROVE  TablesTypeOK' /\ Exists(p.id)' /\ \A s \in StreamIds : Exists(s) => Exists(s)'
<1>1. PICK q \in StreamIds : q = p.id
  BY DEF UpsertParams
<1>2. /\ p.employer \in Employers /\ p.worker \in Workers /\ p.total \in Nat \ {0}
      /\ p.withdrawn \in Nat /\ p.status \in Statuses
  BY DEF UpsertParams, UpsertStream, Rejected
<1>3. PICK row \in Rows : row = RowAfter(p)
  <2>1. CASE Exists(p.id)
    <3>1. streams[q] \in Rows
      BY <1>1, <2>1 DEF TablesTypeOK, Exists
    <3>2. RowAfter(p) = [streams[q] EXCEPT !.withdrawn = p.withdrawn, !.status = p.status]
      BY <1>1, <2>1 DEF RowAfter
    <3> QED BY <1>2, <3>1, <3>2 DEF Rows
  <2>2. CASE ~Exists(p.id)
    BY <1>2, <2>2 DEF RowAfter, Rows
  <2> QED BY <2>1, <2>2
<1>4. streams' = [streams EXCEPT ![q] = row] /\ row # NoRow
  BY <1>1, <1>3, NoRowAssumption DEF UpsertStream
<1>5. /\ streams' \in [StreamIds -> Rows \cup {NoRow}]
      /\ streams'[q] # NoRow
      /\ \A s \in StreamIds : streams[s] # NoRow => streams'[s] # NoRow
  BY <1>4 DEF TablesTypeOK
<1>6. balance' \in [Employers -> Int]
  BY <1>2 DEF UpsertStream, TablesTypeOK
<1>7. audit' \in [StreamIds -> AuditRows]
  <2>1. CASE audit' = audit
    BY <2>1 DEF TablesTypeOK
  <2>2. CASE audit' # audit
    <3>1. PICK e : e = [audit[q] EXCEPT !.created = @ + 1, !.charged = @ + p.total]
      OBVIOUS
    <3>2. audit[q] \in AuditRows
      BY DEF TablesTypeOK
    <3>3. e \in AuditRows
      <4>1. /\ audit[q].created + 1 \in Nat
            /\ audit[q].charged + p.total \in Nat
        BY <1>2, <3>2 DEF AuditRows
      <4>2. e = [audit[q] EXCEPT !.created = audit[q].created + 1,
                                 !.charged = audit[q].charged + p.total]
        BY <3>1
      <4> QED BY <3>2, <4>1, <4>2, ChargedRecord
    <3>4. audit' = [audit EXCEPT ![q].created = @ + 1, ![q].charged = @ + p.total]
      BY <1>1, <2>2 DEF UpsertStream
    <3>5. audit' = [audit EXCEPT ![q] = e]
      BY <3>1, <3>4 DEF TablesTypeOK
    <3> QED BY <3>3, <3>5 DEF TablesTypeOK
  <2> QED BY <2>1, <2>2
<1> QED BY <1>1, <1>5, <1>6, <1>7 DEF TablesTypeOK, Exists

\* What a batch does to the tables: its event is handled, and none is undone.
LEMMA IngestStep ==
  ASSUME TypeOK, NEW i \in Events, Ingest(i)
  PROVE  /\ TablesTypeOK' /\ withdrawals' \in [Events -> Nat] /\ failed' \subseteq Events
         /\ faults' \in 0..MaxFaults
         /\ Done(i)' /\ \A j \in Events : Done(j) => Done(j)'
<1>1. /\ TablesTypeOK /\ withdrawals \in [Events -> Nat] /\ failed \subseteq Events
      /\ faults \in 0..MaxFaults /\ MaxFaults \in Nat
  BY BoundsAssumption DEF TypeOK
<1>2. Fault => faults' \in 0..MaxFaults
  BY <1>1 DEF Fault
<1>3. CASE IngestStream(i)
  <2>1. /\ UpsertStream(Decoded(Chain[i])) /\ Chain[i].kind \in {"created", "canceled"}
        /\ withdrawals' = withdrawals /\ failed' = failed /\ faults' = faults
    BY <1>3 DEF IngestStream
  <2>2. Chain[i].kind = "created"
    BY <2>1, DecodedFields DEF UpsertStream, Rejected
  <2>3. /\ TablesTypeOK' /\ Exists(Chain[i].id)'
        /\ \A s \in StreamIds : Exists(s) => Exists(s)'
    BY <1>1, <2>1, DecodedFields, UpsertKeepsTypes
  <2> QED BY <1>1, <2>1, <2>2, <2>3, EventFields DEF Done
<1>4. CASE IngestWithdrawal(i)
  <2>1. /\ Chain[i].kind = "withdrawn" /\ withdrawals' = [withdrawals EXCEPT ![i] = @ + 1]
        /\ streams' = streams /\ balance' = balance /\ audit' = audit
        /\ \/ failed' = failed /\ faults' = faults
           \/ Fault /\ failed' = failed \cup {i}
    BY <1>4 DEF IngestWithdrawal, tableVars
  <2>2. TablesTypeOK'
    BY <1>1, <2>1 DEF TablesTypeOK
  <2>3. /\ withdrawals' \in [Events -> Nat] /\ withdrawals'[i] > 0
        /\ \A j \in Events : withdrawals[j] > 0 => withdrawals'[j] > 0
    BY <1>1, <2>1
  <2> QED BY <1>1, <1>2, <2>1, <2>2, <2>3 DEF Done, Exists
<1>5. CASE IngestOther(i) \/ IngestFails(i)
  <2>1. /\ withdrawals' = withdrawals /\ streams' = streams /\ balance' = balance
        /\ audit' = audit
        /\ \/ failed' = failed /\ faults' = faults /\ Chain[i].kind = "other"
           \/ failed' = failed \cup {i} /\ (faults' = faults \/ Fault)
    BY <1>5 DEF IngestOther, IngestFails, tableVars
  <2>2. TablesTypeOK'
    BY <1>1, <2>1 DEF TablesTypeOK
  <2> QED BY <1>1, <1>2, <2>1, <2>2 DEF Done, Exists
<1> QED BY <1>3, <1>4, <1>5 DEF Ingest

-----------------------------------------------------------------------------
(* The cycles. *)

\* What each step makes of a cycle.
LEMMA BegunRecord ==
  ASSUME NEW cycle \in Cycles, cursor \in Nat
  PROVE  /\ Begun(cycle) \in Cycles /\ Begun(cycle).pc = "started"
         /\ Begun(cycle).latest = cycle.latest /\ cursor < Begun(cycle).from
         /\ Begun(cycle).from <= cursor + 1 \/ Begun(cycle).from = SyncStart + 1
<1>1. PICK from \in Nat : from = (IF cursor > SyncStart THEN cursor ELSE SyncStart) + 1
  BY BoundsAssumption
<1>2. cursor < from /\ (from <= cursor + 1 \/ from = SyncStart + 1)
  BY <1>1, BoundsAssumption
<1>3. Begun(cycle) = [cycle EXCEPT !.pc = "started", !.from = from]
  BY <1>1 DEF Begun
<1> QED BY <1>2, <1>3 DEF Cycles

LEMMA IdleCycle ==
  /\ Idle \in Cycles /\ Idle.pc = "idle" /\ Idle.latest = 0
BY BoundsAssumption DEF Idle, Cycles

LEMMA BoundedRecord ==
  ASSUME NEW cycle \in Cycles, NEW latest \in Nat, cycle.from <= latest
  PROVE  /\ Bounded(cycle, latest) \in Cycles /\ Bounded(cycle, latest).pc = "fetch"
         /\ Bounded(cycle, latest).latest = latest
         /\ Bounded(cycle, latest).from = cycle.from
<1>1. cycle.from \in Nat /\ ~(cycle.from > latest)
  BY DEF Cycles
<1>2. Bounded(cycle, latest) = [cycle EXCEPT !.latest = latest, !.pc = "fetch"]
  BY <1>1 DEF Bounded
<1> QED BY <1>2 DEF Cycles

LEMMA FetchedRecord ==
  ASSUME NEW cycle \in Cycles, NEW batch \in SUBSET Events, NEW next \in Nat
  PROVE  /\ Fetched(cycle, batch, next) \in Cycles
         /\ Fetched(cycle, batch, next).pc = "ingest"
         /\ Fetched(cycle, batch, next).latest = cycle.latest
         /\ Fetched(cycle, batch, next).todo = batch
         /\ Fetched(cycle, batch, next).next = next
BY DEF Fetched, Cycles

LEMMA TriedRecord ==
  ASSUME NEW cycle \in Cycles, NEW attempt \in 1..MaxAttempts
  PROVE  /\ Tried(cycle, attempt) \in Cycles /\ Tried(cycle, attempt).pc = cycle.pc
         /\ Tried(cycle, attempt).latest = cycle.latest
         /\ Tried(cycle, attempt).from = cycle.from
         /\ Tried(cycle, attempt).next = cycle.next
         /\ Tried(cycle, attempt).todo = cycle.todo
BY DEF Tried, Cycles

LEMMA HandedRecord ==
  ASSUME NEW cycle \in Cycles, NEW i
  PROVE  /\ Handed(cycle, i) \in Cycles /\ Handed(cycle, i).pc = cycle.pc
         /\ Handed(cycle, i).latest = cycle.latest /\ Handed(cycle, i).next = cycle.next
         /\ Handed(cycle, i).todo = cycle.todo \ {i}
BY DEF Handed, Cycles

LEMMA LoopedRecord ==
  ASSUME NEW cycle \in Cycles, NEW next \in Nat
  PROVE  /\ Looped(cycle, next) \in Cycles /\ Looped(cycle, next).latest = cycle.latest
         /\ \/ /\ Looped(cycle, next).pc = "fetch" /\ Looped(cycle, next).from = next
            \/ /\ Looped(cycle, next).pc = "save" /\ cycle.latest < next
<1>1. 1 \in 1..MaxAttempts /\ cycle.latest \in Nat
  BY BoundsAssumption DEF Cycles
<1>2. PICK pc \in {"fetch", "save"} : pc = IF next <= cycle.latest THEN "fetch" ELSE "save"
  OBVIOUS
<1>3. pc = "fetch" \/ (pc = "save" /\ cycle.latest < next)
  BY <1>1, <1>2
<1>4. Looped(cycle, next) = [cycle EXCEPT !.from = next, !.attempt = 1, !.pc = pc]
  BY <1>2 DEF Looped
<1> QED BY <1>1, <1>3, <1>4 DEF Cycles

\* What is handled stays so, whatever the cycle's batch still holds.
LEMMA StaysCovered ==
  ASSUME NEW x, NEW todo, Covered(x, todo), \A j \in Events : Done(j) => Done(j)'
  PROVE  Covered(x, todo)'
BY DEF Covered, FirstOfLedger

\* A loop's step to another cycle, in front of which all is handled.
LEMMA CycleStep ==
  ASSUME SyncInv, NEW l \in Loops, NEW cycle \in Cycles,
         sync' = [sync EXCEPT ![l] = cycle], cycle.latest <= head,
         sync[l].pc # "idle" \/ (\A m \in Loops : sync[m].pc = "idle") \/ cycle.pc = "idle",
         UNCHANGED <<head, cursor, indexVars>>,
         TablesTypeOK', withdrawals' \in [Events -> Nat], failed' \subseteq Events,
         dlq' \subseteq Nat, faults' \in 0..MaxFaults,
         \A j \in Events : Done(j) => Done(j)',
         ~indexing => CycleFine(cycle)'
  PROVE  SyncInv'
<1>1. head' = head /\ cursor' = cursor /\ index' = index /\ indexing' = indexing
  BY DEF indexVars
<1>2. TypeOK'
  BY <1>1 DEF SyncInv, TypeOK
<1>3. sync'[l] = cycle /\ \A m \in Loops \ {l} : sync'[m] = sync[m]
  BY DEF SyncInv, TypeOK
<1>4. NobodyAhead'
  BY <1>1, <1>3 DEF SyncInv, NobodyAhead
<1>5. LockHeldOnce'
  BY <1>3 DEF SyncInv, LockHeldOnce
<1>6. ASSUME ~indexing, NEW m \in Loops PROVE CycleFine(sync[m])'
  <2>1. CASE m = l
    BY <1>3, <1>6, <2>1 DEF CycleFine, Covered
  <2>2. CASE m # l
    <3>1. PICK c : c = sync[m]
      OBVIOUS
    <3>2. CycleFine(c) /\ sync'[m] = c
      BY <1>3, <1>6, <2>2, <3>1 DEF SyncInv, SyncerAlone
    <3>3. CycleFine(c)'
      BY <1>1, <3>2, StaysCovered DEF CycleFine
    <3> QED BY <3>2, <3>3
  <2> QED BY <2>1, <2>2
<1>7. ~indexing => Covered(cursor + 1, {})'
  <2>1. PICK x : x = cursor + 1
    OBVIOUS
  <2>2. ~indexing => Covered(x, {})
    BY <2>1 DEF SyncInv, SyncerAlone
  <2>3. x = (cursor + 1)'
    BY <1>1, <2>1
  <2>4. ~indexing => Covered(x, {})'
    BY <2>2, StaysCovered
  <2> QED BY <2>3, <2>4
<1>8. SyncerAlone'
  BY <1>1, <1>6, <1>7 DEF SyncInv, SyncerAlone
<1> QED BY <1>2, <1>4, <1>5, <1>8 DEF SyncInv

LEMMA CycleStays ==
  ASSUME NEW cycle, CycleFine(cycle), cursor' = cursor, \A j \in Events : Done(j) => Done(j)'
  PROVE  CycleFine(cycle)'
BY StaysCovered DEF CycleFine

\* A step that writes no table.
LEMMA QuietCycleStep ==
  ASSUME SyncInv, NEW l \in Loops, NEW cycle \in Cycles,
         sync' = [sync EXCEPT ![l] = cycle], cycle.latest <= head,
         sync[l].pc # "idle" \/ (\A m \in Loops : sync[m].pc = "idle") \/ cycle.pc = "idle",
         UNCHANGED <<tableVars, ledgerVars, head, indexVars>>,
         dlq' \subseteq Nat, faults' \in 0..MaxFaults,
         ~indexing => CycleFine(cycle)
  PROVE  SyncInv'
<1>1. /\ streams' = streams /\ balance' = balance /\ audit' = audit
      /\ withdrawals' = withdrawals /\ failed' = failed /\ cursor' = cursor
      /\ head' = head /\ UNCHANGED indexVars
  BY DEF tableVars, ledgerVars
<1>2. /\ TablesTypeOK' /\ withdrawals' \in [Events -> Nat] /\ failed' \subseteq Events
  BY <1>1 DEF SyncInv, TypeOK, TablesTypeOK
<1>3. \A j \in Events : Done(j) => Done(j)'
  BY <1>1 DEF Done, Exists
<1>4. ~indexing => CycleFine(cycle)'
  BY <1>1, <1>3, CycleStays
<1> QED BY <1>1, <1>2, <1>3, <1>4, CycleStep

LEMMA LoopOf ==
  ASSUME SyncInv, NEW l \in Loops
  PROVE  /\ sync[l] \in Cycles /\ sync[l].latest <= head /\ head \in Nat
         /\ cursor \in Nat /\ cursor <= head
         /\ dlq \subseteq Nat /\ faults \in 0..MaxFaults
         /\ ~indexing => CycleFine(sync[l]) /\ Covered(cursor + 1, {})
BY BoundsAssumption DEF SyncInv, TypeOK, NobodyAhead, SyncerAlone

LEMMA SyncStartsStep ==
  ASSUME SyncInv, NEW l \in Loops, SyncStarts(l)
  PROVE  SyncInv'
<1>1. /\ \A m \in Loops : sync[m].pc = "idle"
      /\ sync' = [sync EXCEPT ![l] = Begun(sync[l])]
      /\ UNCHANGED <<tableVars, ledgerVars, head, indexVars>> /\ dlq' = dlq /\ faults' = faults
  BY DEF SyncStarts
<1>2. PICK cycle \in Cycles :
        /\ cycle = Begun(sync[l]) /\ cycle.pc = "started"
        /\ cycle.latest <= head /\ cursor < cycle.from
        /\ cycle.from <= cursor + 1 \/ cycle.from = SyncStart + 1
  BY LoopOf, BegunRecord
<1>3. cycle.from \in Nat /\ cursor \in Nat
  BY LoopOf DEF Cycles
<1>4. ASSUME ~indexing PROVE CycleFine(cycle)
  <2>1. Covered(cursor + 1, {})
    BY <1>4, LoopOf
  <2>2. Covered(cycle.from, {})
    <3> SUFFICES ASSUME NEW i \in Events, SyncStart < Chain[i].ledger,
                        Chain[i].ledger < cycle.from, FirstOfLedger(i)
                 PROVE  Done(i)
      BY DEF Covered
    <3>1. Chain[i].ledger \in Nat
      BY EventFields
    <3>2. Chain[i].ledger < cursor + 1
      BY <1>2, <1>3, <3>1, BoundsAssumption
    <3> QED BY <2>1, <3>2 DEF Covered
  <2> QED BY <1>2, <1>3, <2>2 DEF CycleFine
<1> QED BY <1>1, <1>2, <1>4, LoopOf, QuietCycleStep

LEMMA LatestKnown ==
  ASSUME head \in Nat, NEW latest \in LatestLedgers
  PROVE  latest \in Nat /\ latest <= head
BY DEF LatestLedgers

LEMMA IdleIsFine == CycleFine(Idle)
BY IdleCycle DEF CycleFine

LEMMA SyncReadsHeadStep ==
  ASSUME SyncInv, NEW l \in Loops, NEW latest \in LatestLedgers, SyncReadsHead(l, latest)
  PROVE  SyncInv'
<1>1. /\ sync[l].pc = "started" /\ sync' = [sync EXCEPT ![l] = Bounded(sync[l], latest)]
      /\ UNCHANGED <<tableVars, ledgerVars, head, indexVars>> /\ dlq' = dlq /\ faults' = faults
  BY DEF SyncReadsHead
<1>2. PICK c \in Cycles : c = sync[l]
  BY LoopOf
<1>3. c.from \in Nat /\ latest \in Nat /\ latest <= head /\ head \in Nat /\ cursor \in Nat
  BY LoopOf, LatestKnown DEF Cycles
<1>4. CASE c.from > latest
  <2>1. sync' = [sync EXCEPT ![l] = Idle]
    BY <1>1, <1>2, <1>4 DEF Bounded
  <2>2. Idle.latest <= head
    BY <1>3, IdleCycle
  <2> QED BY <1>1, <2>1, <2>2, IdleCycle, IdleIsFine, LoopOf, QuietCycleStep
<1>5. CASE c.from <= latest
  <2>1. PICK cycle \in Cycles :
          /\ cycle = Bounded(c, latest) /\ cycle.pc = "fetch"
          /\ cycle.latest = latest /\ cycle.from = c.from
    BY <1>3, <1>5, BoundedRecord
  <2>2. sync' = [sync EXCEPT ![l] = cycle]
    BY <1>1, <1>2, <2>1
  <2>3. ASSUME ~indexing PROVE CycleFine(cycle)
    <3>1. CycleFine(c) /\ c.pc = "started"
      BY <1>1, <1>2, <2>3, LoopOf
    <3>2. latest > cursor
      BY <1>3, <1>5, <3>1 DEF CycleFine
    <3> QED BY <2>1, <3>1, <3>2 DEF CycleFine
  <2> QED BY <1>1, <1>3, <2>1, <2>2, <2>3, LoopOf, QuietCycleStep
<1> QED BY <1>3, <1>4, <1>5

\* A batch leaves no first event of a ledger out up to where the cycle goes on.
LEMMA BatchFetchedStep ==
  ASSUME SyncInv, NEW l \in Loops, BatchFetched(l)
  PROVE  SyncInv'
<1>1. PICK c \in Cycles : c = sync[l]
  BY LoopOf
<1>2. c.from \in Nat /\ c.latest \in Nat /\ c.latest <= head /\ head \in Nat
  BY <1>1, LoopOf DEF Cycles
<1>3. PICK batch : batch = EventsFrom(c.from, BatchSize)
  OBVIOUS
<1>4. /\ batch \in SUBSET Events
      /\ \A i \in batch :
           /\ c.from <= Chain[i].ledger /\ Chain[i].ledger <= head
           /\ \A j \in Events : j < i /\ c.from <= Chain[j].ledger => j \in batch
      /\ batch = {} => \A i \in Events : Chain[i].ledger < c.from \/ head < Chain[i].ledger
  BY <1>2, <1>3, BatchIsFirst, BoundsAssumption
<1>5. /\ sync[l].pc = "fetch"
      /\ UNCHANGED <<tableVars, ledgerVars, head, indexVars>> /\ dlq' = dlq /\ faults' = faults
  BY DEF BatchFetched
<1>6. PICK next \in Nat :
        /\ sync' = [sync EXCEPT ![l] = Fetched(c, batch, next)]
        /\ \/ batch = {} /\ next = c.latest + 1
           \/ \E last \in batch : (\A i \in batch : i <= last) /\ next = Chain[last].ledger + 1
  <2>1. CASE batch = {} /\ sync' = [sync EXCEPT ![l] = Fetched(c, batch, c.latest + 1)]
    <3>1. c.latest + 1 \in Nat
      BY <1>2
    <3> QED BY <2>1, <3>1
  <2>2. ASSUME NEW last \in batch, \A i \in batch : i <= last,
               sync' = [sync EXCEPT ![l] = Fetched(c, batch, Chain[last].ledger + 1)]
        PROVE  \E next \in Nat :
                 /\ sync' = [sync EXCEPT ![l] = Fetched(c, batch, next)]
                 /\ next = Chain[last].ledger + 1
    <3>1. Chain[last].ledger \in Nat
      BY <1>4, EventFields
    <3>2. Chain[last].ledger + 1 \in Nat
      BY <3>1
    <3> QED BY <2>2, <3>2
  <2> QED BY <1>1, <1>3, <2>1, <2>2 DEF BatchFetched
<1>7. PICK cycle \in Cycles :
        /\ cycle = Fetched(c, batch, next) /\ cycle.pc = "ingest"
        /\ cycle.latest = c.latest /\ cycle.todo = batch /\ cycle.next = next
  BY <1>4, FetchedRecord
<1>8. ASSUME ~indexing PROVE CycleFine(cycle)
  <2>1. CycleFine(c) /\ c.pc = "fetch"
    BY <1>1, <1>5, <1>8, LoopOf
  <2>2. Covered(c.from, {}) /\ c.latest > cursor
    BY <2>1 DEF CycleFine
  <2>3. Covered(next, batch)
    <3> SUFFICES ASSUME NEW i \in Events, SyncStart < Chain[i].ledger,
                        Chain[i].ledger < next, FirstOfLedger(i), ~Done(i)
                 PROVE  i \in batch
      BY DEF Covered
    <3>1. Chain[i].ledger \in Nat /\ i \in Nat
      BY EventFields DEF Events
    <3>2. c.from <= Chain[i].ledger
      BY <1>2, <2>2, <3>1 DEF Covered
    <3>3. CASE batch = {} /\ next = c.latest + 1
      BY <1>2, <1>4, <3>1, <3>2, <3>3
    <3>4. ASSUME NEW last \in batch, next = Chain[last].ledger + 1 PROVE i \in batch
      <4>1. last \in Events /\ last \in Nat /\ Chain[last].ledger \in Nat
        BY <1>4, EventFields DEF Events
      <4>2. Chain[i].ledger <= Chain[last].ledger
        BY <3>1, <3>4, <4>1
      <4>3. i <= last
        <5>1. CASE Chain[i].ledger = Chain[last].ledger
          BY <4>1, <5>1 DEF FirstOfLedger
        <5>2. CASE Chain[i].ledger # Chain[last].ledger
          <6>1. ~(last <= i)
            BY <3>1, <4>1, <4>2, <5>2, ChainAssumption
          <6> QED BY <3>1, <4>1, <6>1
        <5> QED BY <5>1, <5>2
      <4> QED BY <1>4, <3>1, <3>2, <4>1, <4>3
    <3> QED BY <1>6, <3>3, <3>4
  <2> QED BY <1>7, <2>2, <2>3 DEF CycleFine
<1>9. sync' = [sync EXCEPT ![l] = cycle] /\ cycle.latest <= head
  BY <1>2, <1>6, <1>7
<1> QED BY <1>5, <1>7, <1>8, <1>9, LoopOf, QuietCycleStep

LEMMA BatchFailsStep ==
  ASSUME SyncInv, NEW l \in Loops, BatchFails(l)
  PROVE  SyncInv'
<1>1. PICK c \in Cycles : c = sync[l]
  BY LoopOf
<1>2. c.attempt \in 1..MaxAttempts /\ c.from \in Nat /\ c.latest <= head
  BY <1>1, LoopOf DEF Cycles
<1>3. /\ sync[l].pc = "fetch" /\ UNCHANGED <<tableVars, ledgerVars, head, indexVars>>
      /\ faults' = faults \/ Fault
  BY DEF BatchFails
<1>4. faults' \in 0..MaxFaults
  BY <1>3, LoopOf, BoundsAssumption DEF Fault
<1>5. PICK attempt \in 1..MaxAttempts : sync' = [sync EXCEPT ![l] = Tried(c, attempt)]
  <2>1. c.attempt < MaxAttempts => c.attempt + 1 \in 1..MaxAttempts
    BY <1>2, BoundsAssumption
  <2>2. 1 \in 1..MaxAttempts
    BY BoundsAssumption
  <2>3. CASE sync[l].attempt < MaxAttempts
    BY <1>1, <2>1, <2>3 DEF BatchFails
  <2>4. CASE ~(sync[l].attempt < MaxAttempts)
    BY <1>1, <2>2, <2>4 DEF BatchFails
  <2> QED BY <2>3, <2>4
<1>6. dlq' \subseteq Nat
  <2>1. dlq' = dlq \/ dlq' \in {dlq \cup {c.from}} \cup (IF faults' > faults THEN {dlq} ELSE {})
    BY <1>1 DEF BatchFails
  <2>2. dlq' = dlq \/ dlq' = dlq \cup {c.from}
    BY <2>1
  <2> QED BY <1>2, <2>2, LoopOf
<1>7. PICK cycle \in Cycles :
        /\ cycle = Tried(c, attempt) /\ cycle.pc = c.pc
        /\ cycle.latest = c.latest /\ cycle.from = c.from
  BY TriedRecord
<1>8. ASSUME ~indexing PROVE CycleFine(cycle)
  <2>1. CycleFine(c) /\ c.pc = "fetch"
    BY <1>1, <1>3, <1>8, LoopOf
  <2> QED BY <1>7, <2>1 DEF CycleFine
<1> QED BY <1>2, <1>3, <1>4, <1>5, <1>6, <1>7, <1>8, QuietCycleStep

LEMMA SyncIngestsStep ==
  ASSUME SyncInv, NEW l \in Loops, SyncIngests(l)
  PROVE  SyncInv'
<1>1. PICK c \in Cycles : c = sync[l]
  BY LoopOf
<1>2. c.todo \subseteq Events /\ c.latest <= head
  BY <1>1, LoopOf DEF Cycles
<1>3. PICK i \in c.todo : Ingest(i) /\ sync' = [sync EXCEPT ![l] = Handed(c, i)]
  BY <1>1 DEF SyncIngests
<1>4. /\ sync[l].pc = "ingest" /\ UNCHANGED <<head, cursor, indexVars>> /\ dlq' = dlq
      /\ cursor' = cursor
  BY DEF SyncIngests
<1>5. /\ TablesTypeOK' /\ withdrawals' \in [Events -> Nat] /\ failed' \subseteq Events
      /\ faults' \in 0..MaxFaults
      /\ Done(i)' /\ \A j \in Events : Done(j) => Done(j)'
  BY <1>2, <1>3, IngestStep DEF SyncInv
<1>6. PICK cycle \in Cycles :
        /\ cycle = Handed(c, i) /\ cycle.pc = c.pc /\ cycle.latest = c.latest
        /\ cycle.next = c.next /\ cycle.todo = c.todo \ {i}
  BY HandedRecord
<1>7. ASSUME ~indexing PROVE CycleFine(cycle)'
  <2>1. CycleFine(c) /\ c.pc = "ingest"
    BY <1>1, <1>4, <1>7, LoopOf
  <2>2. Covered(c.next, c.todo) /\ c.latest > cursor
    BY <2>1 DEF CycleFine
  <2>3. Covered(c.next, c.todo)'
    BY <1>5, <2>2, StaysCovered
  <2>4. Covered(c.next, c.todo \ {i})'
    BY <1>5, <2>3 DEF Covered
  <2> QED BY <1>4, <1>6, <2>1, <2>2, <2>4 DEF CycleFine
<1> QED BY <1>2, <1>3, <1>4, <1>5, <1>6, <1>7, LoopOf, CycleStep

LEMMA BatchDoneStep ==
  ASSUME SyncInv, NEW l \in Loops, BatchDone(l)
  PROVE  SyncInv'
<1>1. PICK c \in Cycles : c = sync[l]
  BY LoopOf
<1>2. c.next \in Nat /\ c.latest \in Nat /\ c.latest <= head
  BY <1>1, LoopOf DEF Cycles
<1>3. /\ sync[l].pc = "ingest" /\ c.todo = {}
      /\ sync' = [sync EXCEPT ![l] = Looped(c, c.next)]
      /\ UNCHANGED <<tableVars, ledgerVars, head, indexVars>> /\ dlq' = dlq /\ faults' = faults
  BY <1>1 DEF BatchDone
<1>4. PICK cycle \in Cycles :
        /\ cycle = Looped(c, c.next) /\ cycle.latest = c.latest
        /\ \/ cycle.pc = "fetch" /\ cycle.from = c.next
           \/ cycle.pc = "save" /\ c.latest < c.next
  BY <1>2, LoopedRecord
<1>5. ASSUME ~indexing PROVE CycleFine(cycle)
  <2>1. CycleFine(c) /\ c.pc = "ingest"
    BY <1>1, <1>3, <1>5, LoopOf
  <2>2. Covered(c.next, {}) /\ c.latest > cursor
    BY <1>3, <2>1 DEF CycleFine
  <2>3. ASSUME c.latest < c.next PROVE Covered(c.latest + 1, {})
    <3>1. \A i \in Events : Chain[i].ledger < c.latest + 1 => Chain[i].ledger < c.next
      BY <1>2, <2>3, EventFields
    <3> QED BY <2>2, <3>1 DEF Covered
  <2> QED BY <1>4, <2>2, <2>3 DEF CycleFine
<1> QED BY <1>2, <1>3, <1>4, <1>5, LoopOf, QuietCycleStep

\* The cursor is saved past what is handled, and the lock is free again.
LEMMA SyncSavesStep ==
  ASSUME SyncInv, NEW l \in Loops, SyncSaves(l)
  PROVE  SyncInv' /\ (~indexing => cursor' >= cursor)
<1>1. PICK c \in Cycles : c = sync[l]
  BY LoopOf
<1>2. c.latest \in Nat /\ c.latest <= head /\ head \in Nat /\ cursor \in Nat
  BY <1>1, LoopOf DEF Cycles
<1>3. /\ c.pc = "save" /\ cursor' = c.latest /\ sync' = [sync EXCEPT ![l] = Idle]
      /\ streams' = streams /\ balance' = balance /\ audit' = audit
      /\ withdrawals' = withdrawals /\ failed' = failed /\ head' = head /\ dlq' = dlq
      /\ index' = index /\ indexing' = indexing /\ faults' = faults
  BY <1>1 DEF SyncSaves, tableVars, indexVars
<1>4. sync'[l] = Idle /\ \A m \in Loops \ {l} : sync'[m] = sync[m]
  BY <1>3 DEF SyncInv, TypeOK
<1>5. \A m \in Loops : sync'[m].pc = "idle" /\ (sync'[m] = Idle \/ sync'[m] = sync[m])
  BY <1>1, <1>3, <1>4, IdleCycle DEF SyncInv, LockHeldOnce
<1>6. TypeOK'
  <2>1. cursor' \in 0..MaxHead /\ head' \in 0..MaxHead
    BY <1>2, <1>3, BoundsAssumption DEF SyncInv, TypeOK
  <2>2. sync' \in [Loops -> Cycles]
    BY <1>3, IdleCycle DEF SyncInv, TypeOK
  <2> QED BY <1>3, <2>1, <2>2 DEF SyncInv, TypeOK, TablesTypeOK
<1>7. NobodyAhead'
  BY <1>2, <1>3, <1>5, IdleCycle DEF SyncInv, NobodyAhead
<1>8. LockHeldOnce'
  BY <1>5 DEF LockHeldOnce
<1>9. ASSUME ~indexing PROVE Covered(c.latest + 1, {}) /\ c.latest > cursor
  BY <1>1, <1>3, <1>9, LoopOf DEF CycleFine
<1>10. \A j \in Events : Done(j) => Done(j)'
  BY <1>3 DEF Done, Exists
<1>11. ASSUME ~indexing PROVE Covered(c.latest + 1, {})'
  BY <1>9, <1>10, <1>11, StaysCovered
<1>12. ASSUME ~indexing PROVE Covered(cursor + 1, {})'
  BY <1>3, <1>11, <1>12 DEF Covered
<1>13. SyncerAlone'
  BY <1>3, <1>5, <1>12 DEF SyncInv, SyncerAlone, CycleFine
<1> QED BY <1>2, <1>3, <1>6, <1>7, <1>8, <1>9, <1>13 DEF SyncInv

LEMMA SyncDiesStep ==
  ASSUME SyncInv, NEW l \in Loops, SyncDies(l)
  PROVE  SyncInv'
<1>1. /\ sync' = [sync EXCEPT ![l] = Idle] /\ Fault /\ dlq' = dlq
      /\ UNCHANGED <<tableVars, ledgerVars, head, indexVars>>
  BY DEF SyncDies
<1>2. faults' \in 0..MaxFaults
  BY <1>1, LoopOf, BoundsAssumption DEF Fault
<1>3. Idle.latest <= head
  BY LoopOf, IdleCycle
<1> QED BY <1>1, <1>2, <1>3, LoopOf, IdleCycle, IdleIsFine, QuietCycleStep

-----------------------------------------------------------------------------
(* The network and the indexer. *)

\* What leaves the tables and the loops alone; the cursor is safe while the
\* syncer is alone.
LEMMA BesideLoopsStep ==
  ASSUME SyncInv, UNCHANGED <<tableVars, withdrawals, failed, dlq, sync>>,
         faults' \in 0..MaxFaults, head' \in head..MaxHead, cursor' \in 0..head,
         indexing' \in BOOLEAN, index' \in Cycles, index'.latest <= head,
         ~indexing' => ~indexing /\ cursor' = cursor /\ index'.pc = "idle"
  PROVE  SyncInv'
<1>1. /\ streams' = streams /\ balance' = balance /\ audit' = audit
      /\ withdrawals' = withdrawals /\ failed' = failed /\ dlq' = dlq /\ sync' = sync
  BY DEF tableVars
<1>2. head \in Nat /\ head <= MaxHead /\ MaxHead \in Nat
  BY BoundsAssumption DEF SyncInv, TypeOK
<1>3. head' \in 0..MaxHead /\ cursor' \in 0..MaxHead /\ head <= head' /\ cursor' <= head
  BY <1>2
<1>4. TypeOK'
  BY <1>1, <1>3 DEF SyncInv, TypeOK, TablesTypeOK
<1>5. NobodyAhead'
  <2>1. \A l \in Loops : sync[l].latest \in Int /\ sync[l].latest <= head
    BY LoopOf DEF Cycles
  <2>2. index'.latest \in Int
    BY DEF Cycles
  <2> QED BY <1>1, <1>2, <1>3, <2>1, <2>2 DEF NobodyAhead
<1>6. LockHeldOnce'
  BY <1>1 DEF SyncInv, LockHeldOnce
<1>7. \A j \in Events : Done(j) => Done(j)'
  BY <1>1 DEF Done, Exists
<1>8. ASSUME ~indexing', NEW l \in Loops PROVE CycleFine(sync[l])'
  <2>1. PICK c : c = sync[l]
    OBVIOUS
  <2>2. CycleFine(c) /\ cursor' = cursor
    BY <1>8, <2>1 DEF SyncInv, SyncerAlone
  <2>3. CycleFine(c)'
    BY <1>7, <2>2, CycleStays
  <2>4. sync'[l] = c
    BY <1>1, <2>1
  <2> QED BY <2>3, <2>4
<1>9. ASSUME ~indexing' PROVE Covered(cursor + 1, {})'
  BY <1>7, <1>9 DEF SyncInv, SyncerAlone, Covered, FirstOfLedger
<1>10. SyncerAlone'
  BY <1>8, <1>9 DEF SyncerAlone
<1> QED BY <1>4, <1>5, <1>6, <1>10 DEF SyncInv

LEMMA IndexerOf ==
  ASSUME SyncInv
  PROVE  /\ index \in Cycles /\ index.latest <= head /\ head \in head..MaxHead
         /\ cursor \in 0..head /\ head \in Nat /\ faults \in 0..MaxFaults
         /\ indexing \in BOOLEAN /\ (index.pc # "idle" => indexing)
BY BoundsAssumption DEF SyncInv, TypeOK, NobodyAhead, SyncerAlone

LEMMA IndexFetchesStep ==
  ASSUME SyncInv, IndexFetches
  PROVE  SyncInv'
<1>1. /\ index.pc = "fetch" /\ UNCHANGED <<tableVars, withdrawals, failed, dlq, sync>>
      /\ faults' = faults /\ head' = head /\ cursor' = cursor /\ indexing' = indexing
  BY DEF IndexFetches, ledgerVars
<1>2. index.from \in Nat
  BY IndexerOf DEF Cycles
<1>3. EventsFrom(index.from, IndexBatch) \subseteq Events
  BY <1>2, IndexerOf, BatchIsFirst, BoundsAssumption
<1>4. CASE index' = [index EXCEPT !.pc = "save"]
  <2>1. index' \in Cycles /\ index'.latest = index.latest
    BY <1>4, IndexerOf DEF Cycles
  <2> QED BY <1>1, <2>1, IndexerOf, BesideLoopsStep
<1>5. ASSUME NEW last \in Events, index' = Looped(index, Chain[last].ledger + 1)
      PROVE  SyncInv'
  <2>1. Chain[last].ledger + 1 \in Nat
    BY EventFields
  <2>2. index' \in Cycles /\ index'.latest = index.latest
    BY <1>5, <2>1, IndexerOf, LoopedRecord
  <2> QED BY <1>1, <2>2, IndexerOf, BesideLoopsStep
<1> QED BY <1>3, <1>4, <1>5 DEF IndexFetches

LEMMA IndexerSteps ==
  ASSUME SyncInv, IndexStarts \/ IndexReadsHead \/ IndexSaves \/ IndexDies \/ StartIndexer
  PROVE  SyncInv'
<1>1. cursor \in Nat /\ Idle.latest <= head
  BY IndexerOf, IdleCycle
<1>2. CASE IndexStarts
  <2>1. /\ indexing /\ index' = Begun(index)
        /\ UNCHANGED <<tableVars, withdrawals, failed, dlq, sync>>
        /\ faults' = faults /\ head' = head /\ cursor' = cursor /\ indexing' = indexing
    BY <1>2 DEF IndexStarts, ledgerVars
  <2>2. index' \in Cycles /\ index'.latest = index.latest
    BY <1>1, <2>1, IndexerOf, BegunRecord
  <2> QED BY <2>1, <2>2, IndexerOf, BesideLoopsStep
<1>3. CASE IndexReadsHead
  <2>1. /\ index.pc = "started" /\ UNCHANGED <<tableVars, withdrawals, failed, dlq, sync>>
        /\ faults' = faults /\ head' = head /\ cursor' = cursor /\ indexing' = indexing
    BY <1>3 DEF IndexReadsHead, ledgerVars
  <2>2. PICK latest \in LatestLedgers : index' = Bounded(index, latest)
    BY <1>3 DEF IndexReadsHead
  <2>3. index.from \in Nat /\ latest \in Nat /\ latest <= head
    BY IndexerOf, LatestKnown DEF Cycles
  <2>4. CASE index.from > latest
    <3>1. index' = Idle
      BY <2>2, <2>4 DEF Bounded
    <3> QED BY <1>1, <2>1, <3>1, IndexerOf, IdleCycle, BesideLoopsStep
  <2>5. CASE index.from <= latest
    <3>1. index' \in Cycles /\ index'.latest = latest
      BY <2>2, <2>3, <2>5, IndexerOf, BoundedRecord
    <3> QED BY <2>1, <2>3, <3>1, IndexerOf, BesideLoopsStep
  <2> QED BY <2>3, <2>4, <2>5
<1>4. CASE IndexSaves
  <2>1. /\ index.pc = "save" /\ UNCHANGED <<tableVars, withdrawals, failed, dlq, sync>>
        /\ faults' = faults /\ head' = head /\ cursor' = index.latest
        /\ indexing' = indexing /\ index' = Idle
    BY <1>4 DEF IndexSaves
  <2>2. cursor' \in 0..head
    BY <2>1, IndexerOf DEF Cycles
  <2> QED BY <1>1, <2>1, <2>2, IndexerOf, IdleCycle, BesideLoopsStep
<1>5. CASE IndexDies
  <2>1. /\ index' = Idle /\ UNCHANGED <<tableVars, withdrawals, failed, dlq, sync>>
        /\ faults' = faults \/ Fault
        /\ head' = head /\ cursor' = cursor /\ indexing' = indexing
    BY <1>5 DEF IndexDies, ledgerVars
  <2>2. faults' \in 0..MaxFaults
    BY <2>1, IndexerOf, BoundsAssumption DEF Fault
  <2> QED BY <1>1, <2>1, <2>2, IndexerOf, IdleCycle, BesideLoopsStep
<1>6. CASE StartIndexer
  <2>1. /\ indexing' = TRUE /\ UNCHANGED <<tableVars, withdrawals, failed, dlq, sync>>
        /\ faults' = faults /\ head' = head /\ cursor' = cursor /\ index' = index
    BY <1>6 DEF StartIndexer, ledgerVars
  <2> QED BY <2>1, IndexerOf, BesideLoopsStep
<1> QED BY <1>2, <1>3, <1>4, <1>5, <1>6

LEMMA CloseLedgerStep == SyncInv /\ CloseLedger => SyncInv'
<1> SUFFICES ASSUME SyncInv, CloseLedger PROVE SyncInv'
  OBVIOUS
<1>1. /\ head < MaxHead /\ head' = head + 1 /\ cursor' = cursor
      /\ UNCHANGED <<tableVars, withdrawals, failed, dlq, sync>>
      /\ index' = index /\ indexing' = indexing /\ faults' = faults
  BY DEF CloseLedger, ledgerVars, indexVars
<1>2. head' \in head..MaxHead
  BY <1>1, IndexerOf, BoundsAssumption
<1> QED BY <1>1, <1>2, IndexerOf, BesideLoopsStep

-----------------------------------------------------------------------------
LEMMA SyncInductive == SyncInv /\ [Next]_vars => SyncInv'
<1> SUFFICES ASSUME SyncInv, [Next]_vars PROVE SyncInv'
  OBVIOUS
<1>1. CASE UNCHANGED vars
  <2>1. /\ UNCHANGED <<tableVars, withdrawals, failed, dlq, sync>>
        /\ faults' = faults /\ head' = head /\ cursor' = cursor
        /\ index' = index /\ indexing' = indexing
    BY <1>1 DEF vars, tableVars
  <2> QED BY <2>1, IndexerOf, BesideLoopsStep
<1>2. ASSUME NEW l \in Loops, SyncStep(l) \/ SyncDies(l) PROVE SyncInv'
  BY <1>2, SyncStartsStep, SyncReadsHeadStep, BatchFetchedStep, BatchFailsStep,
     SyncIngestsStep, BatchDoneStep, SyncSavesStep, SyncDiesStep DEF SyncStep
<1>3. ASSUME IndexStep \/ IndexDies \/ StartIndexer PROVE SyncInv'
  BY <1>3, IndexerSteps, IndexFetchesStep DEF IndexStep
<1> QED BY <1>1, <1>2, <1>3, CloseLedgerStep DEF Next

LEMMA SyncInvInit == Init => SyncInv
<1> SUFFICES ASSUME Init PROVE SyncInv
  OBVIOUS
<1>1. \A l \in Loops : sync[l] = Idle
  BY DEF Init
<1>2. TablesTypeOK
  BY DEF Init, TablesInit, TablesTypeOK, AuditRows, NoAudit
<1>3. TypeOK
  <2>1. /\ head \in 0..MaxHead /\ cursor \in 0..MaxHead /\ faults \in 0..MaxFaults
        /\ dlq \subseteq Nat /\ failed \subseteq Events
    BY BoundsAssumption DEF Init
  <2>2. indexing \in BOOLEAN
    BY DEF Init
  <2>3. withdrawals \in [Events -> Nat]
    BY DEF Init
  <2>4. sync \in [Loops -> Cycles] /\ index \in Cycles
    BY IdleCycle DEF Init
  <2> QED BY <1>2, <2>1, <2>2, <2>3, <2>4 DEF TypeOK
<1>4. NobodyAhead /\ LockHeldOnce
  BY <1>1, IdleCycle DEF Init, NobodyAhead, LockHeldOnce
<1>5. Covered(cursor + 1, {})
  <2>1. \A i \in Events : SyncStart < Chain[i].ledger => ~(Chain[i].ledger < 1)
    BY BoundsAssumption, EventFields
  <2> QED BY <2>1 DEF Init, Covered
<1>6. SyncerAlone
  BY <1>1, <1>5, IdleCycle, IdleIsFine DEF Init, SyncerAlone
<1> QED BY <1>3, <1>4, <1>6 DEF SyncInv

\* Every variable of the syncer, the indexer and the tables keeps its type; a job
\* makes no more attempts than it has, and no cursor is past the head.
THEOREM TypeCorrect == Spec => []TypeOK
<1>1. SyncInv => TypeOK
  BY DEF SyncInv
<1> QED BY <1>1, SyncInvInit, SyncInductive, PTL DEF Spec

\* While the syncer runs alone, the first event of every ledger below the persisted
\* cursor is in its table or its statement was logged (syncer.ts:332-422).
THEOREM NoLedgerSkipped == Spec => []FirstOfLedgerHandled
<1>1. SyncInv => FirstOfLedgerHandled
  <2> SUFFICES ASSUME SyncInv, ~indexing, NEW i \in Events, SyncStart < Chain[i].ledger,
                      Chain[i].ledger <= cursor, FirstOfLedger(i)
               PROVE  Ingested(i) \/ i \in failed
    BY DEF FirstOfLedgerHandled
  <2>1. Chain[i].ledger \in Nat /\ cursor \in Nat
    BY EventFields, IndexerOf
  <2>2. Chain[i].ledger < cursor + 1
    BY <2>1
  <2>3. Done(i)
    BY <2>2 DEF SyncInv, SyncerAlone, Covered
  <2> QED BY <2>3 DEF Done, Ingested
<1> QED BY <1>1, SyncInvInit, SyncInductive, PTL DEF Spec

\* While it runs alone the persisted cursor never moves back (syncer.ts:403).
THEOREM CursorTheorem == Spec => CursorNeverBack
<1>1. ASSUME SyncInv, [Next]_vars, ~indexing PROVE cursor' >= cursor
  <2>1. cursor \in Nat /\ index.pc = "idle"
    BY <1>1, IndexerOf
  <2>2. CASE cursor' = cursor
    BY <2>1, <2>2
  <2>3. ASSUME NEW l \in Loops, SyncSaves(l) PROVE cursor' >= cursor
    BY <1>1, <2>3, SyncSavesStep
  <2>4. CASE UNCHANGED vars
    BY <2>2, <2>4 DEF vars
  <2>5. ASSUME NEW l \in Loops, SyncStep(l) \/ SyncDies(l), ~SyncSaves(l) PROVE cursor' = cursor
    BY <2>5 DEF SyncStep, SyncStarts, SyncReadsHead, BatchFetched, BatchFails, SyncIngests,
                BatchDone, SyncDies, ledgerVars
  <2>6. ASSUME CloseLedger \/ StartIndexer \/ IndexStep \/ IndexDies PROVE cursor' = cursor
    BY <1>1, <2>1, <2>6 DEF CloseLedger, StartIndexer, IndexStep, IndexStarts, IndexReadsHead,
                      IndexFetches, IndexSaves, IndexDies, ledgerVars
  <2>7. ASSUME NEW l \in Loops, SyncStep(l) \/ SyncDies(l) PROVE cursor' >= cursor
    BY <2>2, <2>3, <2>5, <2>7
  <2>8. CASE Next
    BY <2>2, <2>6, <2>7, <2>8 DEF Next
  <2> QED BY <1>1, <2>4, <2>8
<1>2. SyncInv /\ [Next]_vars => [~indexing => cursor' >= cursor]_vars
  BY <1>1
<1> QED BY <1>2, SyncInvInit, SyncInductive, PTL DEF Spec, CursorNeverBack
-----------------------------------------------------------------------------
(* The ingestion keeps TreasuryPromise: an event charges a new stream, or       *)
(* changes no money.                                                           *)

Money == <<ContractStates, ContractPayers, ChargedBy, ReturnedBy, balance>>

\* What the audit log says of a stream that nobody has inserted.
Uncharged == \A s \in StreamIds : ~Exists(s) => audit[s] = NoAudit

\* An upsert inserts, which is a charge of the promise, or updates two columns.
LEMMA UpsertCharges ==
  ASSUME TablesTypeOK, Uncharged, NEW i \in Events, UpsertStream(Decoded(Chain[i]))
  PROVE  Uncharged' /\ (Treasury!Charges(Chain[i].id) \/ UNCHANGED Money)
<1>1. PICK p \in UpsertParams : p = Decoded(Chain[i])
  BY DecodedFields
<1>2. PICK q \in StreamIds : q = p.id /\ q = Chain[i].id
  BY <1>1, DecodedFields, EventFields
<1>3. p.total \in Nat \ {0} /\ p.employer \in Employers /\ p.total = Chain[i].total
  <2>1. p.total \in Nat /\ p.total # 0 /\ p.employer \in Employers
    BY <1>1 DEF UpsertParams, UpsertStream, Rejected
  <2>2. Chain[i].kind = "created"
    BY <1>1, <2>1, DecodedFields
  <2> QED
    BY <1>1, <2>1, <2>2 DEF Decoded
<1>4. TablesTypeOK' /\ Exists(q)'
  BY <1>1, <1>2, UpsertKeepsTypes
<1>5. streams' = [streams EXCEPT ![q] = RowAfter(p)]
  BY <1>1, <1>2 DEF UpsertStream
<1>6. /\ streams'[q] = RowAfter(p)
      /\ \A s \in StreamIds \ {q} : streams'[s] = streams[s] /\ (Exists(s)' <=> Exists(s))
  BY <1>5 DEF TablesTypeOK, Exists
<1>7. CASE Exists(q)
  <2>1. UNCHANGED <<audit, balance>>
    BY <1>1, <1>2, <1>7 DEF UpsertStream
  <2>2. streams'[q].employer = streams[q].employer /\ streams'[q].deleted = streams[q].deleted
    <3>1. streams[q] \in Rows
      BY <1>7 DEF TablesTypeOK, Exists
    <3>2. RowAfter(p) = [streams[q] EXCEPT !.withdrawn = p.withdrawn, !.status = p.status]
      BY <1>2, <1>7 DEF RowAfter
    <3> QED
      BY <1>6, <3>1, <3>2 DEF Rows
  <2>3. ContractStates' = ContractStates /\ ContractPayers' = ContractPayers
    BY <1>4, <1>6, <1>7, <2>2 DEF ContractStates, ContractPayers
  <2>4. Uncharged'
    BY <1>4, <1>6, <2>1 DEF Uncharged
  <2> QED
    BY <2>1, <2>3, <2>4 DEF Money, ChargedBy, ReturnedBy
<1>8. CASE ~Exists(q)
  <2>1. /\ audit' = [audit EXCEPT ![q].created = @ + 1, ![q].charged = @ + p.total]
        /\ balance' = [balance EXCEPT ![p.employer] = @ - p.total]
    BY <1>1, <1>2, <1>8 DEF UpsertStream
  <2>2. audit[q] = NoAudit
    BY <1>8 DEF Uncharged
  <2>3. /\ audit'[q].charged = p.total /\ audit'[q].refunded = audit[q].refunded
        /\ \A s \in StreamIds \ {q} : audit'[s] = audit[s]
    <3>1. audit[q].charged = 0 /\ audit[q] \in AuditRows
      BY <2>2 DEF NoAudit, TablesTypeOK
    <3>2. audit'[q] = [audit[q] EXCEPT !.created = @ + 1, !.charged = @ + p.total]
      BY <2>1 DEF TablesTypeOK
    <3>3. audit'[q].charged = audit[q].charged + p.total /\ audit'[q].refunded = audit[q].refunded
      BY <3>1, <3>2 DEF AuditRows
    <3>4. \A s \in StreamIds \ {q} : audit'[s] = audit[s]
      BY <2>1 DEF TablesTypeOK
    <3> QED
      BY <1>3, <3>1, <3>3, <3>4
  <2>4. streams'[q].employer = p.employer /\ streams'[q].deleted = FALSE
    <3>1. ~Exists(p.id)
      BY <1>2, <1>8
    <3>2. RowAfter(p) = [employer |-> p.employer, worker |-> p.worker, total |-> p.total,
                         withdrawn |-> p.withdrawn, status |-> p.status, deleted |-> FALSE]
      BY <3>1 DEF RowAfter
    <3> QED
      BY <1>6, <3>2
  <2>5. ContractStates[q] = "absent" /\ ContractStates' = [ContractStates EXCEPT ![q] = "open"]
    BY <1>4, <1>6, <1>8, <2>4 DEF ContractStates
  <2>6. ContractPayers' = [ContractPayers EXCEPT ![q] = p.employer]
    BY <1>4, <1>6, <2>4 DEF ContractPayers
  <2>7. ChargedBy' = [ChargedBy EXCEPT ![q] = p.total] /\ ReturnedBy' = ReturnedBy
    BY <2>3 DEF ChargedBy, ReturnedBy
  <2>8. p.total \in {Chain[j].total : j \in Events} \ {0}
    BY <1>3
  <2>9. Treasury!Charges(q)
    BY <1>3, <2>1, <2>5, <2>6, <2>7, <2>8 DEF Treasury!Charges
  <2>10. Uncharged'
    BY <1>4, <1>6, <2>3 DEF Uncharged
  <2> QED
    BY <1>2, <2>9, <2>10
<1> QED
  BY <1>7, <1>8

LEMMA MoneyStep ==
  ASSUME SyncInv, Uncharged, [Next]_vars
  PROVE  Uncharged' /\ (Treasury!TreasuryNext \/ UNCHANGED Money)
<1>1. TablesTypeOK
  BY DEF SyncInv, TypeOK
<1>2. ASSUME UNCHANGED tableVars PROVE Uncharged' /\ UNCHANGED Money
  BY <1>2 DEF tableVars, Uncharged, Money, ContractStates, ContractPayers, ChargedBy,
              ReturnedBy, Exists
<1>3. ASSUME NEW i \in Events, Ingest(i)
      PROVE  Uncharged' /\ (Treasury!TreasuryNext \/ UNCHANGED Money)
  <2>1. CASE IngestStream(i)
    <3>1. Uncharged' /\ (Treasury!Charges(Chain[i].id) \/ UNCHANGED Money)
      BY <1>1, <2>1, UpsertCharges DEF IngestStream
    <3> QED
      BY <3>1, EventFields DEF Treasury!TreasuryNext
  <2>2. CASE ~IngestStream(i)
    <3>1. UNCHANGED tableVars
      BY <1>3, <2>2 DEF Ingest, IngestWithdrawal, IngestOther, IngestFails
    <3> QED
      BY <1>2, <3>1
  <2> QED
    BY <2>1, <2>2
<1>4. ASSUME NEW l \in Loops, SyncIngests(l)
      PROVE  Uncharged' /\ (Treasury!TreasuryNext \/ UNCHANGED Money)
  <2>1. sync[l].todo \subseteq Events
    BY DEF SyncInv, TypeOK, Cycles
  <2>2. PICK i \in sync[l].todo : Ingest(i)
    BY <1>4 DEF SyncIngests
  <2> QED
    BY <1>3, <2>1, <2>2
<1>5. ASSUME NEW l \in Loops, SyncStep(l) \/ SyncDies(l), ~SyncIngests(l)
      PROVE  UNCHANGED tableVars
  BY <1>5 DEF SyncStep, SyncStarts, SyncReadsHead, BatchFetched, BatchFails, BatchDone,
              SyncSaves, SyncDies
<1>6. ASSUME CloseLedger \/ StartIndexer \/ IndexStep \/ IndexDies \/ UNCHANGED vars
      PROVE  UNCHANGED tableVars
  BY <1>6 DEF CloseLedger, StartIndexer, IndexStep, IndexStarts, IndexReadsHead, IndexFetches,
              IndexSaves, IndexDies, vars, tableVars
<1>7. ASSUME NEW l \in Loops, SyncStep(l) \/ SyncDies(l)
      PROVE  Uncharged' /\ (Treasury!TreasuryNext \/ UNCHANGED Money)
  BY <1>2, <1>4, <1>5, <1>7
<1> QED
  BY <1>2, <1>6, <1>7 DEF Next

\* For any chain, loops, faults and reported ledgers: replaying a cycle, in whole or
\* in part, never charges a treasury again; the first ingestion of a creation
\* charges its employer its amount, and nothing else touches a treasury
\* (syncer.ts:286-326, queries.ts:236-292).
THEOREM TreasuryKept == Spec => KeepsTreasury
<1>1. Init => Treasury!TreasuryInit /\ Uncharged
  BY DEF Init, TablesInit, NoAudit, Treasury!TreasuryInit, ContractStates, ChargedBy,
         ReturnedBy, Exists, Uncharged
<1>2. SyncInv /\ Uncharged /\ [Next]_vars
        => Uncharged' /\ [Treasury!TreasuryNext]_(Treasury!treasuryVars)
  BY MoneyStep DEF Money, Treasury!treasuryVars
<1> QED
  BY <1>1, <1>2, SyncInvInit, SyncInductive, PTL
  DEF Spec, KeepsTreasury, Treasury!TreasurySpec
===============================================================================
