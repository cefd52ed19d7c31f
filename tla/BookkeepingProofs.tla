--------------------------- MODULE BookkeepingProofs ---------------------------
(* Proofs about services that keep records in step although no transaction    *)
(* does it for them, for any number of processes, rows, callers and workers:   *)
(* archived rows, sequence numbers, challenges, migrations, secrets, deposits, *)
(* reports.                                                                   *)
EXTENDS ServicesProofs, Services

-----------------------------------------------------------------------------
(* Archive *)

ArchRowCopies == [id : ArchRows, version : Int]
WorkRecords == [pc : {"idle", "copy", "delete"}, rows : SUBSET ArchRowCopies]

\* The part of the type invariant that the steps need.
ArchShape ==
  /\ archLive \subseteq ArchRows /\ archOld \subseteq ArchRows
  /\ archVersion \in [ArchRows -> Int] /\ archCopies \subseteq ArchRowCopies
  /\ archWork \in [ArchReplicas -> [ArchKinds -> WorkRecords]]

\* A row that was read is still what it was, or a retry changed it since.
StillTrue(r) == r.version = archVersion[r.id] \/ r.id \in archRaced

ReadingsTrue ==
  /\ \A r \in archCopies : StillTrue(r)
  /\ \A p \in ArchReplicas, k \in ArchKinds : \A r \in archWork[p][k].rows : StillTrue(r)

\* What is about to be deleted, and what has been, is in the archive.
DeletesCopied ==
  /\ \A p \in ArchReplicas, k \in ArchKinds :
       archWork[p][k].pc = "delete" => \A r \in archWork[p][k].rows : Copied(r.id)
  /\ \A e \in ArchRows \ archLive : Copied(e)

ArchInv == ArchShape /\ ReadingsTrue /\ DeletesCopied

\* Work that a step ends or begins: the tables stay as they are, and every piece
\* of work is as it was, idle, or a batch that was just listed.
LEMMA WorkStep ==
  ASSUME ArchInv, ArchShape', UNCHANGED <<archLive, archVersion, archCopies, archRaced>>,
         \A p \in ArchReplicas, k \in ArchKinds :
           \/ archWork'[p][k] = archWork[p][k]
           \/ /\ archWork'[p][k].pc # "delete"
              /\ \A r \in archWork'[p][k].rows : StillTrue(r)
  PROVE  ArchInv'
<1>1. ReadingsTrue'
  BY DEF ArchInv, ReadingsTrue, StillTrue
<1>2. DeletesCopied'
  BY DEF ArchInv, DeletesCopied, Copied
<1> QED BY <1>1, <1>2 DEF ArchInv

LEMMA ArchInductive == ArchInv /\ [ArchNext]_archVars => ArchInv'
<1> SUFFICES ASSUME ArchInv, [ArchNext]_archVars PROVE ArchInv'
  OBVIOUS
<1>1. /\ IdleWork \in WorkRecords /\ IdleWork.pc # "delete" /\ IdleWork.rows = {}
      /\ [k \in ArchKinds |-> IdleWork] \in [ArchKinds -> WorkRecords]
  BY DEF IdleWork, WorkRecords
<1>2. ASSUME NEW e \in ArchRows, RowExpires(e) PROVE ArchInv'
  BY <1>2 DEF RowExpires, ArchInv, ArchShape, ReadingsTrue, DeletesCopied, StillTrue, Copied
<1>3. ASSUME NEW e \in ArchRows, EventRetried(e) PROVE ArchInv'
  <2>1. /\ e \in archLive /\ archVersion' = [archVersion EXCEPT ![e] = 1]
        /\ archRaced' = IF Listed(e) \/ Copied(e) THEN archRaced \cup {e} ELSE archRaced
        /\ UNCHANGED <<archLive, archOld, archCopies, archWork>>
    BY <1>3 DEF EventRetried
  <2>2. ArchShape' /\ DeletesCopied'
    BY <2>1 DEF ArchInv, ArchShape, DeletesCopied, Copied
  <2>3. ASSUME NEW r \in ArchRowCopies, StillTrue(r), r.id = e => Listed(e) \/ Copied(e)
        PROVE  StillTrue(r)'
    BY <2>1, <2>3 DEF StillTrue, ArchInv, ArchShape, ArchRowCopies
  <2>4. \A r \in archCopies : StillTrue(r)'
    BY <2>3 DEF ArchInv, ArchShape, ReadingsTrue, Copied
  <2>5. ASSUME NEW p \in ArchReplicas, NEW k \in ArchKinds, NEW r \in archWork[p][k].rows
        PROVE  StillTrue(r)'
    <3>1. r \in ArchRowCopies
      BY DEF ArchInv, ArchShape, WorkRecords
    <3> QED BY <2>3, <3>1 DEF ArchInv, ReadingsTrue, Listed
  <2> QED BY <2>1, <2>2, <2>4, <2>5 DEF ArchInv, ReadingsTrue
<1>4. ASSUME NEW p \in ArchReplicas, BatchListed(p) PROVE ArchInv'
  <2>1. PICK rows \in [ArchKinds -> SUBSET (archOld \cap archLive)] :
          archWork' = [archWork EXCEPT ![p] = [k \in ArchKinds |->
            IF rows[k] = {} THEN IdleWork
            ELSE [pc |-> "copy",
                  rows |-> {[id |-> e, version |-> archVersion[e]] : e \in rows[k]}]]]
    BY <1>4 DEF BatchListed
  <2> DEFINE batch(k) == {[id |-> e, version |-> archVersion[e]] : e \in rows[k]}
             work(k) == IF rows[k] = {} THEN IdleWork ELSE [pc |-> "copy", rows |-> batch(k)]
  <2>2. ASSUME NEW k \in ArchKinds
        PROVE  /\ work(k) \in WorkRecords /\ work(k).pc # "delete"
               /\ \A r \in work(k).rows : StillTrue(r)
    <3>1. batch(k) \in SUBSET ArchRowCopies
      BY DEF ArchInv, ArchShape, ArchRowCopies
    <3>2. \A r \in batch(k) : StillTrue(r)
      BY DEF StillTrue
    <3> QED
      BY <1>1, <3>1, <3>2 DEF WorkRecords
  <2>3. archWork' = [archWork EXCEPT ![p] = [k \in ArchKinds |-> work(k)]]
    BY <2>1
  <2> HIDE DEF work
  <2>4. archWork' \in [ArchReplicas -> [ArchKinds -> WorkRecords]]
    BY <2>2, <2>3 DEF ArchInv, ArchShape
  <2>5. UNCHANGED <<archLive, archOld, archVersion, archCopies, archRaced>>
    BY <1>4 DEF BatchListed, archTables
  <2>6. \A q \in ArchReplicas, k \in ArchKinds :
          archWork'[q][k] = IF q = p THEN work(k) ELSE archWork[q][k]
    BY <2>3 DEF ArchInv, ArchShape
  <2>7. ArchShape'
    BY <2>4, <2>5 DEF ArchInv, ArchShape
  <2> QED BY <2>2, <2>5, <2>6, <2>7, WorkStep
<1>5. ASSUME NEW p \in ArchReplicas, NEW k \in ArchKinds, RowsCopied(p, k) PROVE ArchInv'
  <2> DEFINE new == {r \in archWork[p][k].rows : ~Copied(r.id)}
  <2>1. /\ archCopies' = archCopies \cup new
        /\ archWork' = [archWork EXCEPT ![p][k].pc = "delete"]
        /\ UNCHANGED <<archLive, archOld, archVersion, archRaced>>
    BY <1>5 DEF RowsCopied
  <2>2. new \subseteq ArchRowCopies
    BY DEF ArchInv, ArchShape, WorkRecords
  <2>3. \A q \in ArchReplicas, l \in ArchKinds :
          /\ archWork'[q][l] \in WorkRecords /\ archWork'[q][l].rows = archWork[q][l].rows
          /\ q # p \/ l # k => archWork'[q][l] = archWork[q][l]
    <3> DEFINE copied == [archWork[p][k] EXCEPT !.pc = "delete"]
    <3>1. archWork[p][k] \in WorkRecords /\ archWork' = [archWork EXCEPT ![p][k] = copied]
      BY <2>1 DEF ArchInv, ArchShape
    <3>2. copied \in WorkRecords /\ copied.rows = archWork[p][k].rows
      BY <3>1 DEF WorkRecords
    <3> HIDE DEF copied
    <3> QED BY <3>1, <3>2 DEF ArchInv, ArchShape
  <2>4. ArchShape'
    BY <2>1, <2>2, <2>3 DEF ArchInv, ArchShape, WorkRecords
  <2>5. ReadingsTrue'
    BY <2>1, <2>3 DEF ArchInv, ReadingsTrue, StillTrue
  <2>6. /\ \A e : Copied(e) => Copied(e)'
        /\ \A r \in archWork[p][k].rows : Copied(r.id)'
    BY <2>1 DEF Copied
  <2>7. DeletesCopied'
    BY <2>1, <2>3, <2>6 DEF ArchInv, DeletesCopied
  <2> QED BY <2>4, <2>5, <2>7 DEF ArchInv
<1>6. ASSUME NEW p \in ArchReplicas, NEW k \in ArchKinds, RowsDeleted(p, k) PROVE ArchInv'
  <2>1. /\ archWork[p][k].pc = "delete"
        /\ archLive' = archLive \ {r.id : r \in archWork[p][k].rows}
        /\ archWork' = [archWork EXCEPT ![p][k] = IdleWork]
        /\ UNCHANGED <<archOld, archVersion, archCopies, archRaced>>
    BY <1>6 DEF RowsDeleted
  <2>2. \A q \in ArchReplicas, l \in ArchKinds :
          archWork'[q][l] = IF q = p /\ l = k THEN IdleWork ELSE archWork[q][l]
    BY <2>1 DEF ArchInv, ArchShape
  <2>3. ArchShape' /\ ReadingsTrue'
    BY <1>1, <2>1, <2>2 DEF ArchInv, ArchShape, ReadingsTrue, StillTrue
  <2>4. DeletesCopied'
    BY <1>1, <2>1, <2>2 DEF ArchInv, DeletesCopied, Copied
  <2> QED BY <2>3, <2>4 DEF ArchInv
<1>7. ASSUME NEW p \in ArchReplicas,
             (\E k \in ArchKinds : WorkFails(p, k)) \/ ArchCrash(p)
      PROVE  ArchInv'
  <2>1. /\ UNCHANGED <<archLive, archOld, archVersion, archCopies, archRaced>>
        /\ archWork' \in [ArchReplicas -> [ArchKinds -> WorkRecords]]
        /\ \A q \in ArchReplicas, l \in ArchKinds :
             archWork'[q][l] = archWork[q][l] \/ archWork'[q][l] = IdleWork
    BY <1>1, <1>7 DEF WorkFails, ArchCrash, archTables, ArchInv, ArchShape
  <2>2. ArchShape'
    BY <2>1 DEF ArchInv, ArchShape
  <2> QED BY <1>1, <2>1, <2>2, WorkStep
<1>8. ASSUME NEW p \in ArchReplicas,
             CycleStarts(p) \/ BatchEnds(p) \/ CycleUnlocks(p) \/ ListFails(p)
      PROVE  ArchInv'
  <2>1. UNCHANGED <<archTables, archWork, archRaced>>
    BY <1>8 DEF CycleStarts, BatchEnds, CycleUnlocks, ListFails
  <2>2. ArchShape'
    BY <2>1 DEF archTables, ArchInv, ArchShape
  <2> QED BY <2>1, <2>2, WorkStep DEF archTables
<1>9. CASE UNCHANGED archVars
  BY <1>9 DEF archVars, ArchInv, ArchShape, ReadingsTrue, DeletesCopied, StillTrue, Copied
<1> QED
  BY <1>2, <1>3, <1>4, <1>5, <1>6, <1>7, <1>8, <1>9 DEF ArchNext

LEMMA ArchFirst == ArchInit => ArchInv
BY DEF ArchInit, ArchInv, ArchShape, ReadingsTrue, DeletesCopied, IdleWork, WorkRecords

LEMMA ArchKeeps == ArchInv => ArchiveKeepsRows
BY DEF ArchInv, ReadingsTrue, DeletesCopied, StillTrue, Copied, ArchiveKeepsRows

\* Whatever cycle dies between the two databases or overlaps one that a failure
\* left behind, a row that is gone from its table is in the archive, as it was
\* when it went unless a retry changed it in between (archiveService.ts:284-490).
THEOREM ArchiveTheorem == ArchSpec => []ArchiveKeepsRows
BY ArchFirst, ArchKeeps, ArchInductive, PTL DEF ArchSpec

-----------------------------------------------------------------------------
(* Sequence numbers *)

\* The part of the type invariant that the steps need.
NonceShape ==
  /\ nonceSeq \in Int \cup {NoNonce} /\ nonceStart \in Int \cup {NoNonce}
  /\ nonceFree \subseteq Int /\ nonceUsed \subseteq Int
  /\ nonceLine \in Seq(NonceCallers \cup {InitJob})
  /\ nonceLoading \in BOOLEAN
  /\ nonceHand \in [NonceCallers -> Int \cup {NoNonce}]

\* Before the account is read nothing has been handed out.
NothingBefore ==
  IF nonceSeq = NoNonce
  THEN nonceFree = {} /\ nonceUsed = {} /\ \A c \in NonceCallers : nonceHand[c] = NoNonce
  ELSE nonceStart \in Int /\ nonceStart <= nonceSeq

\* The account is only read while no sequence is known, so that nothing is reset
\* under numbers in use; who waits is there once and has no number.
LineOrderly ==
  /\ nonceLoading => nonceSeq = NoNonce /\ nonceLine # <<>>
  /\ \A i \in 1..Len(nonceLine) :
       IF nonceLine[i] = InitJob THEN i = 1 /\ nonceSeq = NoNonce
       ELSE nonceHand[nonceLine[i]] = NoNonce
  /\ \A i, j \in 1..Len(nonceLine) : nonceLine[i] = nonceLine[j] => i = j

\* A number is handed out or waits to be exactly when it is in the range, and it
\* is in one place.
NumbersPlaced ==
  /\ nonceSeq # NoNonce =>
       \A n \in Int : nonceStart < n /\ n <= nonceSeq <=>
         \/ n \in nonceUsed \/ n \in nonceFree
         \/ \E c \in NonceCallers : nonceHand[c] = n
  /\ nonceUsed \cap nonceFree = {}
  /\ \A c \in NonceCallers : nonceHand[c] \notin nonceUsed \cup nonceFree
  /\ \A c, d \in NonceCallers : nonceHand[c] = nonceHand[d] => c = d \/ nonceHand[c] = NoNonce

NonceInv == NonceShape /\ NothingBefore /\ LineOrderly /\ NumbersPlaced

\* A caller who has no number is served while the sequence is known.
LEMMA ServedPlaced ==
  ASSUME NonceShape, NothingBefore, NumbersPlaced, nonceSeq # NoNonce,
         NEW c \in NonceCallers, nonceHand[c] = NoNonce,
         Served(c, nonceSeq, nonceFree), UNCHANGED <<nonceStart, nonceUsed>>
  PROVE  /\ nonceSeq' \in Int /\ nonceFree' \subseteq Int
         /\ nonceHand' \in [NonceCallers -> Int \cup {NoNonce}]
         /\ \A d \in NonceCallers \ {c} : nonceHand'[d] = nonceHand[d]
         /\ NothingBefore' /\ NumbersPlaced'
<1> USE NonceAssumption
<1>1. CASE nonceFree # {}
  <2>1. PICK n \in nonceFree : /\ nonceHand' = [nonceHand EXCEPT ![c] = n]
                              /\ nonceFree' = nonceFree \ {n} /\ nonceSeq' = nonceSeq
    BY <1>1 DEF Served
  <2>2. /\ n \in Int /\ nonceHand'[c] = n
        /\ \A d \in NonceCallers \ {c} : nonceHand'[d] = nonceHand[d]
    BY <2>1 DEF NonceShape
  <2>3. NothingBefore'
    BY <2>1 DEF NothingBefore
  <2>4. NumbersPlaced'
    BY <2>1, <2>2 DEF NumbersPlaced, NonceShape
  <2> QED BY <2>1, <2>2, <2>3, <2>4 DEF NonceShape
<1>2. CASE nonceFree = {}
  <2>1. /\ nonceHand' = [nonceHand EXCEPT ![c] = nonceSeq + 1]
        /\ nonceFree' = {} /\ nonceSeq' = nonceSeq + 1
    BY <1>2 DEF Served
  <2>2. /\ nonceSeq \in Int /\ nonceHand'[c] = nonceSeq + 1
        /\ \A d \in NonceCallers \ {c} : nonceHand'[d] = nonceHand[d]
    BY <2>1 DEF NonceShape
  <2>3. NothingBefore'
    BY <2>1, <2>2 DEF NothingBefore
  <2>4. NumbersPlaced'
    <3>1. /\ nonceSeq + 1 \notin nonceUsed
          /\ \A d \in NonceCallers : nonceHand[d] # nonceSeq + 1
      BY <2>2 DEF NumbersPlaced
    <3>2. nonceStart \in Int /\ nonceStart <= nonceSeq
      BY DEF NothingBefore
    <3>3. \A n \in Int : nonceStart < n /\ n <= nonceSeq' <=>
             (nonceStart < n /\ n <= nonceSeq) \/ n = nonceSeq + 1
      BY <2>1, <2>2, <3>2
    <3>4. \A n \in Int : (\E d \in NonceCallers : nonceHand'[d] = n) <=>
             (\E d \in NonceCallers : nonceHand[d] = n) \/ n = nonceSeq + 1
      BY <2>2
    <3> QED BY <1>2, <2>1, <2>2, <3>1, <3>3, <3>4 DEF NumbersPlaced
  <2> QED BY <2>1, <2>2, <2>3, <2>4 DEF NonceShape
<1> QED BY <1>1, <1>2

\* The head of the line leaves it, with a number or without.
LEMMA LineShorter ==
  ASSUME NonceShape, LineOrderly, nonceLine # <<>>, nonceLine' = Tail(nonceLine),
         \A d \in NonceCallers \ {Head(nonceLine)} : nonceHand'[d] = nonceHand[d],
         ~nonceLoading'
  PROVE  nonceLine' \in Seq(NonceCallers \cup {InitJob}) /\ LineOrderly'
<1>1. /\ nonceLine' \in Seq(NonceCallers \cup {InitJob})
      /\ Len(nonceLine') = Len(nonceLine) - 1 /\ Head(nonceLine) = nonceLine[1]
      /\ \A i \in 1..Len(nonceLine') :
           nonceLine'[i] = nonceLine[i + 1] /\ i + 1 \in 1..Len(nonceLine)
  BY DEF NonceShape
<1>2. 1 \in 1..Len(nonceLine)
  BY DEF NonceShape
<1>3. ASSUME NEW i \in 1..Len(nonceLine')
      PROVE  nonceLine'[i] # InitJob /\ nonceHand'[nonceLine'[i]] = NoNonce
  <2>1. i + 1 \in 1..Len(nonceLine) /\ i + 1 # 1 /\ nonceLine'[i] = nonceLine[i + 1]
    BY <1>1
  <2>2. nonceLine[i + 1] # InitJob /\ nonceLine[i + 1] # Head(nonceLine)
    BY <1>1, <1>2, <2>1 DEF LineOrderly
  <2>3. nonceLine[i + 1] \in NonceCallers
    BY <2>1, <2>2 DEF NonceShape
  <2> QED BY <2>1, <2>2, <2>3 DEF LineOrderly
<1>4. \A i, j \in 1..Len(nonceLine') : nonceLine'[i] = nonceLine'[j] => i = j
  <2> SUFFICES ASSUME NEW i \in 1..Len(nonceLine'), NEW j \in 1..Len(nonceLine'),
                      nonceLine'[i] = nonceLine'[j]
               PROVE  i = j
    OBVIOUS
  <2>1. i + 1 = j + 1
    BY <1>1 DEF LineOrderly
  <2> QED BY <2>1
<1> QED BY <1>1, <1>3, <1>4 DEF LineOrderly

LEMMA NonceInductive == NonceInv /\ [NonceNext]_nonceVars => NonceInv'
<1> SUFFICES ASSUME NonceInv, [NonceNext]_nonceVars PROVE NonceInv'
  OBVIOUS
<1> USE NonceAssumption
<1>0. /\ NonceShape /\ NothingBefore /\ LineOrderly /\ NumbersPlaced
      /\ \A c \in NonceCallers : c # InitJob
  BY DEF NonceInv, InitJob
<1>1. ASSUME NEW c \in NonceCallers, GetNonce(c) PROVE NonceInv'
  <2>1. /\ nonceHand[c] = NoNonce /\ nonceLine' = Append(nonceLine, c)
        /\ \A i \in 1..Len(nonceLine) : nonceLine[i] # c
        /\ UNCHANGED <<nonceSeq, nonceFree, nonceLoading, nonceHand, nonceStart, nonceUsed>>
    BY <1>1 DEF GetNonce, Contains
  <2>2. /\ nonceLine' \in Seq(NonceCallers \cup {InitJob}) /\ nonceLine' # <<>>
        /\ Len(nonceLine) \in Nat /\ Len(nonceLine') = Len(nonceLine) + 1
        /\ \A i \in 1..Len(nonceLine) : nonceLine'[i] = nonceLine[i]
        /\ nonceLine'[Len(nonceLine) + 1] = c
    BY <1>0, <2>1 DEF NonceShape
  <2>3. LineOrderly'
    BY <1>0, <2>1, <2>2 DEF LineOrderly
  <2>4. NonceShape'
    BY <1>0, <2>1, <2>2 DEF NonceShape
  <2> QED BY <1>0, <2>1, <2>3, <2>4 DEF NonceInv, NothingBefore, NumbersPlaced
<1>2. CASE NonceTurn
  <2> DEFINE job == Head(nonceLine)
  <2>1. /\ nonceLine # <<>> /\ ~nonceLoading /\ 1 \in 1..Len(nonceLine)
        /\ job = nonceLine[1] /\ job \in NonceCallers \cup {InitJob}
        /\ UNCHANGED <<nonceStart, nonceUsed>>
    BY <1>0, <1>2 DEF NonceTurn, NonceShape
  <2>2. CASE job = InitJob \/ nonceSeq = NoNonce
    <3>1. nonceSeq = NoNonce
      BY <1>0, <2>1, <2>2 DEF LineOrderly
    <3>2. nonceLoading' = TRUE /\ UNCHANGED <<nonceSeq, nonceFree, nonceHand, nonceLine>>
      BY <1>2, <2>2 DEF NonceTurn
    <3> QED BY <1>0, <2>1, <3>1, <3>2
            DEF NonceInv, NonceShape, NothingBefore, LineOrderly, NumbersPlaced
  <2>3. CASE job # InitJob /\ nonceSeq # NoNonce
    <3>1. /\ Served(job, nonceSeq, nonceFree)
          /\ nonceLine' = Tail(nonceLine) /\ UNCHANGED nonceLoading
      BY <1>2, <2>3 DEF NonceTurn
    <3>2. job \in NonceCallers /\ nonceHand[job] = NoNonce
      BY <1>0, <2>1, <2>3 DEF LineOrderly
    <3>3. /\ nonceSeq' \in Int /\ nonceFree' \subseteq Int
          /\ nonceHand' \in [NonceCallers -> Int \cup {NoNonce}]
          /\ \A d \in NonceCallers \ {job} : nonceHand'[d] = nonceHand[d]
          /\ NothingBefore' /\ NumbersPlaced'
      BY <1>0, <2>1, <2>3, <3>1, <3>2, ServedPlaced
    <3>4. nonceLine' \in Seq(NonceCallers \cup {InitJob}) /\ LineOrderly'
      BY <1>0, <2>1, <3>1, <3>3, LineShorter
    <3> QED BY <1>0, <2>1, <3>1, <3>3, <3>4 DEF NonceInv, NonceShape
  <2> QED BY <2>2, <2>3
<1>3. CASE AccountFails
  <2>1. /\ nonceLoading /\ ~nonceLoading' /\ nonceLine' = Tail(nonceLine)
        /\ UNCHANGED <<nonceSeq, nonceFree, nonceHand, nonceStart, nonceUsed>>
    BY <1>3 DEF AccountFails
  <2>2. nonceLine' \in Seq(NonceCallers \cup {InitJob}) /\ LineOrderly'
    BY <1>0, <2>1, LineShorter DEF LineOrderly
  <2> QED BY <1>0, <1>3, <2>1, <2>2
          DEF AccountFails, NonceInv, NonceShape, NothingBefore, NumbersPlaced
<1>4. ASSUME NEW s \in AccountSeqs, AccountLoaded(s) PROVE NonceInv'
  <2> DEFINE job == Head(nonceLine)
  <2>1. /\ nonceLoading /\ nonceLoading' = FALSE /\ nonceStart' = s /\ s \in Int
        /\ nonceLine' = Tail(nonceLine) /\ nonceUsed' = nonceUsed
    BY <1>4 DEF AccountLoaded
  <2>2. /\ nonceSeq = NoNonce /\ nonceLine # <<>> /\ nonceUsed = {}
        /\ \A c \in NonceCallers : nonceHand[c] = NoNonce
    BY <1>0, <2>1 DEF LineOrderly, NothingBefore
  <2>3. job \in NonceCallers \cup {InitJob}
    BY <1>0, <2>2 DEF NonceShape
  <2>4. CASE job = InitJob
    <3>1. nonceSeq' = s /\ nonceFree' = {} /\ UNCHANGED nonceHand
      BY <1>4, <2>4 DEF AccountLoaded
    <3>2. nonceLine' \in Seq(NonceCallers \cup {InitJob}) /\ LineOrderly'
      BY <1>0, <2>1, <2>2, <3>1, LineShorter
    <3>3. NonceShape'
      BY <1>0, <2>1, <3>1, <3>2 DEF NonceShape
    <3>4. NothingBefore'
      BY <2>1, <3>1 DEF NothingBefore
    <3>5. NumbersPlaced'
      BY <1>0, <2>1, <2>2, <3>1 DEF NumbersPlaced
    <3> QED BY <3>2, <3>3, <3>4, <3>5 DEF NonceInv
  <2>5. CASE job # InitJob
    <3>1. /\ nonceSeq' = s + 1 /\ nonceFree' = {} /\ job \in NonceCallers
          /\ nonceHand' = [nonceHand EXCEPT ![job] = s + 1]
      BY <1>4, <2>3, <2>5 DEF AccountLoaded, Served
    <3>2. /\ nonceHand' \in [NonceCallers -> Int \cup {NoNonce}] /\ nonceHand'[job] = s + 1
          /\ \A d \in NonceCallers \ {job} : nonceHand'[d] = NoNonce
      BY <1>0, <2>1, <2>2, <3>1 DEF NonceShape
    <3>3. nonceLine' \in Seq(NonceCallers \cup {InitJob}) /\ LineOrderly'
      BY <1>0, <2>1, <2>2, <3>2, LineShorter
    <3>4. NonceShape'
      BY <1>0, <2>1, <3>1, <3>2, <3>3 DEF NonceShape
    <3>5. NothingBefore'
      BY <2>1, <3>1 DEF NothingBefore
    <3>6. NumbersPlaced'
      BY <2>1, <2>2, <3>1, <3>2 DEF NumbersPlaced
    <3> QED BY <3>3, <3>4, <3>5, <3>6 DEF NonceInv
  <2> QED BY <2>4, <2>5
<1>5. ASSUME NEW c \in NonceCallers, ReleaseNonce(c) \/ SpendNonce(c) PROVE NonceInv'
  <2>1. /\ nonceHand[c] # NoNonce /\ nonceHand' = [nonceHand EXCEPT ![c] = NoNonce]
        /\ \/ nonceFree' = nonceFree \cup {nonceHand[c]} /\ nonceUsed' = nonceUsed
           \/ nonceUsed' = nonceUsed \cup {nonceHand[c]} /\ nonceFree' = nonceFree
        /\ UNCHANGED <<nonceSeq, nonceLine, nonceLoading, nonceStart>>
    BY <1>5 DEF ReleaseNonce, SpendNonce
  <2>2. /\ nonceHand[c] \in Int /\ nonceHand'[c] = NoNonce
        /\ \A d \in NonceCallers \ {c} : nonceHand'[d] = nonceHand[d]
    BY <1>0, <2>1 DEF NonceShape
  <2>3. NonceShape' /\ NothingBefore'
    BY <1>0, <2>1, <2>2 DEF NonceShape, NothingBefore
  <2>4. LineOrderly'
    BY <1>0, <2>1, <2>2 DEF LineOrderly, NonceShape
  <2>5. NumbersPlaced'
    <3>1. \A n \in Int :
            (n \in nonceUsed' \/ n \in nonceFree' \/ \E d \in NonceCallers : nonceHand'[d] = n)
            <=> (n \in nonceUsed \/ n \in nonceFree \/ \E d \in NonceCallers : nonceHand[d] = n)
      BY <2>1, <2>2
    <3>2. /\ nonceHand[c] \notin nonceUsed \cup nonceFree /\ NoNonce \notin nonceUsed \cup nonceFree
          /\ \A d \in NonceCallers \ {c} : nonceHand'[d] # nonceHand[c]
      BY <1>0, <2>1, <2>2 DEF NumbersPlaced, NonceShape
    <3>3. nonceUsed' \cap nonceFree' = {}
      BY <1>0, <2>1, <3>2 DEF NumbersPlaced
    <3>4. \A d \in NonceCallers : nonceHand'[d] \notin nonceUsed' \cup nonceFree'
      BY <1>0, <2>1, <2>2, <3>2 DEF NumbersPlaced
    <3> QED BY <1>0, <2>1, <2>2, <3>1, <3>3, <3>4 DEF NumbersPlaced
  <2> QED BY <2>3, <2>4, <2>5 DEF NonceInv
<1>6. CASE UNCHANGED nonceVars
  BY <1>0, <1>6 DEF nonceVars, NonceInv, NonceShape, NothingBefore, LineOrderly, NumbersPlaced
<1> QED
  BY <1>1, <1>2, <1>3, <1>4, <1>5, <1>6 DEF NonceNext, NonceJob

LEMMA NonceFirst == NonceInit => NonceInv
<1> SUFFICES ASSUME NonceInit PROVE NonceInv
  OBVIOUS
<1>1. /\ nonceLine \in Seq(NonceCallers \cup {InitJob})
      /\ Len(nonceLine) = 1 /\ nonceLine[1] = InitJob
  BY DEF NonceInit
<1>2. NonceShape
  BY <1>1 DEF NonceInit, NonceShape
<1>3. LineOrderly
  BY <1>1 DEF NonceInit, LineOrderly
<1>4. NothingBefore /\ NumbersPlaced
  BY DEF NonceInit, NothingBefore, NumbersPlaced
<1> QED BY <1>2, <1>3, <1>4 DEF NonceInv

LEMMA NonceKeeps == NonceInv => NonceAccounted
<1> SUFFICES ASSUME NonceInv PROVE NonceAccounted
  OBVIOUS
<1> DEFINE held == {nonceHand[c] : c \in NonceCallers} \ {NoNonce}
<1>1. NonceShape /\ NumbersPlaced /\ NothingBefore
  BY DEF NonceInv
<1>2. ASSUME nonceSeq # NoNonce
      PROVE  nonceUsed \cup nonceFree \cup held = nonceStart + 1 .. nonceSeq
  <2>1. nonceSeq \in Int /\ nonceStart \in Int /\ held \subseteq Int
    BY <1>1, <1>2 DEF NonceShape, NothingBefore
  <2>2. \A n \in Int : n \in held <=> \E c \in NonceCallers : nonceHand[c] = n
    BY NonceAssumption
  <2>3. \A n \in Int :
          n \in nonceUsed \cup nonceFree \cup held <=> n \in nonceStart + 1 .. nonceSeq
    <3> HIDE DEF held
    <3>1. \A n \in Int : nonceStart < n /\ n <= nonceSeq <=> n \in nonceStart + 1 .. nonceSeq
      BY <2>1
    <3> QED BY <1>1, <1>2, <2>2, <3>1 DEF NumbersPlaced
  <2> DEFINE numbers == nonceUsed \cup nonceFree \cup held
             range == nonceStart + 1 .. nonceSeq
  <2>4. numbers \subseteq Int /\ range \subseteq Int
    <3> HIDE DEF held
    <3>1. nonceUsed \subseteq Int /\ nonceFree \subseteq Int
      BY <1>1 DEF NonceShape
    <3>2. range \subseteq Int
      BY <2>1
    <3> QED BY <2>1, <3>1, <3>2
  <2>5. \A n \in Int : n \in numbers <=> n \in range
    BY <2>3
  <2> HIDE DEF numbers, range
  <2>6. numbers = range
    BY <2>4, <2>5
  <2> QED BY <2>6 DEF numbers, range
<1>3. held \cap (nonceUsed \cup nonceFree) = {}
  BY <1>1 DEF NumbersPlaced
<1> QED BY <1>1, <1>2, <1>3 DEF NonceAccounted, NumbersPlaced

\* Whatever releases, failed loads and requests overlap, every number from the
\* account's own to the manager's is used, free or in the hand of one caller: none
\* twice and no gap (nonceManager.ts:58-92, 121-143).
THEOREM NonceTheorem == NonceSpec => []NonceAccounted
BY NonceFirst, NonceKeeps, NonceInductive, PTL DEF NonceSpec

-----------------------------------------------------------------------------
(* Wallet challenges *)

ChallengeRows == [id : Int, wallet : Wallets, user : WalletUsers, expired : BOOLEAN]
InsertCalls == [pc : {"insert"}, wallet : Wallets]
OtherCalls == [pc : {"link", "clean"}, wallet : Wallets, id : Int]

\* The part of the type invariant that the steps need.
WalletShape ==
  /\ walletRows \subseteq ChallengeRows /\ walletNext \in Int
  /\ walletCall \in [WalletUsers -> InsertCalls \cup OtherCalls \cup {IdleWalletCall}]

\* A request of u is between its DELETE and its INSERT for w.
AboutToInsert(u, w) == walletCall[u].pc = "insert" /\ walletCall[u].wallet = w

\* An address no two requests asked about at once has one challenge or one request
\* that is about to insert one, at most.
OneOrNone ==
  \A w \in Wallets \ walletCrossed :
    /\ \A u, v \in WalletUsers : AboutToInsert(u, w) /\ AboutToInsert(v, w) => u = v
    /\ \A u \in WalletUsers : AboutToInsert(u, w) => \A r \in walletRows : r.wallet # w
    /\ \A r, s \in walletRows : r.wallet = w /\ s.wallet = w => r = s

WalletInv == WalletShape /\ OneOrNone

\* A step that neither adds a row nor begins an insertion.
LEMMA WalletQuietStep ==
  ASSUME WalletInv, walletCrossed' = walletCrossed, walletNext' = walletNext,
         walletRows' \subseteq walletRows,
         walletCall' \in [WalletUsers -> InsertCalls \cup OtherCalls \cup {IdleWalletCall}],
         \A u \in WalletUsers :
           walletCall'[u] = walletCall[u] \/ walletCall'[u].pc # "insert"
  PROVE  WalletInv'
<1>1. WalletShape'
  BY DEF WalletInv, WalletShape
<1>2. OneOrNone'
  BY DEF WalletInv, OneOrNone, AboutToInsert
<1> QED BY <1>1, <1>2 DEF WalletInv

LEMMA WalletInductive == WalletInv /\ [WalletNext]_walletVars => WalletInv'
<1> SUFFICES ASSUME WalletInv, [WalletNext]_walletVars PROVE WalletInv'
  OBVIOUS
<1>1. IdleWalletCall.pc = "idle"
  BY DEF IdleWalletCall
<1>2. ASSUME NEW u \in WalletUsers, NEW w \in Wallets, DropChallenges(u, w) PROVE WalletInv'
  <2> DEFINE call == [pc |-> "insert", wallet |-> w]
  <2>1. /\ walletRows' = {r \in walletRows : r.wallet # w} /\ walletNext' = walletNext
        /\ walletCall' = [walletCall EXCEPT ![u] = call] /\ walletCall[u].pc = "idle"
        /\ walletCrossed' = IF Crossing(u, w) THEN walletCrossed \cup {w} ELSE walletCrossed
    BY <1>2 DEF DropChallenges, WalletRequests
  <2>2. call \in InsertCalls /\ call.pc = "insert" /\ call.wallet = w
    BY DEF InsertCalls
  <2> HIDE DEF call
  <2>3. /\ WalletShape' /\ walletCall'[u] = call
        /\ \A v \in WalletUsers \ {u} : walletCall'[v] = walletCall[v]
    BY <2>1, <2>2 DEF WalletInv, WalletShape
  <2>4. ASSUME NEW x \in Wallets \ walletCrossed', x # w
        PROVE  /\ x \notin walletCrossed /\ ~AboutToInsert(u, x)'
               /\ \A v \in WalletUsers \ {u} : AboutToInsert(v, x)' <=> AboutToInsert(v, x)
    BY <2>1, <2>2, <2>3, <2>4 DEF AboutToInsert
  <2>5. ASSUME w \notin walletCrossed'
        PROVE  \A v \in WalletUsers \ {u} : ~AboutToInsert(v, w)'
    BY <2>1, <2>3, <2>5 DEF Crossing, AboutToInsert
  <2> QED BY <2>1, <2>3, <2>4, <2>5 DEF WalletInv, OneOrNone
<1>3. ASSUME NEW u \in WalletUsers, InsertChallenge(u) PROVE WalletInv'
  <2> DEFINE w == walletCall[u].wallet
             row == [id |-> walletNext, wallet |-> w, user |-> u, expired |-> FALSE]
  <2>1. /\ walletCall[u].pc = "insert" /\ walletRows' = walletRows \cup {row}
        /\ walletCall' = [walletCall EXCEPT ![u] = IdleWalletCall]
        /\ walletCrossed' = walletCrossed /\ walletNext' = walletNext + 1
    BY <1>3 DEF InsertChallenge, WalletReturns
  <2>2. w \in Wallets
    BY <1>1, <2>1 DEF WalletInv, WalletShape, InsertCalls, OtherCalls
  <2>3. row \in ChallengeRows /\ row.wallet = w /\ AboutToInsert(u, w)
    BY <2>1, <2>2 DEF AboutToInsert, ChallengeRows, WalletInv, WalletShape
  <2> HIDE DEF row
  <2>4. WalletShape'
    BY <2>1, <2>3 DEF WalletInv, WalletShape
  <2>5. /\ \A x : ~AboutToInsert(u, x)'
        /\ \A v \in WalletUsers \ {u} : \A x : AboutToInsert(v, x)' <=> AboutToInsert(v, x)
    BY <1>1, <2>1 DEF WalletInv, WalletShape, AboutToInsert
  <2>6. OneOrNone'
    BY <2>1, <2>3, <2>5 DEF WalletInv, OneOrNone
  <2> QED BY <2>4, <2>6 DEF WalletInv
<1>4. ASSUME NEW r \in walletRows, ChallengeExpires(r) PROVE WalletInv'
  <2> DEFINE late == [r EXCEPT !.expired = TRUE]
  <2>1. /\ walletRows' = (walletRows \ {r}) \cup {late} /\ walletNext' = walletNext
        /\ walletCall' = walletCall /\ walletCrossed' = walletCrossed
    BY <1>4 DEF ChallengeExpires
  <2>2. r \in ChallengeRows
    BY DEF WalletInv, WalletShape
  <2>3. late \in ChallengeRows /\ late.wallet = r.wallet
    BY <2>2 DEF ChallengeRows
  <2> HIDE DEF late
  <2>4. WalletShape'
    BY <2>1, <2>3 DEF WalletInv, WalletShape
  <2>5. OneOrNone'
    BY <2>1, <2>3 DEF WalletInv, OneOrNone, AboutToInsert
  <2> QED BY <2>4, <2>5 DEF WalletInv
<1>5. ASSUME NEW u \in WalletUsers, NEW w \in Wallets, VerifyChallenge(u, w) PROVE WalletInv'
  <2>1. PICK newest \in walletRows :
          IF newest.expired THEN walletRows' = walletRows \ {newest} /\ UNCHANGED walletCall
          ELSE /\ walletCall' = [walletCall EXCEPT ![u] =
                    [pc |-> "link", wallet |-> w, id |-> newest.id]]
               /\ UNCHANGED walletRows
    BY <1>5 DEF VerifyChallenge
  <2> DEFINE call == [pc |-> "link", wallet |-> w, id |-> newest.id]
  <2>2. call \in OtherCalls /\ call.pc # "insert"
    BY DEF OtherCalls, WalletInv, WalletShape, ChallengeRows
  <2> HIDE DEF call
  <2>3. /\ walletRows' \subseteq walletRows
        /\ walletCall' = walletCall \/ walletCall' = [walletCall EXCEPT ![u] = call]
    BY <2>1 DEF call
  <2>4. /\ walletCall' \in [WalletUsers -> InsertCalls \cup OtherCalls \cup {IdleWalletCall}]
        /\ \A v \in WalletUsers : walletCall'[v] = walletCall[v] \/ walletCall'[v].pc # "insert"
    BY <2>2, <2>3 DEF WalletInv, WalletShape
  <2>5. walletCrossed' = walletCrossed /\ walletNext' = walletNext
    BY <1>5 DEF VerifyChallenge
  <2> QED BY <2>3, <2>4, <2>5, WalletQuietStep
<1>6. ASSUME NEW u \in WalletUsers, LinkWallet(u) PROVE WalletInv'
  <2> DEFINE call == [walletCall[u] EXCEPT !.pc = "clean"]
  <2>1. /\ walletCall[u].pc = "link" /\ walletCall' = [walletCall EXCEPT ![u] = call]
        /\ UNCHANGED <<walletRows, walletNext, walletCrossed>>
    BY <1>6 DEF LinkWallet
  <2>2. walletCall[u] \in OtherCalls
    BY <1>1, <2>1 DEF WalletInv, WalletShape, InsertCalls
  <2>3. call \in OtherCalls /\ call.pc = "clean"
    BY <2>2 DEF OtherCalls
  <2> HIDE DEF call
  <2>4. /\ walletCall' \in [WalletUsers -> InsertCalls \cup OtherCalls \cup {IdleWalletCall}]
        /\ \A v \in WalletUsers : walletCall'[v] = walletCall[v] \/ walletCall'[v].pc # "insert"
    BY <2>1, <2>3 DEF WalletInv, WalletShape
  <2> QED BY <2>1, <2>4, WalletQuietStep
<1>7. ASSUME NEW u \in WalletUsers, CleanChallenge(u) \/ WalletCallFails(u) PROVE WalletInv'
  <2>1. /\ walletRows' \subseteq walletRows /\ walletCrossed' = walletCrossed
        /\ walletNext' = walletNext
        /\ walletCall' = [walletCall EXCEPT ![u] = IdleWalletCall]
    BY <1>7 DEF CleanChallenge, WalletCallFails, WalletReturns
  <2>2. /\ walletCall' \in [WalletUsers -> InsertCalls \cup OtherCalls \cup {IdleWalletCall}]
        /\ \A v \in WalletUsers : walletCall'[v] = walletCall[v] \/ walletCall'[v].pc # "insert"
    BY <1>1, <2>1 DEF WalletInv, WalletShape
  <2> QED BY <2>1, <2>2, WalletQuietStep
<1>8. CASE CleanupExpired \/ \E u \in WalletUsers, w \in Wallets \cup {NoWallet} : RegisterWorker(u, w)
  <2>1. /\ walletRows' \subseteq walletRows /\ walletCrossed' = walletCrossed
        /\ walletNext' = walletNext /\ walletCall' = walletCall
    BY <1>8 DEF CleanupExpired, RegisterWorker
  <2> QED BY <2>1, WalletQuietStep DEF WalletInv, WalletShape
<1>9. CASE UNCHANGED walletVars
  BY <1>9, WalletQuietStep DEF walletVars, WalletInv, WalletShape
<1> QED
  BY <1>2, <1>3, <1>4, <1>5, <1>6, <1>7, <1>8, <1>9 DEF WalletNext

LEMMA WalletFirst == WalletInit => WalletInv
BY DEF WalletInit, WalletInv, WalletShape, OneOrNone, AboutToInsert, IdleWalletCall

LEMMA WalletKeeps == WalletInv => OneChallengePerWallet
<1> SUFFICES ASSUME WalletInv, NEW w \in Wallets \ walletCrossed
             PROVE  Cardinality({r \in walletRows : r.wallet = w}) <= 1
  BY DEF OneChallengePerWallet
<1> DEFINE of == {r \in walletRows : r.wallet = w}
<1>1. of = {} \/ \E r : of = {r}
  BY DEF WalletInv, OneOrNone
<1> HIDE DEF of
<1>2. Cardinality(of) = 0 \/ Cardinality(of) = 1
  BY <1>1, FS_EmptySet, FS_Singleton
<1> QED BY <1>2 DEF of

\* Whichever workers ask for, answer and let expire the challenges of an address,
\* it has at most one, unless two of them asked at the same moment
\* (walletVerification.ts:22-32).
THEOREM ChallengeTheorem == WalletSpec => []OneChallengePerWallet
BY WalletFirst, WalletKeeps, WalletInductive, PTL DEF WalletSpec

-----------------------------------------------------------------------------
(* Migrations *)

MigRecords == [pc : MigSteps, attempt : Int, todo : SUBSET Versions]

\* The part of the type invariant that the steps need.
MigShape ==
  /\ migApplied \subseteq Versions /\ migDone \in [Versions -> Int]
  /\ migRun \in [MigReplicas -> MigRecords]
  /\ migTx \in [Versions -> SUBSET MigReplicas]
  /\ migRollback \in Versions \cup {0}

\* The SQL of a migration is in effect once when its row is there, else not.
DoneOnce == \A v \in Versions : migDone[v] = IF v \in migApplied THEN 1 ELSE 0

\* A migration whose transaction is open has no row yet, and one replica holds
\* its locks: the one that commits it next.
Committing(p, v) == migRun[p].pc = "commit" /\ Lowest(v, migRun[p].todo)
LocksHeld ==
  /\ \A p \in MigReplicas, v \in Versions : p \in migTx[v] <=> Committing(p, v)
  /\ \A v \in Versions, p, q \in MigReplicas : p \in migTx[v] /\ q \in migTx[v] => p = q
  /\ \A v \in Versions : migTx[v] # {} => v \notin migApplied

\* What is about to be rolled back is applied, and what has been edited was.
RollbacksKnown ==
  /\ migRollback # 0 => migRollback \in migApplied
  /\ migEdited \subseteq migApplied \cup migRolled

\* A replica that runs its plan is through with everything not in it.
CoveredBy(todo) ==
  Versions \subseteq migApplied \cup migRolled \cup todo /\ migEdited \subseteq migRolled
PlanCovers ==
  \A p \in MigReplicas :
    /\ migRun[p].pc \in {"apply", "commit"} => CoveredBy(migRun[p].todo)
    /\ migRun[p].pc \in {"drizzle", "up"} => CoveredBy({})

MigInv == MigShape /\ DoneOnce /\ LocksHeld /\ RollbacksKnown /\ PlanCovers

LEMMA LowestIsOne ==
  ASSUME NEW todo \in SUBSET Versions, NEW v, NEW w, Lowest(v, todo), Lowest(w, todo)
  PROVE  v = w
<1>1. Versions \subseteq Int
  <2>1. Cardinality(Versions) \in Nat
    BY MigrationsAssumption, FS_CardinalityType
  <2> QED BY <2>1, MigrationsAssumption
<1>2. v \in Int /\ w \in Int /\ v <= w /\ w <= v
  BY <1>1 DEF Lowest
<1> QED BY <1>2

\* A replica that has no transaction open goes on without opening one.
LEMMA MigRunStep ==
  ASSUME MigInv, NEW p \in MigReplicas, NEW run \in MigRecords,
         migRun' = [migRun EXCEPT ![p] = run],
         migRun[p].pc # "commit", run.pc # "commit",
         run.pc = "apply" => CoveredBy(run.todo),
         run.pc \in {"drizzle", "up"} => CoveredBy({}),
         UNCHANGED <<migApplied, migDone, migTx, migEdited, migRolled, migRollback>>
  PROVE  MigInv'
<1>1. MigShape' /\ DoneOnce' /\ RollbacksKnown'
  BY DEF MigInv, MigShape, DoneOnce, RollbacksKnown
<1>2. migRun'[p] = run /\ \A q \in MigReplicas \ {p} : migRun'[q] = migRun[q]
  BY DEF MigInv, MigShape
<1>3. \A q \in MigReplicas, v \in Versions : Committing(q, v)' <=> Committing(q, v)
  BY <1>2 DEF Committing, Lowest
<1>4. LocksHeld'
  BY <1>3 DEF MigInv, LocksHeld
<1>5. PlanCovers'
  BY <1>2 DEF MigInv, PlanCovers, CoveredBy
<1> QED BY <1>1, <1>4, <1>5 DEF MigInv

\* The records the steps write.
LEMMA AttemptCounted ==
  ASSUME NEW run \in MigRecords, NEW pc \in MigSteps, NEW n \in Int
  PROVE  /\ [run EXCEPT !.pc = pc, !.attempt = n] \in MigRecords
         /\ [run EXCEPT !.pc = pc, !.attempt = n].pc = pc
BY DEF MigRecords

LEMMA MigrationPlanStep ==
  ASSUME MigInv, NEW p \in MigReplicas, MigrationPlan(p) \/ ConnectFails(p)
  PROVE  MigInv'
<1>1. /\ UNCHANGED <<migApplied, migDone, migTx, migEdited, migRolled, migRollback>>
      /\ migRun[p].pc \in {"connect", "again"}
  BY DEF MigrationPlan, ConnectFails, migWorld
<1>2. migRun[p] \in MigRecords
  BY DEF MigInv, MigShape
<1>3. ASSUME NEW pc \in {"exited", "again"},
             migRun' = [migRun EXCEPT ![p] = [@ EXCEPT !.pc = pc,
                                                       !.attempt = migRun[p].attempt + 1]]
      PROVE  MigInv'
  <2>1. migRun[p].attempt + 1 \in Int /\ pc \in MigSteps
    BY <1>2 DEF MigRecords, MigSteps
  <2>2. PICK n \in Int : n = migRun[p].attempt + 1
    BY <2>1
  <2> DEFINE run == [migRun[p] EXCEPT !.pc = pc, !.attempt = n]
  <2>3. run \in MigRecords /\ run.pc = pc
    BY <1>2, <2>1, AttemptCounted
  <2>4. migRun' = [migRun EXCEPT ![p] = run]
    BY <1>3, <2>2
  <2> HIDE DEF run
  <2> QED BY <1>1, <2>3, <2>4, MigRunStep
<1>4. CASE migEdited \cap migApplied = {} /\ MigrationPlan(p)
  <2> DEFINE run == [pc |-> "apply", attempt |-> migRun[p].attempt + 1,
                     todo |-> Versions \ migApplied]
  <2>1. run \in MigRecords /\ run.pc = "apply" /\ run.todo = Versions \ migApplied
    BY <1>2 DEF MigRecords, MigSteps
  <2>2. migRun' = [migRun EXCEPT ![p] = run]
    BY <1>4 DEF MigrationPlan
  <2> HIDE DEF run
  <2>3. CoveredBy(run.todo)
    BY <1>4, <2>1 DEF CoveredBy, MigInv, RollbacksKnown
  <2> QED BY <1>1, <2>1, <2>2, <2>3, MigRunStep
<1>5. PICK pc \in {"exited", "again"} :
        pc = IF migRun[p].attempt + 1 >= MaxInitAttempts THEN "exited" ELSE "again"
  OBVIOUS
<1>6. CASE migEdited \cap migApplied # {} /\ MigrationPlan(p)
  BY <1>3, <1>5, <1>6 DEF MigrationPlan
<1>7. CASE ConnectFails(p)
  BY <1>3, <1>5, <1>7 DEF ConnectFails
<1> QED BY <1>4, <1>6, <1>7

\* A replica goes to a step outside its plan, from one that holds no lock.
LEMMA MigGoesStep ==
  ASSUME MigInv, NEW p \in MigReplicas, NEW pc \in {"exited", "again", "drizzle", "up"},
         MigGoes(p, pc), migRun[p].pc # "commit", pc \in {"drizzle", "up"} => CoveredBy({}),
         UNCHANGED <<migApplied, migDone, migTx, migEdited, migRolled, migRollback>>
  PROVE  MigInv'
<1> DEFINE run == [migRun[p] EXCEPT !.pc = pc]
<1>1. run \in MigRecords /\ run.pc = pc
  BY DEF MigInv, MigShape, MigRecords, MigSteps
<1>2. migRun' = [migRun EXCEPT ![p] = run]
  BY DEF MigGoes
<1> HIDE DEF run
<1> QED BY <1>1, <1>2, MigRunStep

LEMMA MigrationRunsStep ==
  ASSUME MigInv, NEW p \in MigReplicas, MigrationRuns(p)
  PROVE  MigInv'
<1>1. PICK v \in Versions :
        /\ Lowest(v, migRun[p].todo) /\ migTx[v] = {}
        /\ IF v \in migApplied
           THEN AttemptFails(p) /\ UNCHANGED migTx
           ELSE MigGoes(p, "commit") /\ migTx' = [migTx EXCEPT ![v] = {p}]
  BY DEF MigrationRuns
<1>2. /\ migRun[p].pc = "apply"
      /\ UNCHANGED <<migApplied, migDone, migEdited, migRolled, migRollback>>
  BY DEF MigrationRuns, migWorld
<1>3. CASE v \in migApplied
  <2>1. PICK pc \in {"exited", "again"} :
          pc = IF migRun[p].attempt >= MaxInitAttempts THEN "exited" ELSE "again"
    OBVIOUS
  <2>2. MigGoes(p, pc) /\ migTx' = migTx
    BY <1>1, <1>3, <2>1 DEF AttemptFails
  <2> QED BY <1>2, <2>1, <2>2, MigGoesStep
<1>4. CASE v \notin migApplied
  <2>1. /\ migRun' = [migRun EXCEPT ![p].pc = "commit"]
        /\ migTx' = [migTx EXCEPT ![v] = {p}]
    BY <1>1, <1>4 DEF MigGoes
  <2>2. MigShape'
    BY <1>2, <2>1 DEF MigInv, MigShape, MigRecords, MigSteps
  <2>3. /\ migRun'[p].pc = "commit" /\ migRun'[p].todo = migRun[p].todo
        /\ \A q \in MigReplicas \ {p} : migRun'[q] = migRun[q]
        /\ migTx'[v] = {p} /\ \A w \in Versions \ {v} : migTx'[w] = migTx[w]
    BY <2>1 DEF MigInv, MigShape, MigRecords
  <2>4. DoneOnce' /\ RollbacksKnown'
    BY <1>2 DEF MigInv, DoneOnce, RollbacksKnown
  <2>5. PlanCovers'
    BY <1>2, <2>3 DEF MigInv, PlanCovers, CoveredBy
  <2>6. ASSUME NEW q \in MigReplicas, NEW w \in Versions
        PROVE  q \in migTx'[w] <=> Committing(q, w)'
    <3>1. CASE q # p
      BY <1>1, <2>3, <3>1 DEF MigInv, LocksHeld, Committing
    <3>2. CASE q = p
      <4>1. p \notin migTx[w]
        BY <1>2 DEF MigInv, LocksHeld, Committing
      <4>2. Committing(p, w)' <=> w = v
        BY <1>1, <2>3, LowestIsOne DEF Committing, MigInv, MigShape, MigRecords
      <4> QED BY <2>3, <3>2, <4>1, <4>2
    <3> QED BY <3>1, <3>2
  <2>7. LocksHeld'
    BY <1>1, <1>2, <1>4, <2>3, <2>6 DEF MigInv, LocksHeld
  <2> QED BY <2>2, <2>4, <2>5, <2>7 DEF MigInv
<1> QED BY <1>3, <1>4

LEMMA MigrationCommitsStep ==
  ASSUME MigInv, NEW p \in MigReplicas, MigrationCommits(p)
  PROVE  MigInv'
<1>1. PICK v \in Versions :
        /\ Lowest(v, migRun[p].todo)
        /\ migApplied' = migApplied \cup {v}
        /\ migDone' = [migDone EXCEPT ![v] = @ + 1]
        /\ migTx' = [migTx EXCEPT ![v] = {}]
        /\ migRun' = [migRun EXCEPT ![p] = Past(@, v)]
  BY DEF MigrationCommits
<1>2. /\ migRun[p].pc = "commit"
      /\ UNCHANGED <<migEdited, migRolled, migRollback>>
  BY DEF MigrationCommits, migWorld
<1>3. Past(migRun[p], v) \in MigRecords
      /\ Past(migRun[p], v).pc = "apply" /\ Past(migRun[p], v).todo = migRun[p].todo \ {v}
  BY DEF Past, MigInv, MigShape, MigRecords, MigSteps
<1>4. MigShape'
  BY <1>1, <1>2, <1>3 DEF MigInv, MigShape
<1>5. /\ migRun'[p].pc = "apply" /\ migRun'[p].todo = migRun[p].todo \ {v}
      /\ \A q \in MigReplicas \ {p} : migRun'[q] = migRun[q]
      /\ migTx'[v] = {} /\ \A w \in Versions \ {v} : migTx'[w] = migTx[w]
  BY <1>1, <1>3 DEF MigInv, MigShape
<1>6. p \in migTx[v] /\ v \notin migApplied
  BY <1>1, <1>2 DEF MigInv, LocksHeld, Committing
<1>7. DoneOnce'
  BY <1>1, <1>6 DEF MigInv, MigShape, DoneOnce
<1>8. RollbacksKnown'
  BY <1>1, <1>2 DEF MigInv, RollbacksKnown
<1>9. PlanCovers'
  <2>1. \A q \in MigReplicas : CoveredBy(migRun[q].todo) => CoveredBy(migRun[q].todo)'
                                 \/ q = p
    BY <1>1, <1>2, <1>5 DEF CoveredBy
  <2>2. CoveredBy({}) => CoveredBy({})'
    BY <1>1, <1>2 DEF CoveredBy
  <2>3. CoveredBy(migRun[p].todo)'
    BY <1>1, <1>2, <1>5 DEF CoveredBy, MigInv, PlanCovers
  <2> QED BY <1>5, <2>1, <2>2, <2>3 DEF MigInv, PlanCovers
<1>10. ASSUME NEW q \in MigReplicas, NEW w \in Versions
       PROVE  q \in migTx'[w] <=> Committing(q, w)'
  <2>1. CASE q = p
    <3>1. ~Committing(q, w)'
      BY <1>5, <2>1 DEF Committing
    <3>2. q \in migTx[w] => w = v
      BY <1>1, <2>1, LowestIsOne DEF MigInv, MigShape, MigRecords, LocksHeld, Committing
    <3> QED BY <1>5, <3>1, <3>2
  <2>2. CASE q # p
    <3>1. Committing(q, w)' <=> Committing(q, w)
      BY <1>5, <2>2 DEF Committing
    <3>2. q \notin migTx[v]
      BY <1>6, <2>2 DEF MigInv, LocksHeld
    <3> QED BY <1>5, <3>1, <3>2 DEF MigInv, LocksHeld
  <2> QED BY <2>1, <2>2
<1>11. LocksHeld'
  BY <1>1, <1>5, <1>10 DEF MigInv, LocksHeld
<1> QED BY <1>4, <1>7, <1>8, <1>9, <1>11 DEF MigInv

LEMMA MigrationFailsStep ==
  ASSUME MigInv, NEW p \in MigReplicas, MigrationFails(p)
  PROVE  MigInv'
<1>1. PICK pc \in {"exited", "again"} :
        pc = IF migRun[p].attempt >= MaxInitAttempts THEN "exited" ELSE "again"
  OBVIOUS
<1>2. /\ migRun' = [migRun EXCEPT ![p].pc = pc]
      /\ migTx' = [v \in Versions |-> migTx[v] \ {p}]
      /\ UNCHANGED <<migApplied, migDone, migEdited, migRolled, migRollback>>
  BY <1>1 DEF MigrationFails, AttemptFails, MigGoes
<1>3. MigShape'
  BY <1>2 DEF MigInv, MigShape, MigRecords, MigSteps
<1>4. /\ migRun'[p].pc = pc /\ \A q \in MigReplicas \ {p} : migRun'[q] = migRun[q]
      /\ \A v \in Versions : migTx'[v] = migTx[v] \ {p}
  BY <1>2 DEF MigInv, MigShape, MigRecords
<1>5. DoneOnce' /\ RollbacksKnown'
  BY <1>2 DEF MigInv, DoneOnce, RollbacksKnown
<1>6. PlanCovers'
  BY <1>2, <1>4 DEF MigInv, PlanCovers, CoveredBy
<1>7. \A q \in MigReplicas, v \in Versions : q \in migTx'[v] <=> Committing(q, v)'
  BY <1>4 DEF MigInv, LocksHeld, Committing
<1>8. LocksHeld'
  BY <1>2, <1>4, <1>7 DEF MigInv, LocksHeld
<1> QED BY <1>3, <1>5, <1>6, <1>8 DEF MigInv

LEMMA RollbackStep ==
  ASSUME MigInv, RollbackReads \/ RollbackCommits
  PROVE  MigInv'
<1>1. UNCHANGED <<migRun, migTx, migEdited>>
  BY DEF RollbackReads, RollbackCommits
<1>2. \A q \in MigReplicas, v \in Versions : Committing(q, v)' <=> Committing(q, v)
  BY <1>1 DEF Committing, Lowest
<1>3. CASE RollbackReads
  <2>1. /\ migRollback' \in migApplied
        /\ UNCHANGED <<migApplied, migDone, migRolled>>
    BY <1>3 DEF RollbackReads
  <2>2. MigShape' /\ DoneOnce' /\ RollbacksKnown'
    BY <1>1, <2>1 DEF MigInv, MigShape, DoneOnce, RollbacksKnown
  <2>3. LocksHeld'
    BY <1>1, <1>2, <2>1 DEF MigInv, LocksHeld
  <2>4. PlanCovers'
    BY <1>1, <2>1 DEF MigInv, PlanCovers, CoveredBy
  <2> QED BY <2>2, <2>3, <2>4 DEF MigInv
<1>4. CASE RollbackCommits
  <2>1. /\ migRollback \in Versions /\ migRollback \in migApplied
        /\ migApplied' = migApplied \ {migRollback}
        /\ migDone' = [migDone EXCEPT ![migRollback] = @ - 1]
        /\ migRolled' = migRolled \cup {migRollback}
        /\ migRollback' = 0
    BY <1>4 DEF RollbackCommits, MigInv, MigShape, RollbacksKnown
  <2>2. MigShape'
    BY <1>1, <2>1 DEF MigInv, MigShape
  <2>3. DoneOnce'
    BY <2>1 DEF MigInv, MigShape, DoneOnce
  <2>4. LocksHeld'
    BY <1>1, <1>2, <2>1 DEF MigInv, LocksHeld
  <2>5. RollbacksKnown'
    BY <1>1, <2>1 DEF MigInv, RollbacksKnown
  <2>6. PlanCovers'
    BY <1>1, <2>1 DEF MigInv, PlanCovers, CoveredBy
  <2> QED BY <2>2, <2>3, <2>4, <2>5, <2>6 DEF MigInv
<1> QED BY <1>3, <1>4

LEMMA MigInductive == MigInv /\ [MigNext]_migVars => MigInv'
<1> SUFFICES ASSUME MigInv, [MigNext]_migVars PROVE MigInv'
  OBVIOUS
<1>1. ASSUME NEW p \in MigReplicas, MigrationsEnd(p) \/ DrizzleMigrates(p) PROVE MigInv'
  <2>1. UNCHANGED <<migApplied, migDone, migTx, migEdited, migRolled, migRollback>>
    BY <1>1 DEF MigrationsEnd, DrizzleMigrates, migWorld
  <2>2. CASE MigrationsEnd(p)
    <3>1. PICK pc \in {"drizzle", "up"} : pc = Initialized
      BY DEF Initialized
    <3>2. MigGoes(p, pc) /\ migRun[p].pc = "apply" /\ migRun[p].todo = {}
      BY <2>2, <3>1 DEF MigrationsEnd
    <3>3. CoveredBy({})
      BY <3>2 DEF MigInv, PlanCovers
    <3> QED BY <2>1, <3>1, <3>2, <3>3, MigGoesStep
  <2>3. CASE DrizzleMigrates(p)
    BY <2>1, <2>3, MigGoesStep DEF DrizzleMigrates
  <2> QED BY <1>1, <2>2, <2>3
<1>2. CASE UNCHANGED migVars
  BY <1>2 DEF migVars, MigInv, MigShape, DoneOnce, LocksHeld, Committing, RollbacksKnown,
              PlanCovers, CoveredBy
<1> QED
  BY <1>1, <1>2, MigrationPlanStep, MigrationRunsStep, MigrationCommitsStep,
     MigrationFailsStep, RollbackStep DEF MigNext, MigStep

LEMMA MigFirst == MigInit => MigInv
<1> SUFFICES ASSUME MigInit PROVE MigInv
  OBVIOUS
<1>1. PICK n \in {0} \cup Versions :
        /\ migApplied = 1..n
        /\ migDone = [v \in Versions |-> IF v <= n THEN 1 ELSE 0]
        /\ migEdited \in {{}} \cup {{v} : v \in 1..n}
  BY DEF MigInit
<1>2. Cardinality(Versions) \in Nat /\ Versions = 1..Cardinality(Versions)
  BY MigrationsAssumption, FS_CardinalityType
<1>3. n \in Int /\ migApplied \subseteq Versions /\ Versions \subseteq Int
      /\ \A v \in Versions : v \in migApplied <=> v <= n
  BY <1>1, <1>2
<1>4. migEdited \subseteq migApplied
  BY <1>1
<1>5. migDone \in [Versions -> Int] /\ DoneOnce
  BY <1>1, <1>3 DEF DoneOnce
<1>6. \A p \in MigReplicas : migRun[p] = NewRun
  BY DEF MigInit
<1>7. NewRun \in MigRecords /\ NewRun.pc = "connect"
  BY DEF NewRun, MigRecords, MigSteps
<1>8. MigShape
  BY <1>3, <1>5, <1>7 DEF MigInit, MigShape
<1>9. LocksHeld /\ RollbacksKnown /\ PlanCovers
  BY <1>4, <1>6, <1>7 DEF MigInit, LocksHeld, Committing, RollbacksKnown, PlanCovers
<1> QED BY <1>5, <1>8, <1>9 DEF MigInv

LEMMA MigKeeps == MigInv => ServesMigrated
BY DEF MigInv, DoneOnce, PlanCovers, CoveredBy, ServesMigrated

\* Any number of replicas that start together apply each migration once between
\* them, and one that serves has found or applied them all, their files as they
\* were applied, but for what an operator rolled back (migrationRunner.ts:152-228,
\* pool.ts:293-388).
THEOREM MigrationsTheorem == MigSpec => []ServesMigrated
BY MigFirst, MigKeeps, MigInductive, PTL DEF MigSpec

-----------------------------------------------------------------------------
(* Key rotation *)

Rotations ==
  [pc : RotatorSteps, todo : Seq(VaultKeys), due : Seq(VaultKeys), seen : Int]
MetaRecords == [version : Int, fresh : BOOLEAN]

\* The part of the type invariant that the steps need; a check has keys to go,
\* and a rotation its key.
KeyShape ==
  /\ vaultKey \in [VaultKeys -> Int] /\ vaultMeta \in [VaultKeys -> MetaRecords]
  /\ rotator \in [KeyReplicas -> Rotations \cup {RotatorOff, RotatorIdle}]
  /\ keyDisturbed \subseteq VaultKeys
KeysAtHand ==
  \A p \in KeyReplicas :
    /\ rotator[p].pc = "check" => rotator[p].todo # <<>>
    /\ rotator[p].pc \in {"write", "read", "meta"} => rotator[p].due # <<>>

\* A process has written a key's value and not yet its metadata.
KeyChanging(k, p) == rotator[p].pc \in {"read", "meta"} /\ Head(rotator[p].due) = k

\* An undisturbed key is changed by one process at a time, and the metadata is
\* behind the values by that change.
Counted(k) ==
  /\ \A p, q \in KeyReplicas : KeyChanging(k, p) /\ KeyChanging(k, q) => p = q
  /\ (\A p \in KeyReplicas : ~KeyChanging(k, p)) => vaultKey[k] = vaultMeta[k].version
  /\ \A p \in KeyReplicas : KeyChanging(k, p) =>
       /\ vaultKey[k] = vaultMeta[k].version + 1
       /\ rotator[p].pc = "meta" => rotator[p].seen = vaultMeta[k].version

KeyInv == KeyShape /\ KeysAtHand /\ \A k \in VaultKeys \ keyDisturbed : Counted(k)

\* The records the steps write.
LEMMA CheckingRecord ==
  ASSUME NEW rotation \in Rotations, NEW due \in Seq(VaultKeys),
         Tail(rotation.todo) \in Seq(VaultKeys)
  PROVE  /\ Checking(rotation, due) \in Rotations
         /\ Checking(rotation, due).pc = rotation.pc
         /\ Checking(rotation, due).todo = Tail(rotation.todo)
BY DEF Rotations, Checking

LEMMA PassedRecord ==
  ASSUME NEW rotation \in Rotations, Tail(rotation.due) \in Seq(VaultKeys)
  PROVE  /\ KeyPassed(rotation) \in Rotations /\ KeyPassed(rotation).pc = "write"
         /\ KeyPassed(rotation).due = Tail(rotation.due)
BY DEF Rotations, RotatorSteps, KeyPassed

LEMMA VersionReadRecord ==
  ASSUME NEW rotation \in Rotations, NEW n \in Int
  PROVE  /\ VersionRead(rotation, n) \in Rotations
         /\ VersionRead(rotation, n).pc = "meta"
         /\ VersionRead(rotation, n).due = rotation.due
         /\ VersionRead(rotation, n).seen = n
BY DEF Rotations, RotatorSteps, VersionRead

\* The value of a key is written: the rotation reads the metadata next.
LEMMA WrittenRecord ==
  ASSUME NEW rotation \in Rotations
  PROVE  /\ [rotation EXCEPT !.pc = "read"] \in Rotations
         /\ [rotation EXCEPT !.pc = "read"].pc = "read"
         /\ [rotation EXCEPT !.pc = "read"].due = rotation.due
BY DEF Rotations, RotatorSteps

\* A batch is not empty when something is due.
LEMMA BatchRecord ==
  ASSUME NEW rotation \in Rotations, NEW due \in Seq(VaultKeys), due # <<>>
  PROVE  /\ BatchOf(rotation, due) \in Rotations /\ BatchOf(rotation, due).pc = "write"
         /\ BatchOf(rotation, due).due # <<>>
<1> DEFINE n == IF Len(due) < MaxKeysPerBatch THEN Len(due) ELSE MaxKeysPerBatch
           batch == SubSeq(due, 1, n)
<1>1. Len(due) \in Nat /\ Len(due) # 0 /\ DOMAIN due = 1..Len(due)
      /\ \A i \in 1..Len(due) : due[i] \in VaultKeys
  BY EmptySeq, LenProperties, ElementOfSeq
<1>2. n \in Int /\ 1 <= n /\ n <= Len(due)
  BY <1>1, RotationAssumption
<1> HIDE DEF n
<1>3. batch \in Seq(VaultKeys) /\ Len(batch) = n
  <2>1. \A i \in 1..n : due[i] \in VaultKeys
    BY <1>1, <1>2
  <2> QED BY <1>2, <2>1, SubSeqProperties
<1>4. batch # <<>>
  BY <1>2, <1>3, EmptySeq
<1>5. BatchOf(rotation, due) = [rotation EXCEPT !.pc = "write", !.todo = <<>>, !.due = batch]
  BY DEF BatchOf, n
<1> HIDE DEF batch
<1>6. <<>> \in Seq(VaultKeys)
  BY EmptySeq
<1> QED BY <1>3, <1>4, <1>5, <1>6 DEF Rotations, RotatorSteps

\* What a step without a secret's write leaves behind.
Orderly(rotation) ==
  /\ rotation \in Rotations \cup {RotatorOff, RotatorIdle}
  /\ rotation.pc \notin {"read", "meta"}
  /\ rotation.pc = "check" => rotation.todo # <<>>
  /\ rotation.pc = "write" => rotation.due # <<>>

\* A process that changes no undisturbed key goes on to where it changes none.
LEMMA KeyQuietStep ==
  ASSUME KeyInv, NEW p \in KeyReplicas, NEW rotation, Orderly(rotation),
         rotator' = [rotator EXCEPT ![p] = rotation],
         vaultKey' = vaultKey, vaultMeta' = vaultMeta,
         keyDisturbed' \in SUBSET VaultKeys, keyDisturbed \subseteq keyDisturbed',
         \A k \in VaultKeys \ keyDisturbed' : ~KeyChanging(k, p)
  PROVE  KeyInv'
<1>1. KeyShape'
  BY DEF KeyInv, KeyShape, Orderly
<1>2. rotator'[p] = rotation /\ \A q \in KeyReplicas \ {p} : rotator'[q] = rotator[q]
  BY DEF KeyInv, KeyShape
<1>3. KeysAtHand'
  BY <1>2 DEF KeyInv, KeysAtHand, Orderly
<1>4. ASSUME NEW k \in VaultKeys \ keyDisturbed' PROVE Counted(k)'
  <2>1. \A q \in KeyReplicas : KeyChanging(k, q)' <=> KeyChanging(k, q)
    BY <1>2, <1>4 DEF KeyChanging, Orderly
  <2>2. \A q \in KeyReplicas : KeyChanging(k, q) => rotator'[q] = rotator[q]
    BY <1>2, <1>4
  <2>3. Counted(k)
    BY <1>4 DEF KeyInv
  <2> QED BY <2>1, <2>2, <2>3 DEF Counted
<1> QED BY <1>1, <1>3, <1>4 DEF KeyInv

LEMMA RotatorOffIsOrderly == Orderly(RotatorOff) /\ Orderly(RotatorIdle)
BY DEF Orderly, RotatorOff, RotatorIdle

LEMMA KeyOfProcess ==
  ASSUME KeyInv, NEW p \in KeyReplicas
  PROVE  /\ rotator[p].pc \in RotatorSteps => rotator[p] \in Rotations
         /\ rotator[p].pc = "check" =>
              Head(rotator[p].todo) \in VaultKeys /\ Tail(rotator[p].todo) \in Seq(VaultKeys)
         /\ rotator[p].pc \in {"write", "read", "meta"} =>
              Head(rotator[p].due) \in VaultKeys /\ Tail(rotator[p].due) \in Seq(VaultKeys)
<1>1. rotator[p].pc \in RotatorSteps => rotator[p] \in Rotations
  BY DEF KeyInv, KeyShape, RotatorSteps, RotatorOff, RotatorIdle
<1>2. ASSUME rotator[p].pc \in RotatorSteps
      PROVE  rotator[p].todo \in Seq(VaultKeys) /\ rotator[p].due \in Seq(VaultKeys)
  BY <1>1, <1>2 DEF Rotations
<1>3. ASSUME rotator[p].pc = "check"
      PROVE  Head(rotator[p].todo) \in VaultKeys /\ Tail(rotator[p].todo) \in Seq(VaultKeys)
  <2>1. rotator[p].todo \in Seq(VaultKeys) /\ rotator[p].todo # <<>>
    BY <1>2, <1>3 DEF KeyInv, KeysAtHand, RotatorSteps
  <2> QED BY <2>1, HeadTailProperties
<1>4. ASSUME rotator[p].pc \in {"write", "read", "meta"}
      PROVE  Head(rotator[p].due) \in VaultKeys /\ Tail(rotator[p].due) \in Seq(VaultKeys)
  <2>1. rotator[p].due \in Seq(VaultKeys) /\ rotator[p].due # <<>>
    BY <1>2, <1>4 DEF KeyInv, KeysAtHand, RotatorSteps
  <2> QED BY <2>1, HeadTailProperties
<1> QED BY <1>1, <1>3, <1>4

\* The step to the next key, after one that is no longer being changed.
LEMMA KeyPassedIsOrderly ==
  ASSUME KeyInv, NEW p \in KeyReplicas, rotator[p].pc \in {"write", "meta"}, NextKey(p)
  PROVE  \E rotation : Orderly(rotation) /\ rotator' = [rotator EXCEPT ![p] = rotation]
<1>1. rotator[p] \in Rotations /\ Tail(rotator[p].due) \in Seq(VaultKeys)
  BY KeyOfProcess DEF RotatorSteps
<1>2. rotator[p].due \in Seq(VaultKeys)
  BY <1>1 DEF Rotations
<1>3. CASE Tail(rotator[p].due) = <<>>
  BY <1>3, RotatorOffIsOrderly DEF NextKey
<1>4. CASE Tail(rotator[p].due) # <<>>
  <2>1. rotator' = [rotator EXCEPT ![p] = KeyPassed(rotator[p])]
    BY <1>4 DEF NextKey
  <2>2. Orderly(KeyPassed(rotator[p]))
    BY <1>1, <1>4, PassedRecord DEF Orderly
  <2> QED BY <2>1, <2>2
<1> QED BY <1>3, <1>4

LEMMA RotatorChecksStep ==
  ASSUME KeyInv, NEW p \in KeyReplicas, RotatorChecks(p)
  PROVE  KeyInv'
<1>1. /\ rotator[p].pc = "check"
      /\ vaultKey' = vaultKey /\ vaultMeta' = vaultMeta /\ keyDisturbed' = keyDisturbed
  BY DEF RotatorChecks
<1>2. /\ rotator[p] \in Rotations /\ Head(rotator[p].todo) \in VaultKeys
      /\ Tail(rotator[p].todo) \in Seq(VaultKeys)
  BY <1>1, KeyOfProcess DEF RotatorSteps
<1>3. rotator[p].due \in Seq(VaultKeys)
  BY <1>2 DEF Rotations
<1>4. Append(rotator[p].due, Head(rotator[p].todo)) \in Seq(VaultKeys)
  BY <1>2, <1>3, AppendProperties
<1>5. PICK due \in Seq(VaultKeys) : Checked(p, due)
  BY <1>3, <1>4 DEF RotatorChecks
<1>6. CASE Tail(rotator[p].todo) # <<>>
  <2>1. rotator' = [rotator EXCEPT ![p] = Checking(rotator[p], due)]
    BY <1>5, <1>6 DEF Checked
  <2>2. Orderly(Checking(rotator[p], due))
    BY <1>1, <1>2, <1>6, CheckingRecord DEF Orderly
  <2> QED BY <1>1, <2>1, <2>2, KeyQuietStep DEF KeyChanging, KeyInv, KeyShape
<1>7. CASE Tail(rotator[p].todo) = <<>> /\ due = <<>>
  <2>1. rotator' = [rotator EXCEPT ![p] = RotatorIdle]
    BY <1>5, <1>7 DEF Checked
  <2> QED BY <1>1, <2>1, RotatorOffIsOrderly, KeyQuietStep DEF KeyChanging, KeyInv, KeyShape
<1>8. CASE Tail(rotator[p].todo) = <<>> /\ due # <<>>
  <2>1. rotator' = [rotator EXCEPT ![p] = BatchOf(rotator[p], due)]
    BY <1>5, <1>8 DEF Checked
  <2>2. Orderly(BatchOf(rotator[p], due))
    BY <1>2, <1>8, BatchRecord DEF Orderly
  <2> QED BY <1>1, <2>1, <2>2, KeyQuietStep DEF KeyChanging, KeyInv, KeyShape
<1> QED BY <1>6, <1>7, <1>8

\* The new value: who writes it is alone with the key, or the key is disturbed.
LEMMA RotatorWritesStep ==
  ASSUME KeyInv, NEW p \in KeyReplicas, RotatorWrites(p)
  PROVE  KeyInv'
<1>1. PICK k0 : k0 = Head(rotator[p].due)
  OBVIOUS
<1>2. /\ rotator[p].pc = "write" /\ vaultMeta' = vaultMeta
      /\ vaultKey' = [vaultKey EXCEPT ![k0] = @ + 1]
      /\ rotator' = [rotator EXCEPT ![p].pc = "read"]
      /\ keyDisturbed' = IF Cardinality(Rotating(k0)) > 1 THEN keyDisturbed \cup {k0}
                         ELSE keyDisturbed
  BY <1>1 DEF RotatorWrites
<1>3. k0 \in VaultKeys /\ rotator[p] \in Rotations /\ rotator[p].due # <<>>
  BY <1>1, <1>2, KeyOfProcess DEF KeyInv, KeysAtHand, RotatorSteps
<1>4. /\ [rotator[p] EXCEPT !.pc = "read"] \in Rotations
      /\ rotator'[p].pc = "read" /\ rotator'[p].due = rotator[p].due
      /\ \A q \in KeyReplicas \ {p} : rotator'[q] = rotator[q]
  <2>1. rotator' = [rotator EXCEPT ![p] = [rotator[p] EXCEPT !.pc = "read"]]
    BY <1>2
  <2>2. /\ rotator'[p] = [rotator[p] EXCEPT !.pc = "read"]
        /\ \A q \in KeyReplicas \ {p} : rotator'[q] = rotator[q]
    BY <2>1 DEF KeyInv, KeyShape
  <2> QED BY <1>3, <2>2, WrittenRecord
<1>5. /\ vaultKey'[k0] = vaultKey[k0] + 1
      /\ \A k \in VaultKeys \ {k0} : vaultKey'[k] = vaultKey[k]
  BY <1>2, <1>3 DEF KeyInv, KeyShape
<1>6. KeyShape'
  BY <1>2, <1>3, <1>4 DEF KeyInv, KeyShape
<1>7. KeysAtHand'
  BY <1>3, <1>4 DEF KeyInv, KeysAtHand
<1>8. ASSUME NEW k \in VaultKeys \ keyDisturbed', k # k0 PROVE Counted(k)'
  <2>1. ~KeyChanging(k, p) /\ ~KeyChanging(k, p)'
    BY <1>1, <1>4, <1>8 DEF KeyChanging
  <2>2. \A q \in KeyReplicas : KeyChanging(k, q)' <=> KeyChanging(k, q)
    BY <1>4, <2>1 DEF KeyChanging
  <2>3. Counted(k)
    BY <1>2, <1>8 DEF KeyInv
  <2> QED BY <1>2, <1>4, <1>5, <1>8, <2>1, <2>2, <2>3 DEF Counted
<1>9. ASSUME k0 \notin keyDisturbed' PROVE Counted(k0)'
  <2>1. k0 \notin keyDisturbed /\ ~(Cardinality(Rotating(k0)) > 1)
    BY <1>2, <1>9
  <2>2. ASSUME NEW q \in KeyReplicas, q # p, KeyChanging(k0, q) PROVE FALSE
    <3>1. p \in Rotating(k0) /\ q \in Rotating(k0)
      BY <1>1, <1>2, <2>2 DEF Rotating, KeyChanging
    <3>2. {p} \cup {q} \subseteq Rotating(k0) /\ Rotating(k0) \subseteq KeyReplicas
      BY <3>1 DEF Rotating
    <3>3. IsFiniteSet(Rotating(k0))
      BY <3>2, RotationAssumption, CountPart
    <3>4. Cardinality({p} \cup {q}) = 2
      <4>1. IsFiniteSet({p}) /\ Cardinality({p}) = 1 /\ q \notin {p}
        BY <2>2, FS_Singleton
      <4> QED BY <4>1, CountMore
    <3>5. 2 <= Cardinality(Rotating(k0)) /\ Cardinality(Rotating(k0)) \in Nat
      BY <3>2, <3>3, <3>4, CountPart
    <3> QED BY <2>1, <3>5
  <2>3. ~KeyChanging(k0, p) /\ KeyChanging(k0, p)'
    BY <1>1, <1>2, <1>4 DEF KeyChanging
  <2>4. \A q \in KeyReplicas \ {p} : ~KeyChanging(k0, q)'
    BY <1>4, <2>2 DEF KeyChanging
  <2>5. vaultKey[k0] = vaultMeta[k0].version
    BY <1>3, <2>1, <2>2, <2>3 DEF KeyInv, Counted
  <2> QED BY <1>2, <1>3, <1>4, <1>5, <2>3, <2>4, <2>5 DEF Counted
<1> QED BY <1>6, <1>7, <1>8, <1>9 DEF KeyInv

LEMMA RotatorReadsStep ==
  ASSUME KeyInv, NEW p \in KeyReplicas, RotatorReads(p)
  PROVE  KeyInv'
<1>1. PICK k0 : k0 = Head(rotator[p].due)
  OBVIOUS
<1>2. rotator[p].pc = "read" /\ vaultMeta' = vaultMeta /\ vaultKey' = vaultKey
  BY DEF RotatorReads
<1>3. k0 \in VaultKeys /\ rotator[p] \in Rotations /\ rotator[p].due # <<>>
  BY <1>1, <1>2, KeyOfProcess DEF KeyInv, KeysAtHand, RotatorSteps
<1>4. vaultMeta[k0].version \in Int
  BY <1>3 DEF KeyInv, KeyShape, MetaRecords
<1>5. PICK n \in Int :
        /\ rotator' = [rotator EXCEPT ![p] = VersionRead(rotator[p], n)]
        /\ \/ n = vaultMeta[k0].version /\ keyDisturbed' = keyDisturbed
           \/ keyDisturbed' = keyDisturbed \cup {k0}
  BY <1>1, <1>4 DEF RotatorReads
<1>6. rotator'[p] = VersionRead(rotator[p], n)
      /\ \A q \in KeyReplicas \ {p} : rotator'[q] = rotator[q]
  BY <1>5 DEF KeyInv, KeyShape
<1>7. /\ rotator'[p] \in Rotations /\ rotator'[p].pc = "meta"
      /\ rotator'[p].due = rotator[p].due /\ rotator'[p].seen = n
  <2>1. rotator[p] \in Rotations /\ n \in Int
    BY <1>3
  <2>2. rotator'[p] = VersionRead(rotator[p], n)
    BY <1>6
  <2> QED BY <2>1, <2>2, VersionReadRecord
<1>8. rotator' \in [KeyReplicas -> Rotations \cup {RotatorOff, RotatorIdle}]
  <2>1. rotator' = [rotator EXCEPT ![p] = rotator'[p]]
    BY <1>5, <1>6
  <2> QED BY <1>7, <2>1 DEF KeyInv, KeyShape
<1>9. KeyShape' /\ KeysAtHand'
  BY <1>2, <1>3, <1>5, <1>6, <1>7, <1>8 DEF KeyInv, KeyShape, KeysAtHand
<1>10. \A k \in VaultKeys, q \in KeyReplicas : KeyChanging(k, q)' <=> KeyChanging(k, q)
  BY <1>2, <1>6, <1>7 DEF KeyChanging
<1>11. ASSUME NEW k \in VaultKeys \ keyDisturbed' PROVE Counted(k)'
  <2>1. Counted(k) /\ (k = k0 => n = vaultMeta[k0].version)
    BY <1>5, <1>11 DEF KeyInv
  <2>2. KeyChanging(k, p) => k = k0
    BY <1>1 DEF KeyChanging
  <2> QED BY <1>2, <1>6, <1>7, <1>10, <2>1, <2>2 DEF Counted
<1> QED BY <1>9, <1>11 DEF KeyInv

LEMMA RotatorRecordsStep ==
  ASSUME KeyInv, NEW p \in KeyReplicas, RotatorRecords(p)
  PROVE  KeyInv'
<1>1. PICK k0 : k0 = Head(rotator[p].due)
  OBVIOUS
<1>2. /\ rotator[p].pc = "meta" /\ vaultKey' = vaultKey /\ keyDisturbed' = keyDisturbed
      /\ vaultMeta' = [vaultMeta EXCEPT ![k0] = [version |-> rotator[p].seen + 1,
                                                 fresh |-> TRUE]]
      /\ NextKey(p)
  BY <1>1 DEF RotatorRecords
<1>3. k0 \in VaultKeys /\ rotator[p] \in Rotations
  BY <1>1, <1>2, KeyOfProcess DEF RotatorSteps
<1>4. rotator[p].seen + 1 \in Int
  BY <1>3 DEF Rotations
<1>5. PICK rotation : Orderly(rotation) /\ rotator' = [rotator EXCEPT ![p] = rotation]
  BY <1>2, KeyPassedIsOrderly
<1>6. rotator'[p] = rotation /\ \A q \in KeyReplicas \ {p} : rotator'[q] = rotator[q]
  BY <1>5 DEF KeyInv, KeyShape
<1>7. /\ vaultMeta'[k0].version = rotator[p].seen + 1
      /\ \A k \in VaultKeys \ {k0} : vaultMeta'[k] = vaultMeta[k]
      /\ vaultMeta' \in [VaultKeys -> MetaRecords]
  BY <1>2, <1>3, <1>4 DEF KeyInv, KeyShape, MetaRecords
<1>8. KeyShape' /\ KeysAtHand'
  BY <1>2, <1>5, <1>6, <1>7 DEF KeyInv, KeyShape, KeysAtHand, Orderly
<1>9. \A k \in VaultKeys : ~KeyChanging(k, p)'
  BY <1>5, <1>6 DEF KeyChanging, Orderly
<1>10. ASSUME NEW k \in VaultKeys \ keyDisturbed' PROVE Counted(k)'
  <2>1. Counted(k)
    BY <1>2, <1>10 DEF KeyInv
  <2>2. \A q \in KeyReplicas \ {p} : KeyChanging(k, q)' <=> KeyChanging(k, q)
    BY <1>6 DEF KeyChanging
  <2>3. CASE k # k0
    <3>1. ~KeyChanging(k, p)
      BY <1>1, <2>3 DEF KeyChanging
    <3> QED BY <1>2, <1>6, <1>7, <1>9, <2>1, <2>2, <2>3, <3>1 DEF Counted
  <2>4. CASE k = k0
    <3>1. KeyChanging(k, p)
      BY <1>1, <1>2, <2>4 DEF KeyChanging
    <3>2. /\ \A q \in KeyReplicas \ {p} : ~KeyChanging(k, q)
          /\ vaultKey[k] = vaultMeta[k].version + 1
          /\ rotator[p].seen = vaultMeta[k].version
      BY <1>2, <2>1, <3>1 DEF Counted
    <3>3. vaultKey'[k] = vaultMeta'[k].version
      BY <1>2, <1>7, <2>4, <3>2
    <3>4. \A q \in KeyReplicas : ~KeyChanging(k, q)'
      BY <1>9, <2>2, <3>2
    <3> QED BY <3>3, <3>4 DEF Counted
  <2> QED BY <2>3, <2>4
<1> QED BY <1>8, <1>10 DEF KeyInv

LEMMA KeyProcessStep ==
  ASSUME KeyInv, NEW p \in KeyReplicas,
         BootFromVault(p) \/ KeyCrash(p) \/ RotatorLists(p) \/ RotationFails(p)
  PROVE  KeyInv'
<1>1. vaultKey' = vaultKey /\ vaultMeta' = vaultMeta
  BY DEF BootFromVault, KeyCrash, RotatorLists, RotationFails
<1>2. keyDisturbed \in SUBSET VaultKeys
  BY DEF KeyInv, KeyShape
<1>3. CASE BootFromVault(p)
  <2>1. /\ rotator' = [rotator EXCEPT ![p] = RotatorIdle]
        /\ keyDisturbed' = keyDisturbed /\ rotator[p].pc = "off"
    BY <1>3 DEF BootFromVault
  <2> QED BY <1>1, <1>2, <2>1, RotatorOffIsOrderly, KeyQuietStep DEF KeyChanging
<1>4. CASE KeyCrash(p)
  <2>1. /\ rotator' = [rotator EXCEPT ![p] = RotatorOff]
        /\ keyDisturbed' = keyDisturbed \cup {k \in VaultKeys : p \in Rotating(k)}
    BY <1>4 DEF KeyCrash
  <2>2. \A k \in VaultKeys \ keyDisturbed' : ~KeyChanging(k, p)
    BY <2>1 DEF KeyChanging, Rotating
  <2> QED BY <1>1, <1>2, <2>1, <2>2, RotatorOffIsOrderly, KeyQuietStep
<1>5. CASE RotatorLists(p)
  <2> DEFINE check == [pc |-> "check", todo |-> VaultOrder, due |-> <<>>, seen |-> 0]
  <2>1. /\ rotator' = [rotator EXCEPT ![p] = check]
        /\ keyDisturbed' = keyDisturbed /\ rotator[p].pc = "idle" /\ VaultKeys # {}
    BY <1>5 DEF RotatorLists
  <2>2. VaultOrder # <<>>
    BY <2>1 DEF VaultKeys, ToSet
  <2>3. <<>> \in Seq(VaultKeys)
    BY EmptySeq
  <2>4. Orderly(check)
    BY <2>2, <2>3, RotationAssumption DEF Orderly, Rotations, RotatorSteps
  <2> HIDE DEF check
  <2> QED BY <1>1, <1>2, <2>1, <2>4, KeyQuietStep DEF KeyChanging
<1>6. CASE RotationFails(p)
  <2>1. PICK k0 : k0 = Head(rotator[p].due)
    OBVIOUS
  <2>2. /\ rotator[p].pc \in {"write", "meta"} /\ NextKey(p)
        /\ keyDisturbed' = keyDisturbed \cup {k0}
    BY <1>6, <2>1 DEF RotationFails
  <2>3. k0 \in VaultKeys
    BY <2>1, <2>2, KeyOfProcess
  <2>4. PICK rotation : Orderly(rotation) /\ rotator' = [rotator EXCEPT ![p] = rotation]
    BY <2>2, KeyPassedIsOrderly
  <2>5. \A k \in VaultKeys \ keyDisturbed' : ~KeyChanging(k, p)
    BY <2>1, <2>2 DEF KeyChanging
  <2> QED BY <1>1, <1>2, <2>2, <2>3, <2>4, <2>5, KeyQuietStep
<1> QED BY <1>3, <1>4, <1>5, <1>6

LEMMA KeyInductive == KeyInv /\ [KeyNext]_keyVars => KeyInv'
<1> SUFFICES ASSUME KeyInv, [KeyNext]_keyVars PROVE KeyInv'
  OBVIOUS
<1>1. ASSUME vaultKey' = vaultKey, rotator' = rotator, keyDisturbed' = keyDisturbed,
             vaultMeta' \in [VaultKeys -> MetaRecords],
             \A k \in VaultKeys : vaultMeta'[k].version = vaultMeta[k].version
      PROVE  KeyInv'
  BY <1>1 DEF KeyInv, KeyShape, KeysAtHand, Counted, KeyChanging
<1>2. CASE PeriodPasses
  <2>1. vaultKey' = vaultKey /\ rotator' = rotator /\ keyDisturbed' = keyDisturbed
    BY <1>2 DEF PeriodPasses
  <2>2. vaultMeta' = [k \in VaultKeys |-> [version |-> vaultMeta[k].version, fresh |-> FALSE]]
    BY <1>2 DEF PeriodPasses
  <2>3. /\ vaultMeta' \in [VaultKeys -> MetaRecords]
        /\ \A k \in VaultKeys : vaultMeta'[k].version = vaultMeta[k].version
    BY <2>2 DEF KeyInv, KeyShape, MetaRecords
  <2> QED BY <1>1, <2>1, <2>3
<1>3. ASSUME NEW p \in KeyReplicas, RefreshSecrets(p) PROVE KeyInv'
  BY <1>1, <1>3 DEF RefreshSecrets, KeyInv, KeyShape
<1>4. CASE UNCHANGED keyVars
  BY <1>1, <1>4 DEF keyVars, KeyInv, KeyShape
<1> QED
  BY <1>2, <1>3, <1>4, KeyProcessStep, RotatorChecksStep, RotatorWritesStep,
     RotatorReadsStep, RotatorRecordsStep DEF KeyNext, RotatorStep

LEMMA KeyFirst == KeyInit => KeyInv
<1> SUFFICES ASSUME KeyInit PROVE KeyInv
  OBVIOUS
<1>1. \A p \in KeyReplicas : rotator[p] = RotatorOff
  BY DEF KeyInit
<1>2. KeyShape
  BY DEF KeyInit, KeyShape, MetaRecords
<1> QED BY <1>1, <1>2 DEF KeyInit, KeyInv, KeysAtHand, Counted, KeyChanging, RotatorOff

LEMMA KeyKeeps == KeyInv => RotationsCounted
BY DEF KeyInv, Counted, KeyChanging, RotationsCounted, Rotating

\* The version in the metadata is the number of values a secret has had, whenever no
\* rotation of it is under way, unless one of its calls failed or two processes
\* rotated it at once (keyRotation.ts:38-71, keyRotationScheduler.ts:72-109).
THEOREM RotationTheorem == KeySpec => []RotationsCounted
BY KeyFirst, KeyKeeps, KeyInductive, PTL DEF KeySpec

-----------------------------------------------------------------------------
(* Cross-chain deposits *)

Scans == [pc : {"check", "insert"}, logs : SUBSET Logs, latest : Int]

\* The part of the type invariant that the steps need.
CctShape ==
  /\ cctHead \in Int /\ cctBlock \in [Burns -> Int]
  /\ cctRow \in [Burns -> {"none", "pending", "attested"}]
  /\ cctLast \in [CctReplicas -> Int] /\ cctFirst \in [CctReplicas -> Int]
  /\ cctIndex \in [CctReplicas -> Scans \cup {IdleIndexer}]

\* No process is ahead of the chain, and a range never begins before its first block.
NotAhead ==
  /\ \A t \in Burns : cctBlock[t] <= cctHead
  /\ BatchDepth < cctHead
  /\ \A p \in CctReplicas :
       /\ cctLast[p] <= cctHead
       /\ cctIndex[p].pc # "idle" => 0 < cctIndex[p].latest /\ cctIndex[p].latest <= cctHead

\* A burn's log was indexed, or it failed.
Handled(t) == cctRow[t] # "none" \/ t \in cctRefused

\* Blocks of a range whose burns a process has dealt with, and of the one it is reading.
RangeRead(p) ==
  \A t \in Burns :
    cctLast[p] > 0 /\ cctBlock[t] \in cctFirst[p]..cctLast[p] => Handled(t)
CycleCovers(p) ==
  cctIndex[p].pc # "idle" =>
    \A t \in Burns :
      cctBlock[t] \in (IF cctLast[p] > 0 THEN cctLast[p] + 1 ELSE cctFirst[p])..cctIndex[p].latest
      => Handled(t) \/ \E log \in cctIndex[p].logs : log[1] = t

CctInv == /\ CctShape /\ NotAhead
          /\ \A p \in CctReplicas : RangeRead(p) /\ CycleCovers(p)

\* What is left of a cycle after a log, and a cycle about to insert it.
LEMMA WithoutRecord ==
  ASSUME NEW cycle \in Scans, NEW log
  PROVE  /\ Without(cycle, log) \in Scans /\ Without(cycle, log).pc = "check"
         /\ Without(cycle, log).logs = cycle.logs \ {log}
         /\ Without(cycle, log).latest = cycle.latest
BY DEF Scans, Without

LEMMA InsertRecord ==
  ASSUME NEW cycle \in Scans
  PROVE  /\ [cycle EXCEPT !.pc = "insert"] \in Scans
         /\ [cycle EXCEPT !.pc = "insert"].pc = "insert"
         /\ [cycle EXCEPT !.pc = "insert"].logs = cycle.logs
         /\ [cycle EXCEPT !.pc = "insert"].latest = cycle.latest
BY DEF Scans

LEMMA CycleOfProcess ==
  ASSUME CctInv, NEW p \in CctReplicas, cctIndex[p].pc # "idle"
  PROVE  cctIndex[p] \in Scans
BY DEF CctInv, CctShape, IdleIndexer

\* What becomes of rows and logs never makes a burn unhandled.
LEMMA CctRowsStep ==
  ASSUME CctInv, cctHead' = cctHead, cctBlock' = cctBlock, cctLast' = cctLast,
         cctFirst' = cctFirst, cctIndex' = cctIndex,
         cctRow' \in [Burns -> {"none", "pending", "attested"}],
         \A t \in Burns : Handled(t) => Handled(t)'
  PROVE  CctInv'
<1>1. CctShape' /\ NotAhead'
  BY DEF CctInv, CctShape, NotAhead
<1>2. ASSUME NEW p \in CctReplicas PROVE RangeRead(p)' /\ CycleCovers(p)'
  BY DEF CctInv, RangeRead, CycleCovers
<1> QED BY <1>1, <1>2 DEF CctInv

\* The end of a log that is handled, which may be the end of the cycle.
LEMMA LogDoneStep ==
  ASSUME CctInv, NEW p \in CctReplicas, cctIndex[p].pc # "idle",
         NEW log, NextOf(log, cctIndex[p].logs), LogDone(p, log),
         cctHead' = cctHead, cctBlock' = cctBlock, cctFirst' = cctFirst,
         cctRow' \in [Burns -> {"none", "pending", "attested"}],
         \A t \in Burns : Handled(t) => Handled(t)', Handled(log[1])'
  PROVE  CctInv'
<1>1. cctIndex[p] \in Scans
  BY CycleOfProcess
<1>2. cctIndex[p].latest \in Int /\ cctIndex[p].logs \subseteq Logs
  BY <1>1 DEF Scans
<1>3. CASE cctIndex[p].logs = {log}
  <2>1. /\ cctIndex' = [cctIndex EXCEPT ![p] = IdleIndexer]
        /\ cctLast' = [cctLast EXCEPT ![p] = cctIndex[p].latest]
    BY <1>3 DEF LogDone
  <2>2. /\ cctIndex'[p] = IdleIndexer /\ cctLast'[p] = cctIndex[p].latest
        /\ \A q \in CctReplicas \ {p} :
             cctIndex'[q] = cctIndex[q] /\ cctLast'[q] = cctLast[q]
    BY <2>1 DEF CctInv, CctShape
  <2>3. CctShape'
    BY <1>2, <2>1 DEF CctInv, CctShape
  <2>4. NotAhead'
    BY <2>2 DEF CctInv, NotAhead, IdleIndexer
  <2>5. RangeRead(p)'
    <3> SUFFICES ASSUME NEW t \in Burns, cctBlock[t] \in cctFirst[p]..cctIndex[p].latest
                 PROVE  Handled(t)'
      BY <2>2 DEF RangeRead
    <3>1. cctLast[p] \in Int /\ cctFirst[p] \in Int /\ cctBlock[t] \in Int
      BY DEF CctInv, CctShape
    <3>2. CASE cctLast[p] > 0 /\ cctBlock[t] <= cctLast[p]
      BY <3>1, <3>2 DEF CctInv, RangeRead
    <3>3. CASE ~(cctLast[p] > 0 /\ cctBlock[t] <= cctLast[p])
      <4>1. Handled(t) \/ \E l \in cctIndex[p].logs : l[1] = t
        BY <1>2, <3>1, <3>3 DEF CctInv, CycleCovers
      <4> QED BY <1>3, <4>1
    <3> QED BY <3>2, <3>3
  <2>6. CycleCovers(p)'
    BY <2>2 DEF CycleCovers, IdleIndexer
  <2>7. ASSUME NEW q \in CctReplicas \ {p} PROVE RangeRead(q)' /\ CycleCovers(q)'
    BY <2>2 DEF CctInv, RangeRead, CycleCovers
  <2> QED BY <2>3, <2>4, <2>5, <2>6, <2>7 DEF CctInv
<1>4. CASE cctIndex[p].logs # {log}
  <2>1. /\ cctIndex' = [cctIndex EXCEPT ![p] = Without(cctIndex[p], log)]
        /\ cctLast' = cctLast
    BY <1>4 DEF LogDone
  <2>2. /\ cctIndex'[p] = Without(cctIndex[p], log)
        /\ \A q \in CctReplicas \ {p} : cctIndex'[q] = cctIndex[q]
    BY <2>1 DEF CctInv, CctShape
  <2>3. /\ cctIndex'[p] \in Scans /\ cctIndex'[p].latest = cctIndex[p].latest
        /\ cctIndex'[p].logs = cctIndex[p].logs \ {log}
    BY <1>1, <2>2, WithoutRecord
  <2>4. CctShape'
    BY <1>1, <2>1, WithoutRecord DEF CctInv, CctShape
  <2>5. NotAhead'
    BY <2>1, <2>2, <2>3 DEF CctInv, NotAhead
  <2>6. CycleCovers(p)'
    BY <2>1, <2>3 DEF CctInv, CycleCovers
  <2>7. ASSUME NEW q \in CctReplicas \ {p} PROVE CycleCovers(q)'
    BY <2>1, <2>2 DEF CctInv, CycleCovers
  <2>8. ASSUME NEW q \in CctReplicas PROVE RangeRead(q)'
    BY <2>1 DEF CctInv, RangeRead
  <2> QED BY <2>4, <2>5, <2>6, <2>7, <2>8 DEF CctInv
<1> QED BY <1>3, <1>4

LEMMA IndexScansStep ==
  ASSUME CctInv, NEW p \in CctReplicas, IndexScans(p)
  PROVE  CctInv'
<1>1. PICK from \in Int : from = FromBlock(p)
  <2>1. cctHead \in Int /\ cctLast[p] \in Int
    BY DEF CctInv, CctShape
  <2>2. cctLast[p] + 1 \in Int /\ cctHead - BatchDepth \in Int
    BY <2>1, CrossChainAssumption
  <2>3. FromBlock(p) \in Int
    BY <2>2 DEF FromBlock
  <2> QED BY <2>3
<1>2. PICK logs \in SUBSET Logs : logs = LogsIn(from, cctHead)
  <2>1. LogsIn(from, cctHead) \subseteq Logs
    BY DEF LogsIn
  <2> QED BY <2>1
<1>3. /\ cctIndex[p].pc = "idle"
      /\ cctHead' = cctHead /\ cctBlock' = cctBlock /\ cctRow' = cctRow
      /\ cctRefused' = cctRefused
      /\ cctFirst' = [cctFirst EXCEPT ![p] = IF cctLast[p] > 0 THEN cctFirst[p] ELSE from]
      /\ \/ logs = {} /\ cctLast' = [cctLast EXCEPT ![p] = cctHead] /\ cctIndex' = cctIndex
         \/ /\ cctIndex' = [cctIndex EXCEPT ![p] =
                 [pc |-> "check", logs |-> logs, latest |-> cctHead]]
            /\ cctLast' = cctLast
  <2>1. cctIndex[p].pc = "idle"
    BY DEF IndexScans
  <2>2. /\ cctHead' = cctHead /\ cctBlock' = cctBlock /\ cctRow' = cctRow
        /\ cctRefused' = cctRefused
    BY DEF IndexScans, cctWorld
  <2>3. cctFirst' = [cctFirst EXCEPT ![p] = IF cctLast[p] > 0 THEN cctFirst[p] ELSE from]
    BY <1>1 DEF IndexScans
  <2>4. CASE logs = {}
    BY <1>1, <1>2, <2>1, <2>2, <2>3, <2>4 DEF IndexScans
  <2>5. CASE logs # {}
    <3>1. /\ cctIndex' = [cctIndex EXCEPT ![p] =
               [pc |-> "check", logs |-> logs, latest |-> cctHead]]
          /\ cctLast' = cctLast
      BY <1>1, <1>2, <2>5, Zenon DEF IndexScans
    <3> QED BY <2>1, <2>2, <2>3, <3>1, Zenon
  <2> QED BY <2>4, <2>5
<1>4. cctHead \in Int /\ cctLast[p] \in Int /\ cctFirst[p] \in Int
      /\ from = IF cctLast[p] > 0 THEN cctLast[p] + 1 ELSE cctHead - BatchDepth
  BY <1>1 DEF CctInv, CctShape, FromBlock
<1>5. /\ cctFirst'[p] = IF cctLast[p] > 0 THEN cctFirst[p] ELSE from
      /\ cctFirst' \in [CctReplicas -> Int]
      /\ \A q \in CctReplicas \ {p} : cctFirst'[q] = cctFirst[q]
  BY <1>3, <1>4 DEF CctInv, CctShape
<1>6. 0 < cctHead
  BY CrossChainAssumption, <1>4 DEF CctInv, NotAhead
<1>7. ASSUME NEW t \in Burns, cctBlock[t] \in from..cctHead
      PROVE  \E log \in logs : log[1] = t
  <2>1. <<t, 1>> \in LogsIn(from, cctHead)
    BY <1>7 DEF LogsIn, Logs
  <2> QED BY <1>2, <2>1
<1>8. \A t \in Burns : (Handled(t) <=> Handled(t)')
  BY <1>3 DEF Handled
<1>9. CASE logs = {} /\ cctLast' = [cctLast EXCEPT ![p] = cctHead] /\ cctIndex' = cctIndex
  <2>1. cctLast'[p] = cctHead /\ \A q \in CctReplicas \ {p} : cctLast'[q] = cctLast[q]
    BY <1>9 DEF CctInv, CctShape
  <2>2. CctShape'
    BY <1>3, <1>4, <1>5, <1>9 DEF CctInv, CctShape
  <2>3. NotAhead'
    BY <1>3, <1>4, <1>9, <2>1 DEF CctInv, NotAhead
  <2>4. RangeRead(p)'
    <3> SUFFICES ASSUME NEW t \in Burns, cctBlock[t] \in cctFirst'[p]..cctHead
                 PROVE  Handled(t)
      BY <1>3, <1>8, <2>1 DEF RangeRead
    <3>1. cctBlock[t] \in Int /\ ~(cctBlock[t] \in from..cctHead)
      BY <1>7, <1>9 DEF CctInv, CctShape
    <3>2. cctLast[p] > 0 /\ cctBlock[t] \in cctFirst[p]..cctLast[p]
      BY <1>4, <1>5, <3>1
    <3> QED BY <3>2 DEF CctInv, RangeRead
  <2>5. CycleCovers(p)'
    BY <1>3, <1>9 DEF CycleCovers
  <2>6. ASSUME NEW q \in CctReplicas \ {p} PROVE RangeRead(q)' /\ CycleCovers(q)'
    BY <1>3, <1>5, <1>8, <1>9, <2>1 DEF CctInv, RangeRead, CycleCovers
  <2> QED BY <2>2, <2>3, <2>4, <2>5, <2>6 DEF CctInv
<1>10. CASE /\ cctIndex' = [cctIndex EXCEPT ![p] =
                [pc |-> "check", logs |-> logs, latest |-> cctHead]]
            /\ cctLast' = cctLast
  <2> DEFINE cycle == [pc |-> "check", logs |-> logs, latest |-> cctHead]
  <2>1. cycle \in Scans /\ cycle.pc = "check" /\ cycle.logs = logs /\ cycle.latest = cctHead
    BY <1>4 DEF Scans
  <2>2. cctIndex' = [cctIndex EXCEPT ![p] = cycle]
    BY <1>10
  <2> HIDE DEF cycle
  <2>3. cctIndex'[p] = cycle /\ \A q \in CctReplicas \ {p} : cctIndex'[q] = cctIndex[q]
    BY <2>2 DEF CctInv, CctShape
  <2>4. CctShape'
    BY <1>3, <1>5, <1>10, <2>1, <2>2 DEF CctInv, CctShape
  <2>5. NotAhead'
    BY <1>3, <1>4, <1>6, <1>10, <2>1, <2>3 DEF CctInv, NotAhead
  <2>6. RangeRead(p)'
    BY <1>3, <1>5, <1>8, <1>10 DEF CctInv, RangeRead
  <2>7. CycleCovers(p)'
    BY <1>3, <1>4, <1>5, <1>7, <1>10, <2>1, <2>3 DEF CycleCovers
  <2>8. ASSUME NEW q \in CctReplicas \ {p} PROVE RangeRead(q)' /\ CycleCovers(q)'
    BY <1>3, <1>5, <1>8, <1>10, <2>3 DEF CctInv, RangeRead, CycleCovers
  <2> QED BY <2>4, <2>5, <2>6, <2>7, <2>8 DEF CctInv
<1> QED BY <1>3, <1>9, <1>10

LEMMA IndexChecksStep ==
  ASSUME CctInv, NEW p \in CctReplicas, IndexChecks(p)
  PROVE  CctInv'
<1>1. /\ cctIndex[p].pc = "check" /\ cctHead' = cctHead /\ cctBlock' = cctBlock
      /\ cctRow' = cctRow /\ cctRefused' = cctRefused /\ cctFirst' = cctFirst
  BY DEF IndexChecks, cctWorld
<1>2. cctRow' \in [Burns -> {"none", "pending", "attested"}]
  BY <1>1 DEF CctInv, CctShape
<1>3. \A t : Handled(t) => Handled(t)'
  BY <1>1 DEF Handled
<1>4. PICK log \in Logs :
        /\ NextOf(log, cctIndex[p].logs)
        /\ \/ cctRow[log[1]] # "none" /\ LogDone(p, log)
           \/ /\ cctIndex' = [cctIndex EXCEPT ![p] = [cctIndex[p] EXCEPT !.pc = "insert"]]
              /\ cctLast' = cctLast
  BY DEF IndexChecks
<1>5. CASE cctRow[log[1]] # "none" /\ LogDone(p, log)
  <2>1. Handled(log[1])'
    BY <1>1, <1>5 DEF Handled
  <2> QED BY <1>1, <1>2, <1>3, <1>4, <1>5, <2>1, LogDoneStep
<1>6. CASE /\ cctIndex' = [cctIndex EXCEPT ![p] = [cctIndex[p] EXCEPT !.pc = "insert"]]
           /\ cctLast' = cctLast
  <2>1. cctIndex[p] \in Scans
    BY <1>1, CycleOfProcess
  <2>2. /\ cctIndex'[p] = [cctIndex[p] EXCEPT !.pc = "insert"]
        /\ \A q \in CctReplicas \ {p} : cctIndex'[q] = cctIndex[q]
    BY <1>6 DEF CctInv, CctShape
  <2>3. /\ cctIndex'[p] \in Scans /\ cctIndex'[p].logs = cctIndex[p].logs
        /\ cctIndex'[p].latest = cctIndex[p].latest
    BY <2>1, <2>2, InsertRecord
  <2>4. CctShape'
    BY <1>1, <1>2, <1>6, <2>1, InsertRecord DEF CctInv, CctShape
  <2>5. NotAhead'
    BY <1>1, <1>6, <2>2, <2>3 DEF CctInv, NotAhead
  <2>6. ASSUME NEW q \in CctReplicas PROVE RangeRead(q)'
    BY <1>1, <1>3, <1>6 DEF CctInv, RangeRead
  <2>7. ASSUME NEW q \in CctReplicas \ {p} PROVE CycleCovers(q)'
    BY <1>1, <1>3, <1>6, <2>2 DEF CctInv, CycleCovers
  <2>8. CycleCovers(p)'
    BY <1>1, <1>3, <1>6, <2>3 DEF CctInv, CycleCovers
  <2> QED BY <2>4, <2>5, <2>6, <2>7, <2>8 DEF CctInv
<1> QED BY <1>4, <1>5, <1>6

LEMMA LogEndsStep ==
  ASSUME CctInv, NEW p \in CctReplicas, IndexInserts(p) \/ LogFails(p)
  PROVE  CctInv'
<1>1. PICK log \in Logs :
        /\ NextOf(log, cctIndex[p].logs) /\ LogDone(p, log)
        /\ \/ /\ cctRow' = [cctRow EXCEPT ![log[1]] = "pending"] /\ cctRefused' = cctRefused
           \/ /\ cctRefused' = cctRefused \cup {log[1]} /\ cctRow' = cctRow
  BY DEF IndexInserts, LogFails
<1>2. /\ cctIndex[p].pc # "idle"
      /\ cctHead' = cctHead /\ cctBlock' = cctBlock /\ cctFirst' = cctFirst
  BY DEF IndexInserts, LogFails, cctWorld
<1>3. log[1] \in Burns
  BY <1>1 DEF Logs
<1>4. /\ cctRow' \in [Burns -> {"none", "pending", "attested"}]
      /\ Handled(log[1])' /\ \A t \in Burns : Handled(t) => Handled(t)'
  BY <1>1, <1>3 DEF Handled, CctInv, CctShape
<1> QED BY <1>1, <1>2, <1>4, LogDoneStep

LEMMA CctInductive == CctInv /\ [CctNext]_cctVars => CctInv'
<1> SUFFICES ASSUME CctInv, [CctNext]_cctVars PROVE CctInv'
  OBVIOUS
<1>1. ASSUME NEW t \in Burns, MineBurn(t) PROVE CctInv'
  <2>1. /\ cctBlock[t] = 0 /\ cctHead' = cctHead + 1
        /\ cctBlock' = [cctBlock EXCEPT ![t] = cctHead + 1]
        /\ cctRow' = cctRow /\ cctLast' = cctLast /\ cctFirst' = cctFirst
        /\ cctIndex' = cctIndex /\ cctRefused' = cctRefused
    BY <1>1 DEF MineBurn
  <2>2. \A u \in Burns : (Handled(u) <=> Handled(u)')
    BY <2>1 DEF Handled
  <2>3. CctShape' /\ NotAhead'
    BY <2>1, CrossChainAssumption, CycleOfProcess DEF CctInv, CctShape, NotAhead, Scans
  <2>4. ASSUME NEW p \in CctReplicas PROVE RangeRead(p)'
    BY <2>1, <2>2 DEF CctInv, CctShape, NotAhead, RangeRead
  <2>5. ASSUME NEW p \in CctReplicas PROVE CycleCovers(p)'
    BY <2>1, <2>2, CycleOfProcess DEF CctInv, CctShape, NotAhead, CycleCovers, Scans
  <2> QED BY <2>3, <2>4, <2>5 DEF CctInv
<1>2. ASSUME NEW t \in Burns, CircleAttests(t) \/ RequestAttestation(t) PROVE CctInv'
  <2>1. /\ cctHead' = cctHead /\ cctBlock' = cctBlock /\ cctLast' = cctLast
        /\ cctFirst' = cctFirst /\ cctIndex' = cctIndex /\ cctRefused' = cctRefused
        /\ cctRow' = cctRow \/ cctRow' = [cctRow EXCEPT ![t] = "attested"]
    BY <1>2 DEF CircleAttests, RequestAttestation, cctWorld
  <2>2. /\ cctRow' \in [Burns -> {"none", "pending", "attested"}]
        /\ \A u \in Burns : Handled(u) => Handled(u)'
    BY <2>1 DEF Handled, CctInv, CctShape
  <2> QED BY <2>1, <2>2, CctRowsStep
<1>3. ASSUME NEW p \in CctReplicas, NEW t \in Burns, PollAsks(p, t) \/ PollFails(p, t)
      PROVE  CctInv'
  <2>1. /\ cctHead' = cctHead /\ cctBlock' = cctBlock /\ cctLast' = cctLast
        /\ cctFirst' = cctFirst /\ cctIndex' = cctIndex /\ cctRefused' = cctRefused
        /\ cctRow' = cctRow \/ cctRow' = [cctRow EXCEPT ![t] = "attested"]
    BY <1>3 DEF PollAsks, PollFails, cctWorld
  <2>2. /\ cctRow' \in [Burns -> {"none", "pending", "attested"}]
        /\ \A u \in Burns : Handled(u) => Handled(u)'
    BY <2>1 DEF Handled, CctInv, CctShape
  <2> QED BY <2>1, <2>2, CctRowsStep
<1>4. ASSUME NEW p \in CctReplicas, PollSelects(p) PROVE CctInv'
  <2>1. /\ cctHead' = cctHead /\ cctBlock' = cctBlock /\ cctLast' = cctLast
        /\ cctFirst' = cctFirst /\ cctIndex' = cctIndex /\ cctRefused' = cctRefused
        /\ cctRow' = cctRow
    BY <1>4 DEF PollSelects, cctWorld
  <2> QED BY <2>1, CctRowsStep DEF Handled, CctInv, CctShape
<1>5. CASE UNCHANGED cctVars
  BY <1>5, CctRowsStep DEF cctVars, Handled, CctInv, CctShape
<1>6. ASSUME NEW p \in CctReplicas, CctCrash(p) PROVE CctInv'
  <2>1. /\ cctHead' = cctHead /\ cctBlock' = cctBlock /\ cctRow' = cctRow
        /\ cctRefused' = cctRefused
        /\ cctLast' = [cctLast EXCEPT ![p] = 0] /\ cctFirst' = [cctFirst EXCEPT ![p] = 0]
        /\ cctIndex' = [cctIndex EXCEPT ![p] = IdleIndexer]
    BY <1>6 DEF CctCrash, cctWorld
  <2>2. /\ cctLast'[p] = 0 /\ cctIndex'[p] = IdleIndexer
        /\ \A q \in CctReplicas \ {p} : /\ cctLast'[q] = cctLast[q]
                                       /\ cctFirst'[q] = cctFirst[q]
                                       /\ cctIndex'[q] = cctIndex[q]
    BY <2>1 DEF CctInv, CctShape
  <2>3. CctShape'
    BY <2>1 DEF CctInv, CctShape
  <2>4. NotAhead'
    BY <2>1, <2>2, CrossChainAssumption DEF CctInv, CctShape, NotAhead, IdleIndexer
  <2>5. RangeRead(p)' /\ CycleCovers(p)'
    BY <2>2 DEF RangeRead, CycleCovers, IdleIndexer
  <2>6. ASSUME NEW q \in CctReplicas \ {p} PROVE RangeRead(q)' /\ CycleCovers(q)'
    BY <2>1, <2>2 DEF CctInv, RangeRead, CycleCovers, Handled
  <2> QED BY <2>3, <2>4, <2>5, <2>6 DEF CctInv
<1> QED
  BY <1>1, <1>2, <1>3, <1>4, <1>5, <1>6, IndexScansStep, IndexChecksStep, LogEndsStep
  DEF CctNext, IndexStep, PollStep

LEMMA CctFirst == CctInit => CctInv
BY CrossChainAssumption
DEF CctInit, CctInv, CctShape, NotAhead, RangeRead, CycleCovers, IdleIndexer

LEMMA CctKeeps == CctInv => RangeIndexed
BY DEF CctInv, RangeRead, Handled, RangeIndexed

\* No burn between the first and the last block a process counts as read is without
\* its row, unless its own log failed (cctpIndexer.ts:101-190).
THEOREM DepositsTheorem == CctSpec => []RangeIndexed
BY CctFirst, CctKeeps, CctInductive, PTL DEF CctSpec

-----------------------------------------------------------------------------
(* ReportScheduler *)

\* A process's run has a schedule in its batch; it has it before it, and the
\* report has been sent or has been given up.
Holds(rec, s) == rec.pc # "idle" /\ (rec.now = s \/ s \in rec.todo)
Closing(rec, s) == rec.pc \in {"record", "update"} /\ rec.now = s
Closed(s) == \E p \in ReportReplicas : Closing(repRun[p], s)

\* A schedule comes up once in a batch, and a report that was given up is known.
BatchesFine ==
  \A p \in ReportReplicas : repRun[p].pc # "idle" =>
    /\ repRun[p].now \notin repRun[p].todo
    /\ repRun[p].pc = "record" /\ ~repRun[p].sent => repRun[p].now \in repMissed

Regular == {s \in Schedules : s \notin repMissed \cup repCrossed /\ NightInMonth(s)}

\* A day of the week, or of a month, of the schedule.
DueDay(s, d) ==
  IF Frequency[s] = "weekly" THEN d % WeekDays = ReportDay[s]
  ELSE \E m \in 0..LastMonth - 1 : d = MonthStart[m] + ReportDay[s]
\* The schedule is due on one of its days, and no night later has come.
OnTime(s) ==
  /\ s \in repOn /\ DueDay(s, repDue[s]) /\ repDay <= repDue[s] + 1
\* One run at most has it, on the night after it is due; while none has, nobody
\* has looked that night.
OneReporter(s) ==
  /\ \A p, q \in ReportReplicas : Holds(repRun[p], s) /\ Holds(repRun[q], s) => p = q
  /\ (\E p \in ReportReplicas : Holds(repRun[p], s)) => repDay = repDue[s] + 1
  /\ repDay = repDue[s] + 1 =>
       \/ \E p \in ReportReplicas : Holds(repRun[p], s)
       \/ \A p \in ReportReplicas : repRan[p] < repDay
\* The last mail went the night after it was due, or a period before the next.
Spaced(s) ==
  /\ \A i \in 1..Len(repMailed[s]) - 1 : PeriodStart(s, repMailed[s][i + 1]) = repMailed[s][i]
  /\ Len(repMailed[s]) > 0 =>
       repMailed[s][Len(repMailed[s])] =
         IF Closed(s) THEN repDue[s] + 1 ELSE PeriodStart(s, repDue[s] + 1)
  /\ Closed(s) => Len(repMailed[s]) > 0
InStep(s) == OnTime(s) /\ OneReporter(s) /\ Spaced(s)

ReportInv == ReportTypeOK /\ BatchesFine /\ \A s \in Regular : InStep(s)

\* A product of a width and at least one is at least the width.
LEMMA ProductAtLeast == ASSUME NEW w \in Nat \ {0}, NEW e \in Int, e >= 1 PROVE w * e >= w
<1>1. PICK m \in Nat : m = e - 1
  OBVIOUS
<1>2. w * m \in Nat /\ w * e = w * m + w
  BY <1>1
<1> QED
  BY <1>2

\* Quotient and remainder, which are the only ones (%).
LEMMA RemainderIn == ASSUME NEW w \in Nat \ {0}, NEW a \in Int PROVE a % w \in 0..w - 1
  OBVIOUS

LEMMA RemainderOf ==
  ASSUME NEW w \in Nat \ {0}, NEW a \in Int
  PROVE  \E q \in Int : a = w * q + (a % w)
<1>1. a \div w \in Int
  OBVIOUS
<1>2. a = w * (a \div w) + (a % w)
  OBVIOUS
<1> QED
  BY <1>1, <1>2

LEMMA RemainderIs ==
  ASSUME NEW w \in Nat \ {0}, NEW a \in Int, NEW r \in 0..w - 1, \E k \in Int : a = w * k + r
  PROVE  a % w = r
<1>0. PICK k \in Int : a = w * k + r
  OBVIOUS
<1>1. PICK q \in Int : a = w * q + (a % w)
  BY RemainderOf
<1>2. PICK m \in 0..w - 1 : m = a % w
  BY RemainderIn
<1>3. w * (k - q) = m - r /\ w * (q - k) = r - m
  <2>1. PICK u \in Int : u = w * k
    BY <1>0
  <2>2. PICK v \in Int : v = w * q
    BY <1>1
  <2>3. u + r = v + m
    BY <1>0, <1>1, <1>2, <2>1, <2>2
  <2>4. w * (k - q) = u - v /\ w * (q - k) = v - u
    <3>1. w * (k - q) = w * k - w * q
      BY <1>0, <1>1
    <3>2. w * (q - k) = w * q - w * k
      BY <1>0, <1>1
    <3> QED
      BY <2>1, <2>2, <3>1, <3>2
  <2>5. u \in Int /\ v \in Int /\ m \in Int /\ r \in Int
    BY <1>2, <2>1, <2>2
  <2>6. u - v = m - r /\ v - u = r - m
    BY <2>3, <2>5
  <2> QED
    BY <2>4, <2>6
<1>4. ~(k - q >= 1)
  BY <1>0, <1>1, <1>2, <1>3, ProductAtLeast
<1>5. ~(q - k >= 1)
  BY <1>0, <1>1, <1>2, <1>3, ProductAtLeast
<1> QED
  BY <1>0, <1>1, <1>2, <1>4, <1>5

\* A day is in one month only.
LEMMA OneMonth ==
  ASSUME NEW m \in 0..LastMonth - 1, NEW d \in Nat, InMonth(d, m)
  PROVE  MonthOf(d) = m
<1>1. MonthOf(d) \in 0..LastMonth - 1 /\ InMonth(d, MonthOf(d))
  BY DEF MonthOf
<1>2. PICK n \in 0..LastMonth - 1 : n = MonthOf(d) /\ InMonth(d, n)
  BY <1>1
<1>3. LastMonth \in Nat /\ m + 1 \in 0..LastMonth /\ n + 1 \in 0..LastMonth
      /\ m \in 0..LastMonth /\ n \in 0..LastMonth
  BY CalendarAssumption
<1>4. \A x \in 0..LastMonth : MonthStart[x] \in Nat
  BY CalendarAssumption
<1>5. ~(m < n)
  <2> SUFFICES ASSUME m < n PROVE FALSE
    OBVIOUS
  <2>1. m + 1 = n \/ m + 1 < n
    OBVIOUS
  <2>2. MonthStart[m + 1] <= MonthStart[n]
    BY <1>3, <1>4, <2>1, CalendarAssumption
  <2> QED
    BY <1>2, <1>3, <1>4, <2>2 DEF InMonth
<1>6. ~(n < m)
  <2> SUFFICES ASSUME n < m PROVE FALSE
    OBVIOUS
  <2>1. n + 1 = m \/ n + 1 < m
    OBVIOUS
  <2>2. MonthStart[n + 1] <= MonthStart[m]
    BY <1>3, <1>4, <2>1, CalendarAssumption
  <2> QED
    BY <1>2, <1>3, <1>4, <2>2 DEF InMonth
<1> QED
  BY <1>2, <1>5, <1>6

LEMMA MonthsAhead == \A s \in Schedules : Months(s) \in 1..3
  BY DEF Months

\* calculateNextSendDate counts from a day on which the process can be.
LEMMA MonthOfDay ==
  ASSUME NEW d \in 0..LastDay
  PROVE  MonthOf(d) \in 0..LastMonth - 4 /\ InMonth(d, MonthOf(d)) /\ LastMonth \in Nat
<1>1. LastMonth \in Nat /\ \E m \in 0..LastMonth - 4 : InMonth(d, m)
  BY CalendarAssumption
<1>2. PICK m \in 0..LastMonth - 4 : InMonth(d, m)
  BY <1>1
<1>3. m \in 0..LastMonth - 1 /\ d \in Nat
  BY <1>1, <1>2
<1>4. MonthOf(d) = m
  BY <1>2, <1>3, OneMonth
<1> QED
  BY <1>1, <1>2, <1>4

\* The month a schedule goes on to, and the day in it.
LEMMA NextMonth ==
  ASSUME NEW s \in Schedules, NEW d \in 0..LastDay, Frequency[s] # "weekly"
  PROVE  /\ MonthOf(d) + Months(s) \in 0..LastMonth - 1
         /\ MonthStart[MonthOf(d) + Months(s)] \in Nat
         /\ NextSend(s, d) = MonthStart[MonthOf(d) + Months(s)] + ReportDay[s]
<1>1. MonthOf(d) \in 0..LastMonth - 4 /\ LastMonth \in Nat
  BY MonthOfDay
<1>2. Months(s) \in 1..3
  BY MonthsAhead
<1>3. MonthOf(d) + Months(s) \in 0..LastMonth - 1 /\ MonthOf(d) + Months(s) \in 0..LastMonth
  BY <1>1, <1>2
<1>4. NextSend(s, d) = MonthStart[MonthOf(d) + Months(s)] + ReportDay[s]
  BY DEF NextSend
<1> QED
  BY <1>3, <1>4, CalendarAssumption

\* calculateNextSendDate: a day.
LEMMA NextSendDay ==
  ASSUME NEW s \in Schedules, NEW d \in 0..LastDay
  PROVE  NextSend(s, d) \in Nat
<1>1. CASE Frequency[s] # "weekly"
  <2>1. ReportDay[s] \in Nat
    BY ReportAssumption
  <2> QED
    BY <1>1, <2>1, NextMonth
<1>2. CASE Frequency[s] = "weekly"
  <2>1. WeekDays \in Nat \ {0} /\ ReportDay[s] \in 0..WeekDays - 1 /\ d \in Nat
    BY <1>2, ReportAssumption
  <2>2. PICK m \in 0..WeekDays - 1 : m = d % WeekDays
    BY <2>1
  <2>3. PICK a \in Int : a = ReportDay[s] - m + WeekDays
    BY <2>1, <2>2
  <2>4. PICK diff \in 0..WeekDays - 1 : diff = a % WeekDays
    BY <2>1, <2>3, RemainderIn
  <2>5. NextSend(s, d) = d + (IF diff = 0 THEN WeekDays ELSE diff)
    BY <1>2, <2>2, <2>3, <2>4 DEF NextSend
  <2> QED
    BY <2>1, <2>4, <2>5
<1> QED
  BY <1>1, <1>2

\* Counted from the first day: weekly, and otherwise.
LEMMA NextSendFirstWeek ==
  ASSUME NEW s \in Schedules, Frequency[s] = "weekly"
  PROVE  NextSend(s, 0) % WeekDays = ReportDay[s]
<1>1. WeekDays \in Nat \ {0} /\ ReportDay[s] \in 0..WeekDays - 1
  BY ReportAssumption
<1>2. 0 % WeekDays = 0
  <2>1. 0 = WeekDays * 0 + 0 /\ 0 \in 0..WeekDays - 1
    BY <1>1
  <2> QED
    BY <1>1, <2>1, RemainderIs
<1>3. (ReportDay[s] - 0 + WeekDays) % WeekDays = ReportDay[s]
  <2>1. PICK a \in Int : a = ReportDay[s] - 0 + WeekDays
    BY <1>1
  <2>2. a = WeekDays * 1 + ReportDay[s]
    BY <1>1, <2>1
  <2>3. \E k \in Int : a = WeekDays * k + ReportDay[s]
    BY <2>2
  <2>4. a % WeekDays = ReportDay[s]
    BY <1>1, <2>1, <2>3, RemainderIs
  <2> QED
    BY <2>1, <2>4
<1>4. NextSend(s, 0) = IF ReportDay[s] = 0 THEN WeekDays ELSE ReportDay[s]
  BY <1>1, <1>2, <1>3 DEF NextSend
<1>5. CASE ReportDay[s] = 0
  <2>1. WeekDays = WeekDays * 1 + 0
    BY <1>1
  <2>2. WeekDays % WeekDays = 0
    BY <1>1, <1>5, <2>1, RemainderIs
  <2> QED
    BY <1>4, <1>5, <2>2
<1>6. CASE ReportDay[s] # 0
  <2>1. ReportDay[s] = WeekDays * 0 + ReportDay[s]
    BY <1>1
  <2>2. ReportDay[s] % WeekDays = ReportDay[s]
    BY <1>1, <2>1, RemainderIs
  <2> QED
    BY <1>4, <1>6, <2>2
<1> QED
  BY <1>5, <1>6

\* Counted from the night after one of its days, the next is a period later.
LEMMA NextWeek ==
  ASSUME NEW s \in Schedules, NEW d \in Nat, Frequency[s] = "weekly",
         d % WeekDays = ReportDay[s]
  PROVE  /\ NextSend(s, d + 1) = d + WeekDays
         /\ (d + WeekDays) % WeekDays = ReportDay[s]
<1>1. WeekDays \in Nat \ {0, 1} /\ ReportDay[s] \in 0..WeekDays - 1
  BY ReportAssumption
<1> DEFINE w == WeekDays
           r == ReportDay[s]
<1> HIDE DEF w, r
<1>2. w \in Nat \ {0, 1} /\ w \in Nat \ {0} /\ r \in 0..w - 1 /\ d % w = r
  BY <1>1 DEF w, r
<1>3. PICK q \in Int : d = w * q + r
  <2>1. PICK q \in Int : d = w * q + (d % w)
    <3>1. w \in Nat \ {0} /\ d \in Int
      BY <1>2
    <3> QED
      BY <3>1, RemainderOf
  <2> QED
    BY <1>2, <2>1
<1>4. (d + w) % w = r
  <2>1. PICK a \in Int : a = d + w
    BY <1>2
  <2>2. a = w * (q + 1) + r
    BY <1>2, <1>3, <2>1
  <2>3. a % w = r
    BY <1>2, <2>2, RemainderIs
  <2> QED
    BY <2>1, <2>3
<1>5. NextSend(s, d + 1) = d + w
  <2>1. CASE r + 1 < w
    <3>1. (d + 1) % w = r + 1
      <4>1. PICK a \in Int : a = d + 1
        BY <1>2
      <4>2. a = w * q + (r + 1) /\ r + 1 \in 0..w - 1
        BY <1>2, <1>3, <2>1, <4>1
      <4>3. a % w = r + 1
        BY <1>2, <4>2, RemainderIs
      <4> QED
        BY <4>1, <4>3
    <3>2. (r - (r + 1) + w) % w = w - 1
      <4>1. r - (r + 1) + w = w - 1 /\ w - 1 \in Int /\ w - 1 \in 0..w - 1 /\ w - 1 = w * 0 + (w - 1)
        BY <1>2
      <4>2. (w - 1) % w = w - 1
        BY <1>2, <4>1, RemainderIs
      <4> QED
        BY <4>1, <4>2
    <3>3. NextSend(s, d + 1) = d + 1 + (IF w - 1 = 0 THEN w ELSE w - 1)
      BY <3>1, <3>2 DEF NextSend, w, r
    <3> QED
      BY <1>2, <3>3
  <2>2. CASE r + 1 = w
    <3>1. (d + 1) % w = 0
      <4>1. PICK a \in Int : a = d + 1
        BY <1>2
      <4>2. a = w * (q + 1) + 0 /\ 0 \in 0..w - 1
        BY <1>2, <1>3, <2>2, <4>1
      <4>3. a % w = 0
        BY <1>2, <4>2, RemainderIs
      <4> QED
        BY <4>1, <4>3
    <3>2. (r - 0 + w) % w = w - 1
      <4>1. PICK a \in Int : a = r - 0 + w
        BY <1>2
      <4>2. a = w * 1 + r
        BY <1>2, <4>1
      <4>3. a % w = r
        BY <1>2, <4>2, RemainderIs
      <4> QED
        BY <1>2, <2>2, <4>1, <4>3
    <3>3. NextSend(s, d + 1) = d + 1 + (IF w - 1 = 0 THEN w ELSE w - 1)
      BY <3>1, <3>2 DEF NextSend, w, r
    <3> QED
      BY <1>2, <3>3
  <2> QED
    BY <1>2, <2>1, <2>2
<1> QED
  BY <1>4, <1>5 DEF w, r

LEMMA NextSendFirst ==
  ASSUME NEW s \in Schedules
  PROVE  DueDay(s, NextSend(s, 0))
<1>1. CASE Frequency[s] = "weekly"
  BY <1>1, NextSendFirstWeek DEF DueDay
<1>2. CASE Frequency[s] # "weekly"
  <2>1. 0 \in 0..LastDay
    BY ReportAssumption
  <2> QED
    BY <1>2, <2>1, NextMonth DEF DueDay
<1> QED
  BY <1>1, <1>2

\* Counted from the night after one of its days, the schedule goes on to another
\* of its days, and the report of the night after that one begins tonight.
LEMMA NextSendAgain ==
  ASSUME NEW s \in Schedules, NightInMonth(s), NEW d \in Nat, DueDay(s, d),
         d + 1 \in 0..LastDay, NEW next, next = NextSend(s, d + 1)
  PROVE  /\ next \in Nat /\ d + 1 < next /\ DueDay(s, next)
         /\ PeriodStart(s, next + 1) = d + 1
<1>1. CASE Frequency[s] = "weekly"
  <2>1. d % WeekDays = ReportDay[s] /\ WeekDays \in Nat \ {0, 1}
    BY <1>1, ReportAssumption DEF DueDay
  <2>2. next = d + WeekDays /\ (d + WeekDays) % WeekDays = ReportDay[s]
    BY <1>1, <2>1, NextWeek
  <2>3. DueDay(s, next)
    BY <1>1, <2>2 DEF DueDay
  <2>4. PeriodStart(s, next + 1) = d + 1
    <3>1. PICK e \in Nat : e = next + 1 /\ e - WeekDays = d + 1
      BY <2>1, <2>2
    <3>2. PeriodStart(s, e) = e - WeekDays
      BY <1>1 DEF PeriodStart
    <3> QED
      BY <3>1, <3>2
  <2> QED
    BY <2>1, <2>2, <2>3, <2>4
<1>2. CASE Frequency[s] # "weekly"
  <2>1. PICK m \in 0..LastMonth - 1 : d = MonthStart[m] + ReportDay[s]
    BY <1>2 DEF DueDay
  <2>2. PICK r \in Nat : r = ReportDay[s]
    BY ReportAssumption
  <2>3. PICK k \in 1..3 : k = Months(s)
    BY MonthsAhead
  <2>4. LastMonth \in Nat /\ \A n \in 0..LastMonth : MonthStart[n] \in Nat
    BY CalendarAssumption
  <2>5. \A n \in 0..LastMonth - 1 : InMonth(MonthStart[n] + r + 1, n)
    <3> SUFFICES ASSUME NEW n \in 0..LastMonth - 1
                 PROVE  InMonth(MonthStart[n] + r + 1, n)
      OBVIOUS
    <3>1. n \in 0..LastMonth /\ n + 1 \in 0..LastMonth
      BY <2>4
    <3>2. r + 1 < MonthStart[n + 1] - MonthStart[n]
      BY <1>2, <2>2 DEF NightInMonth, MonthDays
    <3> QED
      BY <2>4, <3>1, <3>2 DEF InMonth
  <2>6. MonthOf(d + 1) = m
    <3>1. d + 1 = MonthStart[m] + r + 1
      BY <2>1, <2>2
    <3> QED
      BY <2>5, <3>1, OneMonth
  <2>7. /\ m + k \in 0..LastMonth - 1 /\ next = MonthStart[m + k] + r
    BY <1>2, <2>2, <2>3, <2>6, NextMonth
  <2>8. PICK n \in 0..LastMonth - 1 : n = m + k /\ next = MonthStart[n] + r
    BY <2>7
  <2>9. next \in Nat /\ MonthStart[n] \in Nat /\ MonthStart[m] \in Nat
    BY <2>2, <2>4, <2>8
  <2>10. DueDay(s, next)
    BY <1>2, <2>2, <2>8 DEF DueDay
  <2>11. d + 1 < next
    <3>1. m + 1 \in 0..LastMonth /\ n \in 0..LastMonth /\ (m + 1 = n \/ m + 1 < n)
      BY <2>3, <2>4, <2>8
    <3>2. MonthStart[m + 1] \in Nat /\ MonthStart[m + 1] <= MonthStart[n]
      BY <2>4, <3>1, CalendarAssumption
    <3>3. d + 1 < MonthStart[m + 1]
      BY <2>1, <2>2, <2>5 DEF InMonth
    <3> QED
      BY <2>2, <2>8, <2>9, <3>2, <3>3
  <2>12. PeriodStart(s, next + 1) = d + 1
    <3>1. next + 1 = MonthStart[n] + r + 1 /\ next + 1 \in Nat
      BY <2>2, <2>8, <2>9
    <3>2. MonthOf(next + 1) = n
      BY <2>5, <3>1, OneMonth
    <3>3. n - k = m
      BY <2>3, <2>8
    <3>4. PICK e \in Nat : e = next + 1 /\ MonthOf(e) = n
      BY <3>1, <3>2
    <3>5. PeriodStart(s, e) = MonthStart[m] + (e - MonthStart[n])
      BY <1>2, <2>3, <3>3, <3>4 DEF PeriodStart
    <3> QED
      BY <2>1, <2>2, <2>9, <3>1, <3>4, <3>5
  <2> QED
    BY <2>9, <2>10, <2>11, <2>12
<1> QED
  BY <1>1, <1>2

\* A run that turns to a schedule, whose report goes out, or that is tried again.
LEMMA RunOfRecord ==
  ASSUME NEW s \in Schedules, NEW batch \in SUBSET Schedules
  PROVE  /\ RunOf(s, batch) \in ReportRuns /\ RunOf(s, batch).pc = "send"
         /\ RunOf(s, batch).now = s /\ RunOf(s, batch).todo = batch \ {s}
<1>1. 0 \in 0..MaxAttempts
  BY ReportAssumption
<1> QED
  BY <1>1 DEF RunOf, ReportRuns

LEMMA SentRecord ==
  ASSUME NEW rec \in ReportRuns
  PROVE  /\ Sent(rec) \in ReportRuns /\ Sent(rec).pc = "record"
         /\ Sent(rec).sent = TRUE
         /\ Sent(rec).now = rec.now /\ Sent(rec).todo = rec.todo
  BY DEF Sent, ReportRuns

LEMMA IdleHoldsNothing ==
  RunIdle.pc = "idle" /\ \A s \in Schedules : ~Holds(RunIdle, s) /\ ~Closing(RunIdle, s)
  BY DEF RunIdle, Holds, Closing

LEMMA RunOfProcess ==
  ASSUME ReportTypeOK, NEW p \in ReportReplicas
  PROVE  repRun[p].pc # "idle" => repRun[p] \in ReportRuns
  BY DEF ReportTypeOK, RunIdle

\* On to the next schedule: what is left of the batch stays, less the one it had.
LEMMA MovesOn ==
  ASSUME ReportTypeOK, NEW p \in ReportReplicas, repRun[p].pc # "idle", NextReport(p)
  PROVE  \E new \in ReportRuns \cup {RunIdle} :
           /\ repRun' = [repRun EXCEPT ![p] = new]
           /\ new.pc \in {"idle", "send"}
           /\ new.pc # "idle" => new.now \notin new.todo
           /\ \A s \in Schedules : Holds(new, s) <=> s \in repRun[p].todo
<1>1. repRun[p] \in ReportRuns
  BY RunOfProcess
<1>2. CASE repRun[p].todo = {} /\ repRun' = [repRun EXCEPT ![p] = RunIdle]
  BY <1>2, IdleHoldsNothing
<1>3. CASE \E s \in repRun[p].todo : repRun' = [repRun EXCEPT ![p] = RunOf(s, repRun[p].todo)]
  <2>1. PICK s \in repRun[p].todo : repRun' = [repRun EXCEPT ![p] = RunOf(s, repRun[p].todo)]
    BY <1>3
  <2>2. s \in Schedules /\ repRun[p].todo \in SUBSET Schedules
    BY <1>1, <2>1 DEF ReportRuns
  <2>3. PICK new \in ReportRuns : new = RunOf(s, repRun[p].todo)
    BY <2>2, RunOfRecord
  <2>4. new.pc = "send" /\ new.now = s /\ new.todo = repRun[p].todo \ {s}
    BY <2>2, <2>3, RunOfRecord
  <2> QED
    BY <2>1, <2>3, <2>4 DEF Holds
<1> QED
  BY <1>2, <1>3 DEF NextReport

\* A step of one run, of which a schedule notices nothing.
LEMMA RunGoesOn ==
  ASSUME ReportTypeOK, NEW p \in ReportReplicas, NEW new,
         repRun' = [repRun EXCEPT ![p] = new],
         NEW s \in Schedules, InStep(s), UNCHANGED <<repDay, repRan>>,
         repDue'[s] = repDue[s], repMailed'[s] = repMailed[s], s \in repOn',
         Holds(new, s) <=> Holds(repRun[p], s), Closing(new, s) <=> Closing(repRun[p], s)
  PROVE  InStep(s)'
<1>1. \A q \in ReportReplicas : repRun'[q] = IF q = p THEN new ELSE repRun[q]
  BY DEF ReportTypeOK
<1>2. \A q \in ReportReplicas : Holds(repRun'[q], s) <=> Holds(repRun[q], s)
  BY <1>1
<1>3. \A q \in ReportReplicas : Closing(repRun'[q], s) <=> Closing(repRun[q], s)
  BY <1>1
<1>4. Closed(s)' <=> Closed(s)
  BY <1>3 DEF Closed
<1>5. OnTime(s)'
  BY DEF InStep, OnTime
<1>6. OneReporter(s)'
  <2>1. OneReporter(s)
    BY DEF InStep
  <2>2. \A q1, q2 \in ReportReplicas : Holds(repRun'[q1], s) /\ Holds(repRun'[q2], s) => q1 = q2
    BY <1>2, <2>1 DEF OneReporter
  <2>3. (\E q \in ReportReplicas : Holds(repRun'[q], s))
           <=> (\E q \in ReportReplicas : Holds(repRun[q], s))
    BY <1>2
  <2> QED
    BY <2>1, <2>2, <2>3 DEF OneReporter
<1>7. Spaced(s)'
  BY <1>4 DEF InStep, Spaced
<1> QED
  BY <1>5, <1>6, <1>7 DEF InStep

LEMMA BatchesStep ==
  ASSUME ReportTypeOK, BatchesFine, NEW p \in ReportReplicas, NEW new,
         repRun' = [repRun EXCEPT ![p] = new], repMissed \subseteq repMissed',
         new.pc # "idle" => new.now \notin new.todo,
         new.pc = "record" /\ ~new.sent => new.now \in repMissed'
  PROVE  BatchesFine'
<1>1. \A q \in ReportReplicas : repRun'[q] = IF q = p THEN new ELSE repRun[q]
  BY DEF ReportTypeOK
<1> QED
  BY <1>1 DEF BatchesFine

LEMMA NightPassesStep == ReportInv /\ NightPasses => ReportInv'
<1> SUFFICES ASSUME ReportInv, NightPasses PROVE ReportInv'
  OBVIOUS
<1> USE DEF ReportInv
<1>1. ReportTypeOK'
  BY ReportAssumption DEF ReportTypeOK, NightPasses
<1>2. BatchesFine'
  BY DEF BatchesFine, NightPasses
<1>3. ASSUME NEW s \in Regular' PROVE InStep(s)'
  <2>1. s \in Schedules /\ OnTime(s) /\ OneReporter(s) /\ Spaced(s)
    BY <1>3 DEF NightPasses, Regular, InStep
  <2>2. \A p \in ReportReplicas : ~Holds(repRun[p], s) /\ repRan[p] = repDay
    BY DEF NightPasses, Holds
  <2>3. repDay \in Nat /\ repDue[s] \in Nat /\ repDay' = repDay + 1
    BY <2>1 DEF ReportTypeOK, NightPasses
  <2>4. repDay <= repDue[s]
    BY <2>1, <2>2, <2>3, ReportAssumption DEF OneReporter, OnTime
  <2>5. OnTime(s)'
    BY <2>1, <2>3, <2>4 DEF OnTime, NightPasses
  <2>6. OneReporter(s)'
    BY <2>2, <2>3 DEF OneReporter, NightPasses
  <2>7. Spaced(s)'
    BY <2>1 DEF Spaced, Closed, NightPasses
  <2> QED
    BY <2>5, <2>6, <2>7 DEF InStep
<1> QED
  BY <1>1, <1>2, <1>3

\* Nobody has a schedule on a night on which it is not overdue.
LEMMA NotYetDue ==
  ASSUME ReportTypeOK, NEW s \in Schedules, InStep(s)
  PROVE  /\ Overdue(s) <=> repDay = repDue[s] + 1
         /\ (\E p \in ReportReplicas : Holds(repRun[p], s)) => Overdue(s)
<1>1. repDay \in Nat /\ repDue[s] \in Nat
  BY DEF ReportTypeOK
<1> QED
  BY <1>1 DEF InStep, OnTime, OneReporter, Overdue

LEMMA RunStartsStep ==
  ASSUME ReportInv, NEW p \in ReportReplicas, ReportRunStarts(p)
  PROVE  ReportInv'
<1> USE DEF ReportInv
<1> DEFINE due == {s \in Schedules : Overdue(s)}
<1>1. PICK new \in ReportRuns \cup {RunIdle} :
        /\ repRun' = [repRun EXCEPT ![p] = new]
        /\ new.pc \in {"idle", "send"}
        /\ new.pc # "idle" => new.now \notin new.todo
        /\ \A s \in Schedules : Holds(new, s) <=> s \in due
  <2>1. CASE due = {} /\ UNCHANGED repRun
    <3>1. repRun[p] = RunIdle
      BY DEF ReportRunStarts, ReportTypeOK, ReportRuns
    <3>2. repRun' = [repRun EXCEPT ![p] = RunIdle]
      BY <2>1, <3>1 DEF ReportTypeOK
    <3> QED
      BY <2>1, <3>2, IdleHoldsNothing
  <2>2. CASE \E s \in due : repRun' = [repRun EXCEPT ![p] = RunOf(s, due)]
    <3>1. PICK s \in due : repRun' = [repRun EXCEPT ![p] = RunOf(s, due)]
      BY <2>2
    <3>2. s \in Schedules /\ due \in SUBSET Schedules
      BY <3>1
    <3> HIDE DEF due
    <3>3. PICK new \in ReportRuns : new = RunOf(s, due)
      BY <3>2, RunOfRecord
    <3>4. new.pc = "send" /\ new.now = s /\ new.todo = due \ {s}
      BY <3>2, <3>3, RunOfRecord
    <3> QED
      BY <3>1, <3>3, <3>4 DEF Holds
  <2> QED
    BY <2>1, <2>2 DEF ReportRunStarts
<1>2. repRun[p].pc = "idle" /\ repRan' = [repRan EXCEPT ![p] = repDay]
      /\ UNCHANGED <<repDay, repDue, repOn, repMailed, repRows, repMissed, repFaults>>
  BY DEF ReportRunStarts
<1>3. repCrossed' = repCrossed \cup {s \in due : AtWork(s) # {}}
  BY DEF ReportRunStarts
<1> HIDE DEF due
<1>4. repRun' \in [ReportReplicas -> ReportRuns \cup {RunIdle}]
      /\ \A q \in ReportReplicas : repRun'[q] = IF q = p THEN new ELSE repRun[q]
  BY <1>1 DEF ReportTypeOK
<1>5. ReportTypeOK'
  <2>1. repCrossed' \subseteq Schedules
    BY <1>3 DEF ReportTypeOK, due
  <2>2. repRan' \in [ReportReplicas -> 0..LastDay]
    BY <1>2 DEF ReportTypeOK
  <2> QED
    BY <1>2, <1>4, <2>1, <2>2 DEF ReportTypeOK
<1>6. BatchesFine'
  BY <1>1, <1>2, BatchesStep
<1>7. ASSUME NEW s \in Regular' PROVE InStep(s)'
  <2>1. s \in Schedules /\ InStep(s) /\ s \notin repCrossed'
    BY <1>2, <1>3, <1>7 DEF Regular
  <2>2. repDay \in Nat /\ repDue[s] \in Nat
    BY <2>1 DEF ReportTypeOK
  <2>3. \A q \in ReportReplicas : ~Holds(repRun[q], s)
    <3>1. CASE Overdue(s)
      <4>1. AtWork(s) = {}
        BY <1>3, <2>1, <3>1 DEF due
      <4>2. \A q \in ReportReplicas : repRun[q].pc # "idle" => s \notin Batch(q)
        BY <4>1 DEF AtWork
      <4> QED
        BY <4>2 DEF Holds, Batch, ReportOf
    <3>2. CASE ~Overdue(s)
      BY <2>1, <3>2, NotYetDue
    <3> QED
      BY <3>1, <3>2
  <2>4. \A q \in ReportReplicas : Holds(repRun'[q], s) <=> q = p /\ Overdue(s)
    BY <1>1, <1>4, <2>1, <2>3 DEF due
  <2>5. \A q \in ReportReplicas : Closing(repRun'[q], s) <=> Closing(repRun[q], s)
    BY <1>1, <1>2, <1>4 DEF Closing
  <2>6. Closed(s)' <=> Closed(s)
    BY <2>5 DEF Closed
  <2>7. OnTime(s)'
    BY <1>2, <2>1 DEF InStep, OnTime
  <2>8. OneReporter(s)'
    <3>1. Overdue(s) <=> repDay = repDue[s] + 1
      BY <2>1, NotYetDue
    <3> QED
      BY <1>2, <2>4, <3>1 DEF OneReporter
  <2>9. Spaced(s)'
    BY <1>2, <2>1, <2>6 DEF InStep, Spaced
  <2> QED
    BY <2>7, <2>8, <2>9 DEF InStep
<1> QED
  BY <1>5, <1>6, <1>7

LEMMA NightMissedStep ==
  ASSUME ReportInv, NEW p \in ReportReplicas, NightMissed(p)
  PROVE  ReportInv'
<1> USE DEF ReportInv
<1>1. /\ repRan' = [repRan EXCEPT ![p] = repDay]
      /\ repMissed' = repMissed \cup {s \in Schedules : Overdue(s)}
      /\ UNCHANGED <<repDay, repDue, repOn, repRun, repMailed, repRows, repCrossed>>
      /\ ReportFault
  BY DEF NightMissed
<1>2. ReportTypeOK'
  BY <1>1, ReportAssumption DEF ReportTypeOK, ReportFault
<1>3. BatchesFine'
  BY <1>1 DEF BatchesFine
<1>4. ASSUME NEW s \in Regular' PROVE InStep(s)'
  <2>1. s \in Schedules /\ InStep(s) /\ ~Overdue(s)
    BY <1>1, <1>4 DEF Regular
  <2>2. repDay # repDue[s] + 1
    BY <2>1, NotYetDue
  <2>3. OnTime(s)' /\ Spaced(s)'
    BY <1>1, <2>1 DEF InStep, OnTime, Spaced, Closed
  <2>4. OneReporter(s)'
    BY <1>1, <2>1, <2>2 DEF InStep, OneReporter
  <2> QED
    BY <2>3, <2>4 DEF InStep
<1> QED
  BY <1>2, <1>3, <1>4

LEMMA MailedStep ==
  ASSUME ReportInv, NEW p \in ReportReplicas, ReportMailed(p)
  PROVE  ReportInv'
<1> USE DEF ReportInv
<1>1. repRun[p] \in ReportRuns /\ repRun[p].pc = "send"
  BY RunOfProcess DEF ReportMailed
<1>2. PICK now \in Schedules : now = repRun[p].now
  BY <1>1 DEF ReportRuns
<1>3. PICK new \in ReportRuns : new = Sent(repRun[p])
  BY <1>1, SentRecord
<1>4. /\ new.pc = "record" /\ new.sent = TRUE
      /\ new.now = repRun[p].now /\ new.todo = repRun[p].todo
  BY <1>1, <1>3, SentRecord
<1>5. /\ repRun' = [repRun EXCEPT ![p] = new]
      /\ repMailed' = [repMailed EXCEPT ![now] = Append(repMailed[now], repDay)]
      /\ UNCHANGED <<repDay, repDue, repOn, repRan, repRows, repMissed, repCrossed, repFaults>>
  BY <1>2, <1>3 DEF ReportMailed, ReportOf
<1>6. ReportTypeOK'
  <2>1. repRun' \in [ReportReplicas -> ReportRuns \cup {RunIdle}]
    BY <1>3, <1>5 DEF ReportTypeOK
  <2>2. Append(repMailed[now], repDay) \in Seq(0..LastDay)
    BY <1>2 DEF ReportTypeOK
  <2>3. repMailed' \in [Schedules -> Seq(0..LastDay)]
    BY <1>2, <1>5, <2>2 DEF ReportTypeOK
  <2> QED
    BY <1>5, <2>1, <2>3 DEF ReportTypeOK
<1>7. BatchesFine'
  <2>1. new.now \notin new.todo
    BY <1>1, <1>4 DEF BatchesFine
  <2> QED
    BY <1>4, <1>5, <2>1, BatchesStep
<1>8. ASSUME NEW s \in Regular' PROVE InStep(s)'
  <2>1. s \in Schedules /\ InStep(s)
    BY <1>5, <1>8 DEF Regular
  <2>2. Holds(new, s) <=> Holds(repRun[p], s)
    BY <1>1, <1>4 DEF Holds
  <2>3. CASE s # now
    <3>1. ~Closing(new, s) /\ ~Closing(repRun[p], s)
      BY <1>2, <1>4, <2>3 DEF Closing
    <3>2. repMailed'[s] = repMailed[s] /\ s \in repOn'
      BY <1>5, <2>1, <2>3 DEF ReportTypeOK, InStep, OnTime
    <3> QED
      BY <1>5, <2>1, <2>2, <3>1, <3>2, RunGoesOn
  <2>4. CASE s = now
    <3>1. Holds(repRun[p], s) /\ Holds(new, s)
      BY <1>1, <1>2, <2>2, <2>4 DEF Holds
    <3>2. \A q \in ReportReplicas : Holds(repRun[q], s) => q = p
      BY <2>1, <3>1 DEF InStep, OneReporter
    <3>3. repDay = repDue[s] + 1
      BY <2>1, <3>1 DEF InStep, OneReporter
    <3>4. \A q \in ReportReplicas : repRun'[q] = IF q = p THEN new ELSE repRun[q]
      BY <1>5 DEF ReportTypeOK
    <3>5. \A q \in ReportReplicas : Holds(repRun'[q], s) <=> q = p
      BY <3>1, <3>2, <3>4
    <3>6. ~Closed(s)
      BY <1>1, <3>2 DEF Closed, Closing, Holds
    <3>7. Closed(s)'
      BY <1>2, <1>4, <2>4, <3>4 DEF Closed, Closing
    <3>8. OnTime(s)'
      BY <1>5, <2>1 DEF InStep, OnTime
    <3>9. OneReporter(s)'
      BY <1>5, <3>3, <3>5 DEF OneReporter
    <3>10. Spaced(s)'
      <4> DEFINE m == repMailed[s]
                 n == repMailed'[s]
      <4>1. repMailed[s] \in Seq(0..LastDay) /\ repDay \in Nat /\ repDue[s] \in Nat
        BY <2>1, ReportAssumption DEF ReportTypeOK
      <4>2. n = Append(m, repDay)
        BY <1>5, <2>1, <2>4 DEF ReportTypeOK
      <4>3. /\ \A i \in 1..Len(m) - 1 : PeriodStart(s, m[i + 1]) = m[i]
            /\ Len(m) > 0 => m[Len(m)] = PeriodStart(s, repDue[s] + 1)
        BY <2>1, <3>6 DEF InStep, Spaced
      <4> HIDE DEF m, n
      <4>4. m \in Seq(0..LastDay)
        BY <4>1 DEF m
      <4>5. Len(n) = Len(m) + 1 /\ n[Len(m) + 1] = repDay /\ Len(m) \in Nat
        BY <4>1, <4>2, <4>4
      <4>6. \A i \in 1..Len(m) : n[i] = m[i]
        BY <4>1, <4>2, <4>4
      <4>8. ASSUME NEW i \in 1..Len(n) - 1 PROVE PeriodStart(s, n[i + 1]) = n[i]
        <5>1. CASE i < Len(m)
          <6>1. i \in 1..Len(m) - 1 /\ i \in 1..Len(m) /\ i + 1 \in 1..Len(m)
            BY <4>5, <5>1
          <6> QED
            BY <4>3, <4>6, <6>1
        <5>2. CASE i = Len(m)
          <6>1. Len(m) > 0 /\ i \in 1..Len(m)
            BY <4>5, <5>2
          <6>2. n[i] = PeriodStart(s, repDue[s] + 1) /\ n[i + 1] = repDue[s] + 1
            BY <3>3, <4>3, <4>5, <4>6, <5>2, <6>1
          <6> QED
            BY <4>1, <6>2
        <5> QED
          BY <4>5, <5>1, <5>2
      <4>9. Len(n) > 0 /\ n[Len(n)] = repDue'[s] + 1
        BY <1>5, <3>3, <4>5
      <4> QED
        BY <3>7, <4>8, <4>9 DEF Spaced, n
    <3> QED
      BY <3>8, <3>9, <3>10 DEF InStep
  <2> QED
    BY <2>3, <2>4
<1> QED
  BY <1>6, <1>7, <1>8

\* A step of one run whose schedules, but those it gives up, notice nothing.
LEMMA QuietRunStep ==
  ASSUME ReportInv, NEW p \in ReportReplicas, NEW new \in ReportRuns \cup {RunIdle},
         repRun' = [repRun EXCEPT ![p] = new],
         UNCHANGED <<repDay, repDue, repOn, repRan, repMailed, repCrossed>>,
         repMissed \subseteq repMissed', repMissed' \subseteq Schedules,
         repRows' \in [Schedules -> Nat], repFaults' \in 0..MaxReportFaults,
         new.pc # "idle" => new.now \notin new.todo,
         new.pc = "record" /\ ~new.sent => new.now \in repMissed',
         \A s \in Schedules \ repMissed' :
           /\ Holds(new, s) <=> Holds(repRun[p], s)
           /\ Closing(new, s) <=> Closing(repRun[p], s)
  PROVE  ReportInv'
<1> USE DEF ReportInv
<1>1. ReportTypeOK'
  <2>1. repRun' \in [ReportReplicas -> ReportRuns \cup {RunIdle}]
    BY DEF ReportTypeOK
  <2> QED
    BY <2>1 DEF ReportTypeOK
<1>2. BatchesFine'
  BY BatchesStep
<1>3. ASSUME NEW s \in Regular' PROVE InStep(s)'
  <2>1. s \in Schedules /\ InStep(s) /\ s \notin repMissed'
    BY <1>3 DEF Regular
  <2>2. /\ Holds(new, s) <=> Holds(repRun[p], s)
        /\ Closing(new, s) <=> Closing(repRun[p], s)
    BY <2>1
  <2>3. repDue'[s] = repDue[s] /\ repMailed'[s] = repMailed[s] /\ s \in repOn'
    BY <2>1 DEF InStep, OnTime
  <2> QED
    BY <2>1, <2>2, <2>3, RunGoesOn
<1> QED
  BY <1>1, <1>2, <1>3

LEMMA FaultCounted == ReportTypeOK /\ ReportFault => repFaults' \in 0..MaxReportFaults
  BY ReportAssumption DEF ReportTypeOK, ReportFault

LEMMA MailFailsStep ==
  ASSUME ReportInv, NEW p \in ReportReplicas, MailFails(p)
  PROVE  ReportInv'
<1>1. repRun[p] \in ReportRuns /\ repRun[p].pc = "send" /\ ReportTypeOK /\ BatchesFine
  BY RunOfProcess DEF MailFails, ReportInv
<1>2. /\ UNCHANGED <<repDay, repDue, repOn, repRan, repMailed, repRows, repCrossed>>
      /\ repFaults' \in 0..MaxReportFaults
  BY <1>1, FaultCounted DEF MailFails
<1>3. repRun[p].now \notin repRun[p].todo /\ repRun[p].now \in Schedules
  BY <1>1 DEF BatchesFine, ReportRuns
<1>4. CASE /\ repRun[p].tries + 1 < MaxAttempts
           /\ repRun' = [repRun EXCEPT ![p].tries = @ + 1]
           /\ UNCHANGED repMissed
  <2>1. repRun[p].tries + 1 \in 0..MaxAttempts
    BY <1>1, <1>4, ReportAssumption DEF ReportRuns
  <2>2. PICK new : new = [repRun[p] EXCEPT !.tries = repRun[p].tries + 1]
    OBVIOUS
  <2>3. new \in ReportRuns /\ new.pc = "send" /\ new.now = repRun[p].now
        /\ new.todo = repRun[p].todo
    BY <1>1, <2>1, <2>2 DEF ReportRuns
  <2>4. repRun' = [repRun EXCEPT ![p] = new]
    BY <1>4, <2>2
  <2>5. \A s \in Schedules : (Holds(new, s) <=> Holds(repRun[p], s))
                           /\ (Closing(new, s) <=> Closing(repRun[p], s))
    BY <1>1, <2>3 DEF Holds, Closing
  <2>6. repMissed' \subseteq Schedules /\ repRows' \in [Schedules -> Nat]
    BY <1>1, <1>2, <1>4 DEF ReportTypeOK
  <2> QED
    BY <1>2, <1>3, <1>4, <2>3, <2>4, <2>5, <2>6, QuietRunStep
<1>5. CASE /\ repRun' = [repRun EXCEPT ![p].pc = "record"]
           /\ repMissed' = repMissed \cup {ReportOf(p)}
  <2>1. PICK new : new = [repRun[p] EXCEPT !.pc = "record"]
    OBVIOUS
  <2>2. new \in ReportRuns /\ new.pc = "record" /\ new.now = repRun[p].now
        /\ new.todo = repRun[p].todo
    BY <1>1, <2>1 DEF ReportRuns
  <2>3. repRun' = [repRun EXCEPT ![p] = new]
    BY <1>5, <2>1
  <2>4. new.now \in repMissed' /\ repMissed \subseteq repMissed'
    BY <1>5, <2>2 DEF ReportOf
  <2>5. \A s \in Schedules \ repMissed' : (Holds(new, s) <=> Holds(repRun[p], s))
                           /\ (Closing(new, s) <=> Closing(repRun[p], s))
    BY <1>1, <2>2, <2>4 DEF Holds, Closing
  <2>6. repMissed' \subseteq Schedules /\ repRows' \in [Schedules -> Nat]
    BY <1>1, <1>2, <1>3, <1>5 DEF ReportTypeOK, ReportOf
  <2> QED
    BY <1>2, <1>3, <2>2, <2>3, <2>4, <2>5, <2>6, QuietRunStep
<1> QED
  BY <1>4, <1>5 DEF MailFails

\* Before or after its last schedule, a run holds what is to come.
LEMMA HoldsBatch ==
  ASSUME ReportTypeOK, NEW p \in ReportReplicas, repRun[p].pc # "idle",
         NEW s \in Schedules, s # repRun[p].now
  PROVE  (Holds(repRun[p], s) <=> s \in repRun[p].todo) /\ ~Closing(repRun[p], s)
  BY DEF Holds, Closing

\* A run that gives its report up, or has, goes on to the next.
LEMMA GivenUpStep ==
  ASSUME ReportInv, NEW p \in ReportReplicas, repRun[p].pc # "idle", NextReport(p),
         UNCHANGED <<repDay, repDue, repOn, repRan, repMailed, repCrossed>>,
         repMissed' = repMissed \cup {repRun[p].now},
         repRows' \in [Schedules -> Nat], repFaults' \in 0..MaxReportFaults
  PROVE  ReportInv'
<1>1. repRun[p] \in ReportRuns /\ ReportTypeOK
  BY RunOfProcess DEF ReportInv
<1>2. PICK new \in ReportRuns \cup {RunIdle} :
        /\ repRun' = [repRun EXCEPT ![p] = new]
        /\ new.pc \in {"idle", "send"}
        /\ new.pc # "idle" => new.now \notin new.todo
        /\ \A s \in Schedules : Holds(new, s) <=> s \in repRun[p].todo
  BY <1>1, MovesOn
<1>3. \A s \in Schedules \ repMissed' : (Holds(new, s) <=> Holds(repRun[p], s))
                           /\ (Closing(new, s) <=> Closing(repRun[p], s))
  <2> TAKE s \in Schedules \ repMissed'
  <2>1. (Holds(repRun[p], s) <=> s \in repRun[p].todo) /\ ~Closing(repRun[p], s)
    BY <1>1, HoldsBatch
  <2>2. ~Closing(new, s)
    BY <1>2 DEF Closing
  <2> QED
    BY <1>2, <2>1, <2>2
<1>4. repMissed' \subseteq Schedules
  BY <1>1 DEF ReportTypeOK, ReportRuns
<1> QED
  BY <1>2, <1>3, <1>4, QuietRunStep

LEMMA RecordedStep ==
  ASSUME ReportInv, NEW p \in ReportReplicas, ReportRecorded(p)
  PROVE  ReportInv'
<1>1. /\ repRun[p] \in ReportRuns /\ repRun[p].pc = "record"
      /\ ReportTypeOK /\ BatchesFine
  BY RunOfProcess DEF ReportRecorded, ReportInv
<1>2. /\ UNCHANGED <<repDay, repDue, repOn, repRan, repMailed, repMissed, repCrossed>>
      /\ repRows' \in [Schedules -> Nat] /\ repFaults' \in 0..MaxReportFaults
  <2>1. UNCHANGED <<repDay, repDue, repOn, repRan, repMailed, repMissed, repCrossed>>
    BY DEF ReportRecorded
  <2>2. CASE repRows' = [repRows EXCEPT ![ReportOf(p)] = @ + 1] /\ UNCHANGED repFaults
    <3>1. PICK now \in Schedules : now = ReportOf(p)
      BY <1>1 DEF ReportRuns, ReportOf
    <3>2. repRows[now] + 1 \in Nat
      BY <1>1, <3>1 DEF ReportTypeOK
    <3>3. repRows' = [repRows EXCEPT ![now] = repRows[now] + 1]
      BY <2>2, <3>1
    <3>4. repRows \in [Schedules -> Nat] /\ repFaults' \in 0..MaxReportFaults
      BY <1>1, <2>2 DEF ReportTypeOK
    <3>5. repRows' \in [Schedules -> Nat]
      BY <3>1, <3>2, <3>3, <3>4
    <3> QED
      BY <2>1, <3>4, <3>5
  <2>3. CASE ReportFault /\ UNCHANGED repRows
    BY <1>1, <2>1, <2>3, FaultCounted DEF ReportTypeOK
  <2> QED
    BY <2>1, <2>2, <2>3 DEF ReportRecorded
<1>3. repRun[p].now \notin repRun[p].todo /\ repRun[p].now \in Schedules
  BY <1>1 DEF BatchesFine, ReportRuns
<1>4. repMissed' \subseteq Schedules
  BY <1>1, <1>2 DEF ReportTypeOK
<1>5. CASE repRun[p].sent
  <2>1. PICK new : new = [repRun[p] EXCEPT !.pc = "update"]
    OBVIOUS
  <2>2. new \in ReportRuns /\ new.pc = "update" /\ new.now = repRun[p].now
        /\ new.todo = repRun[p].todo
    BY <1>1, <2>1 DEF ReportRuns
  <2>3. repRun' = [repRun EXCEPT ![p] = new]
    BY <1>5, <2>1 DEF ReportRecorded
  <2>4. \A s \in Schedules : (Holds(new, s) <=> Holds(repRun[p], s))
                           /\ (Closing(new, s) <=> Closing(repRun[p], s))
    BY <1>1, <2>2 DEF Holds, Closing
  <2> QED
    BY <1>2, <1>3, <1>4, <2>2, <2>3, <2>4, QuietRunStep
<1>6. CASE ~repRun[p].sent
  <2>1. NextReport(p)
    BY <1>6 DEF ReportRecorded
  <2>2. repRun[p].now \in repMissed
    BY <1>1, <1>6 DEF BatchesFine
  <2>3. repMissed' = repMissed \cup {repRun[p].now}
    BY <1>2, <2>2
  <2> QED
    BY <1>1, <1>2, <2>1, <2>3, GivenUpStep
<1> QED
  BY <1>5, <1>6

LEMMA ReportFailsStep ==
  ASSUME ReportInv, NEW p \in ReportReplicas, ReportFails(p)
  PROVE  ReportInv'
<1>1. repRun[p] \in ReportRuns /\ repRun[p].pc # "idle" /\ ReportTypeOK
  BY RunOfProcess DEF ReportFails, ReportInv
<1>2. /\ UNCHANGED <<repDay, repDue, repOn, repRan, repMailed, repRows, repCrossed>>
      /\ repFaults' \in 0..MaxReportFaults
  BY <1>1, FaultCounted DEF ReportFails
<1>3. repRows' \in [Schedules -> Nat]
  BY <1>1, <1>2 DEF ReportTypeOK
<1>4. CASE NextReport(p) /\ repMissed' = repMissed \cup {ReportOf(p)}
  BY <1>1, <1>2, <1>3, <1>4, GivenUpStep DEF ReportOf
<1>5. CASE repRun' = [repRun EXCEPT ![p] = RunIdle] /\ repMissed' = repMissed \cup Batch(p)
  <2>1. repMissed' \subseteq Schedules /\ repMissed \subseteq repMissed'
    BY <1>1, <1>5 DEF ReportTypeOK, Batch, ReportOf, ReportRuns
  <2>2. \A s \in Schedules \ repMissed' : ~Holds(repRun[p], s) /\ ~Closing(repRun[p], s)
    BY <1>5 DEF Holds, Closing, Batch, ReportOf
  <2>3. \A s \in Schedules \ repMissed' : (Holds(RunIdle, s) <=> Holds(repRun[p], s))
                           /\ (Closing(RunIdle, s) <=> Closing(repRun[p], s))
    BY <2>2, IdleHoldsNothing
  <2>4. RunIdle.pc = "idle"
    BY IdleHoldsNothing
  <2> QED
    BY <1>2, <1>3, <1>5, <2>1, <2>3, <2>4, QuietRunStep
<1> QED
  BY <1>4, <1>5 DEF ReportFails

LEMMA UpdatedStep ==
  ASSUME ReportInv, NEW p \in ReportReplicas, ReportUpdated(p)
  PROVE  ReportInv'
<1>1. /\ repRun[p] \in ReportRuns /\ repRun[p].pc = "update"
      /\ ReportTypeOK /\ BatchesFine
  BY RunOfProcess DEF ReportUpdated, ReportInv
<1>2. PICK new \in ReportRuns \cup {RunIdle} :
        /\ repRun' = [repRun EXCEPT ![p] = new]
        /\ new.pc \in {"idle", "send"}
        /\ new.pc # "idle" => new.now \notin new.todo
        /\ \A s \in Schedules : Holds(new, s) <=> s \in repRun[p].todo
  BY <1>1, MovesOn DEF ReportUpdated
<1>3. PICK now \in Schedules : now = repRun[p].now
  BY <1>1 DEF ReportRuns
<1>4. now \notin repRun[p].todo
  BY <1>1, <1>3 DEF BatchesFine
<1>5. PICK next : next = NextSend(now, repDay)
  OBVIOUS
<1>6. /\ repDue' = [repDue EXCEPT ![now] = next]
      /\ UNCHANGED <<repDay, repOn, repRan, repMailed, repRows, repMissed, repCrossed, repFaults>>
  BY <1>3, <1>5 DEF ReportUpdated, ReportOf
<1>7. ReportTypeOK'
  <2>1. repDay \in 0..LastDay
    BY <1>1 DEF ReportTypeOK
  <2>2. next \in Nat
    BY <1>5, <2>1, NextSendDay
  <2>4. repDue' \in [Schedules -> Nat]
    BY <1>1, <1>6, <2>2 DEF ReportTypeOK
  <2>5. repRun' \in [ReportReplicas -> ReportRuns \cup {RunIdle}]
    BY <1>1, <1>2 DEF ReportTypeOK
  <2> QED
    BY <1>1, <1>6, <2>4, <2>5 DEF ReportTypeOK
<1>8. BatchesFine'
  BY <1>1, <1>2, <1>6, BatchesStep
<1>9. ASSUME NEW s \in Regular' PROVE InStep(s)'
  <2>1. s \in Schedules /\ InStep(s)
    BY <1>6, <1>9 DEF Regular, ReportInv
  <2>2. ~Closing(new, s)
    BY <1>2 DEF Closing
  <2>3. CASE s # now
    <3>1. (Holds(repRun[p], s) <=> s \in repRun[p].todo) /\ ~Closing(repRun[p], s)
      BY <1>1, <1>3, <2>1, <2>3, HoldsBatch
    <3>2. repDue'[s] = repDue[s] /\ s \in repOn' /\ repMailed'[s] = repMailed[s]
      BY <1>1, <1>6, <2>1, <2>3 DEF ReportTypeOK, InStep, OnTime
    <3>3. Holds(new, s) <=> Holds(repRun[p], s)
      BY <1>2, <2>1, <3>1
    <3>4. UNCHANGED <<repDay, repRan>>
      BY <1>6
    <3> QED
      BY <1>1, <1>2, <2>1, <2>2, <3>1, <3>2, <3>3, <3>4, RunGoesOn
  <2>4. CASE s = now
    <3>1. Holds(repRun[p], s) /\ Closing(repRun[p], s) /\ ~Holds(new, s)
      BY <1>1, <1>2, <1>3, <1>4, <2>4 DEF Holds, Closing
    <3>2. /\ \A q \in ReportReplicas : Holds(repRun[q], s) => q = p
          /\ repDay = repDue[s] + 1
      BY <2>1, <3>1 DEF InStep, OneReporter
    <3>3. \A q \in ReportReplicas : repRun'[q] = IF q = p THEN new ELSE repRun[q]
      BY <1>1, <1>2 DEF ReportTypeOK
    <3>4. \A q \in ReportReplicas : ~Holds(repRun'[q], s)
      BY <3>1, <3>2, <3>3
    <3>5. Closed(s) /\ ~Closed(s)'
      BY <3>1, <3>4 DEF Closed, Closing, Holds
    <3>6. repDue[s] \in Nat /\ repDue[s] + 1 \in 0..LastDay
      BY <1>1, <2>1, <3>2 DEF ReportTypeOK
    <3>7. DueDay(s, repDue[s]) /\ NightInMonth(s)
      BY <1>9, <2>1 DEF InStep, OnTime, Regular
    <3>8. /\ next \in Nat /\ repDue[s] + 1 < next /\ DueDay(s, next)
          /\ PeriodStart(s, next + 1) = repDue[s] + 1
      BY <1>5, <2>1, <2>4, <3>2, <3>6, <3>7, NextSendAgain
    <3>9. repDue'[s] = next
      BY <1>1, <1>6, <2>4 DEF ReportTypeOK
    <3>10. s \in repOn' /\ repMailed'[s] = repMailed[s] /\ repDay' = repDue[s] + 1
      BY <1>6, <2>1, <3>2 DEF InStep, OnTime
    <3>11. OnTime(s)'
      <4>1. DueDay(s, repDue'[s])
        BY <3>8, <3>9
      <4>2. repDay' <= repDue'[s] + 1
        BY <3>6, <3>8, <3>9, <3>10
      <4> QED
        BY <3>10, <4>1, <4>2 DEF OnTime, DueDay
    <3>12. OneReporter(s)'
      <4>1. repDay' # repDue'[s] + 1
        BY <3>6, <3>8, <3>9, <3>10
      <4> QED
        BY <3>4, <4>1 DEF OneReporter
    <3>13. Spaced(s)'
      <4>1. repDue[s] + 1 = PeriodStart(s, repDue'[s] + 1)
        BY <3>8, <3>9
      <4>2. Spaced(s)
        BY <2>1 DEF InStep
      <4> QED
        BY <3>5, <3>10, <4>1, <4>2 DEF Spaced, PeriodStart
    <3> QED
      BY <3>11, <3>12, <3>13 DEF InStep
  <2> QED
    BY <2>3, <2>4
<1> QED
  BY <1>7, <1>8, <1>9 DEF ReportInv

LEMMA ChangedStep ==
  ASSUME ReportInv, NEW x \in Schedules, ScheduleChanged(x)
  PROVE  ReportInv'
<1>1. /\ ReportTypeOK /\ BatchesFine /\ ReportFault /\ repMissed' = repMissed \cup {x}
      /\ UNCHANGED <<repDay, repRan, repRun, repMailed, repRows, repCrossed>>
  BY DEF ScheduleChanged, ReportInv
<1>2. /\ repDue' \in [Schedules -> Nat] /\ repOn' \subseteq Schedules
      /\ \A s \in Schedules \ {x} : repDue'[s] = repDue[s] /\ (s \in repOn => s \in repOn')
  <2>1. CASE repDue' = [repDue EXCEPT ![x] = NextSend(x, repDay)] /\ repOn' = repOn \cup {x}
    <3>1. repDay \in 0..LastDay
      BY <1>1 DEF ReportTypeOK
    <3>2. PICK next : next = NextSend(x, repDay)
      OBVIOUS
    <3>3. next \in Nat
      BY <3>1, <3>2, NextSendDay
    <3> QED
      BY <1>1, <2>1, <3>2, <3>3 DEF ReportTypeOK
  <2>2. CASE repOn' = repOn \ {x} /\ UNCHANGED repDue
    BY <1>1, <2>2 DEF ReportTypeOK
  <2> QED
    BY <2>1, <2>2 DEF ScheduleChanged
<1>3. ReportTypeOK'
  <2>1. repFaults' \in 0..MaxReportFaults
    BY <1>1, FaultCounted
  <2> QED
    BY <1>1, <1>2, <2>1 DEF ReportTypeOK
<1>4. BatchesFine'
  BY <1>1 DEF BatchesFine
<1>5. ASSUME NEW s \in Regular' PROVE InStep(s)'
  <2>1. s \in Schedules /\ s # x /\ InStep(s)
    BY <1>1, <1>5 DEF Regular, ReportInv
  <2>2. repDue'[s] = repDue[s] /\ s \in repOn'
    BY <1>2, <2>1 DEF InStep, OnTime
  <2>3. OnTime(s)'
    BY <1>1, <2>1, <2>2 DEF InStep, OnTime
  <2>4. OneReporter(s)'
    BY <1>1, <2>1, <2>2 DEF InStep, OneReporter
  <2>5. Spaced(s)'
    BY <1>1, <2>1, <2>2 DEF InStep, Spaced, Closed
  <2> QED
    BY <2>3, <2>4, <2>5 DEF InStep
<1> QED
  BY <1>3, <1>4, <1>5 DEF ReportInv

LEMMA ReportInductive == ReportInv /\ [ReportNext]_repVars => ReportInv'
<1> SUFFICES ASSUME ReportInv, [ReportNext]_repVars PROVE ReportInv'
  OBVIOUS
<1>1. CASE NightPasses
  BY <1>1, NightPassesStep
<1>2. ASSUME NEW p \in ReportReplicas, ReportStep(p) PROVE ReportInv'
  BY <1>2, RunStartsStep, MailedStep, RecordedStep, UpdatedStep DEF ReportStep
<1>3. ASSUME NEW p \in ReportReplicas, NightMissed(p) \/ MailFails(p) \/ ReportFails(p)
      PROVE  ReportInv'
  BY <1>3, NightMissedStep, MailFailsStep, ReportFailsStep
<1>4. ASSUME NEW s \in Schedules, ScheduleChanged(s) PROVE ReportInv'
  BY <1>4, ChangedStep
<1>5. CASE UNCHANGED repVars
  <2>1. ReportTypeOK'
    BY <1>5 DEF repVars, ReportInv, ReportTypeOK
  <2>2. BatchesFine'
    BY <1>5 DEF repVars, ReportInv, BatchesFine
  <2>3. ASSUME NEW s \in Regular' PROVE InStep(s)'
    <3>1. InStep(s)
      BY <1>5, <2>3 DEF repVars, ReportInv, Regular
    <3> QED
      BY <1>5, <3>1 DEF repVars, InStep, OnTime, OneReporter, Spaced, Closed
  <2> QED
    BY <2>1, <2>2, <2>3 DEF ReportInv
<1> QED
  BY <1>1, <1>2, <1>3, <1>4, <1>5 DEF ReportNext

LEMMA ReportStarts == ReportInit => ReportInv
<1> SUFFICES ASSUME ReportInit PROVE ReportInv
  OBVIOUS
<1>1. ASSUME NEW s \in Schedules PROVE repDue[s] \in Nat /\ DueDay(s, repDue[s])
  <2>1. 0 \in 0..LastDay /\ repDue[s] = NextSend(s, 0)
    BY ReportAssumption DEF ReportInit
  <2> QED
    BY <2>1, NextSendDay, NextSendFirst
<1>2. ReportTypeOK
  <2>1. repDue \in [Schedules -> Nat]
    BY <1>1 DEF ReportInit
  <2>2. repMailed \in [Schedules -> Seq(0..LastDay)]
    BY DEF ReportInit
  <2> QED
    BY <2>1, <2>2, ReportAssumption DEF ReportInit, ReportTypeOK
<1>3. \A p \in ReportReplicas : repRun[p].pc = "idle"
  BY DEF ReportInit, RunIdle
<1>4. BatchesFine
  BY <1>3 DEF BatchesFine
<1>5. ASSUME NEW s \in Regular PROVE InStep(s)
  <2>1. s \in Schedules /\ repDue[s] \in Nat
    BY <1>1 DEF Regular
  <2>2. OnTime(s)
    BY <1>1, <2>1 DEF OnTime, ReportInit
  <2>3. OneReporter(s)
    BY <1>3, <2>1 DEF OneReporter, Holds, ReportInit
  <2>4. repMailed[s] = <<>> /\ ~Closed(s)
    BY <1>3, <2>1 DEF Closed, Closing, ReportInit
  <2>5. Spaced(s)
    BY <2>4 DEF Spaced
  <2> QED
    BY <2>2, <2>3, <2>5 DEF InStep
<1> QED
  BY <1>2, <1>4, <1>5 DEF ReportInv

LEMMA ReportKeeps == ReportInv => ReportsTile
  BY DEF ReportInv, Regular, InStep, Spaced, ReportsTile

\* The next report of a schedule begins where the last one ended, in whatever
\* calendar: weekly, monthly and quarterly, unless the schedule is on the last day
\* of a month, was late or changed, or two runs had it at once
\* (reportScheduler.ts:36-62, 198-251, payrollReportSchedule.ts:58-105).
THEOREM ReportsTheorem == ReportSpec => []ReportsTile
BY ReportStarts, ReportInductive, ReportKeeps, PTL DEF ReportSpec
-----------------------------------------------------------------------------
(* Types: whatever a step writes is in the sets the variables are declared by. *)

LEMMA ArchTyped == ArchTypeOK /\ [ArchNext]_archVars => ArchTypeOK'
<1> SUFFICES ASSUME ArchTypeOK, [ArchNext]_archVars PROVE ArchTypeOK'
  OBVIOUS
<1> DEFINE Cycles == [pc : {"idle", "list", "wait", "unlock"}, batch : 0..MaxBatches, full : BOOLEAN]
           Works == [pc : {"idle", "copy", "delete"}, rows : SUBSET ArchSnapshots]
<1>1. /\ archLive \subseteq ArchRows /\ archOld \subseteq ArchRows /\ archRaced \subseteq ArchRows
      /\ archVersion \in [ArchRows -> 0..1] /\ archCopies \subseteq ArchSnapshots
      /\ archCycle \in [ArchReplicas -> Cycles]
      /\ archWork \in [ArchReplicas -> [ArchKinds -> Works]]
      /\ archLock \in ArchReplicas \cup {Nobody} /\ archFaults \in 0..MaxArchFaults
  BY DEF ArchTypeOK
<1>2. ArchFault => archFaults' \in 0..MaxArchFaults
  BY <1>1, ArchiveAssumption DEF ArchFault
<1>3. IdleCycle \in Cycles /\ IdleWork \in Works
  BY ArchiveAssumption DEF IdleCycle, IdleWork
<1>4. ASSUME NEW p \in ArchReplicas, NEW pc \in {"list", "wait", "unlock"}
      PROVE  [archCycle[p] EXCEPT !.pc = pc] \in Cycles
  BY <1>1
<1>5. ASSUME NEW e \in ArchRows, RowExpires(e) \/ EventRetried(e) PROVE ArchTypeOK'
  BY <1>1, <1>5 DEF RowExpires, EventRetried, ArchTypeOK
<1>6. ASSUME NEW p \in ArchReplicas, CycleStarts(p) PROVE ArchTypeOK'
  <2>1. archCycle' \in [ArchReplicas -> Cycles]
    BY <1>1, <1>4, <1>6 DEF CycleStarts
  <2> QED BY <1>1, <1>6, <2>1 DEF CycleStarts, archTables, ArchTypeOK
<1>7. ASSUME NEW p \in ArchReplicas, BatchListed(p) PROVE ArchTypeOK'
  <2>1. PICK rows \in [ArchKinds -> SUBSET (archOld \cap archLive)], full \in BOOLEAN :
          /\ archWork' = [archWork EXCEPT ![p] = [k \in ArchKinds |->
               IF rows[k] = {} THEN IdleWork
               ELSE [pc |-> "copy",
                     rows |-> {[id |-> e, version |-> archVersion[e]] : e \in rows[k]}]]]
          /\ archCycle' = [archCycle EXCEPT ![p] = [@ EXCEPT !.pc = "wait", !.full = full]]
    BY <1>7 DEF BatchListed
  <2>2. ASSUME NEW k \in ArchKinds
        PROVE  {[id |-> e, version |-> archVersion[e]] : e \in rows[k]} \subseteq ArchSnapshots
    BY <1>1 DEF ArchSnapshots
  <2>3. archWork' \in [ArchReplicas -> [ArchKinds -> Works]]
    <3> DEFINE listed(k) == IF rows[k] = {} THEN IdleWork
               ELSE [pc |-> "copy",
                     rows |-> {[id |-> e, version |-> archVersion[e]] : e \in rows[k]}]
    <3>1. \A k \in ArchKinds : listed(k) \in Works
      BY <1>3, <2>2
    <3>2. archWork' = [archWork EXCEPT ![p] = [k \in ArchKinds |-> listed(k)]]
      BY <2>1
    <3> HIDE DEF listed
    <3> QED BY <1>1, <3>1, <3>2
  <2>4. [archCycle[p] EXCEPT !.pc = "wait", !.full = full] \in Cycles
    BY <1>1
  <2>5. archCycle' \in [ArchReplicas -> Cycles]
    BY <1>1, <2>1, <2>4
  <2> QED BY <1>1, <1>7, <2>3, <2>5 DEF BatchListed, archTables, ArchTypeOK
<1>8. ASSUME NEW p \in ArchReplicas, ListFails(p) PROVE ArchTypeOK'
  <2>1. archCycle' \in [ArchReplicas -> Cycles]
    BY <1>1, <1>4, <1>8 DEF ListFails
  <2> QED BY <1>1, <1>2, <1>8, <2>1 DEF ListFails, archTables, ArchTypeOK
<1>9. ASSUME NEW p \in ArchReplicas, NEW k \in ArchKinds, RowsCopied(p, k) PROVE ArchTypeOK'
  <2>1. archWork[p] \in [ArchKinds -> Works] /\ archWork[p][k] \in Works
    BY <1>1
  <2>2. archWork' = [archWork EXCEPT ![p] = [archWork[p] EXCEPT
                       ![k] = [archWork[p][k] EXCEPT !.pc = "delete"]]]
    BY <1>1, <1>9, <2>1 DEF RowsCopied
  <2>3. [archWork[p][k] EXCEPT !.pc = "delete"] \in Works
    BY <2>1
  <2>4. archWork' \in [ArchReplicas -> [ArchKinds -> Works]]
    BY <1>1, <2>1, <2>2, <2>3
  <2>5. archCopies' \subseteq ArchSnapshots
    BY <1>1, <1>9, <2>1 DEF RowsCopied
  <2> QED BY <1>1, <1>9, <2>4, <2>5 DEF RowsCopied, ArchTypeOK
<1>10. ASSUME NEW p \in ArchReplicas, NEW k \in ArchKinds, RowsDeleted(p, k) \/ WorkFails(p, k)
       PROVE  ArchTypeOK'
  <2>1. archWork[p] \in [ArchKinds -> Works]
    BY <1>1
  <2>2. archWork' = [archWork EXCEPT ![p] = [archWork[p] EXCEPT ![k] = IdleWork]]
    BY <1>10 DEF RowsDeleted, WorkFails
  <2>3. archWork' \in [ArchReplicas -> [ArchKinds -> Works]]
    BY <1>1, <1>3, <2>1, <2>2
  <2>4. archCycle' \in [ArchReplicas -> Cycles]
    BY <1>1, <1>4, <1>10 DEF RowsDeleted, WorkFails
  <2>5. archLive' \subseteq ArchRows /\ archFaults' \in 0..MaxArchFaults
    BY <1>1, <1>2, <1>10 DEF RowsDeleted, WorkFails, archTables
  <2> QED BY <1>1, <1>10, <2>3, <2>4, <2>5 DEF RowsDeleted, WorkFails, archTables, ArchTypeOK
<1>11. ASSUME NEW p \in ArchReplicas, BatchEnds(p) PROVE ArchTypeOK'
  <2>1. CASE archCycle[p].full /\ archCycle[p].batch + 1 < MaxBatches
    <3>1. archCycle' = [archCycle EXCEPT ![p] =
            [archCycle[p] EXCEPT !.pc = "list", !.batch = archCycle[p].batch + 1]]
      BY <1>11, <2>1 DEF BatchEnds
    <3>2. archCycle[p] \in Cycles
      BY <1>1
    <3>3. archCycle[p].batch + 1 \in 0..MaxBatches
      BY <2>1, <3>2, ArchiveAssumption
    <3>4. [archCycle[p] EXCEPT !.pc = "list", !.batch = archCycle[p].batch + 1] \in Cycles
      BY <3>2, <3>3
    <3>5. archCycle' \in [ArchReplicas -> Cycles]
      BY <1>1, <3>1, <3>4
    <3> QED BY <1>1, <1>11, <3>5 DEF BatchEnds, archTables, ArchTypeOK
  <2>2. CASE ~(archCycle[p].full /\ archCycle[p].batch + 1 < MaxBatches)
    <3>1. archCycle' = [archCycle EXCEPT ![p] = [archCycle[p] EXCEPT !.pc = "unlock"]]
      BY <1>11, <2>2 DEF BatchEnds
    <3>2. archCycle' \in [ArchReplicas -> Cycles]
      BY <1>1, <1>4, <3>1
    <3> QED BY <1>1, <1>11, <3>2 DEF BatchEnds, archTables, ArchTypeOK
  <2> QED BY <2>1, <2>2
<1>12. ASSUME NEW p \in ArchReplicas, CycleUnlocks(p) \/ ArchCrash(p) PROVE ArchTypeOK'
  <2>1. archCycle' \in [ArchReplicas -> Cycles]
    <3>1. archCycle' = [archCycle EXCEPT ![p] = IdleCycle]
      BY <1>12 DEF CycleUnlocks, ArchCrash
    <3> HIDE DEF Cycles
    <3> QED BY <1>1, <1>3, <3>1
  <2>2. archLock' \in ArchReplicas \cup {Nobody} /\ archFaults' \in 0..MaxArchFaults
    BY <1>1, <1>2, <1>12 DEF CycleUnlocks, ArchCrash
  <2>3. archWork' \in [ArchReplicas -> [ArchKinds -> Works]]
    <3>1. archWork' \in {archWork, [archWork EXCEPT ![p] = [k \in ArchKinds |-> IdleWork]]}
      BY <1>12 DEF CycleUnlocks, ArchCrash
    <3> HIDE DEF Works
    <3> QED BY <1>1, <1>3, <3>1
  <2> QED BY <1>1, <1>12, <2>1, <2>2, <2>3 DEF CycleUnlocks, ArchCrash, archTables, ArchTypeOK
<1>13. CASE UNCHANGED archVars
  BY <1>13 DEF archVars, ArchTypeOK
<1> QED
  BY <1>5, <1>6, <1>7, <1>8, <1>9, <1>10, <1>11, <1>12, <1>13 DEF ArchNext

LEMMA ArchFirstTyped == ArchInit => ArchTypeOK
BY ArchiveAssumption DEF ArchInit, ArchTypeOK, IdleCycle, IdleWork

\* Requests between their DELETE and their INSERT, each of which takes an id.
Inserting == {u \in WalletUsers : walletCall[u].pc = "insert"}
WalletRoom == walletNext + Cardinality(Inserting) <= MaxChallenges + 1

\* A call that ends or goes on, after which no more of them insert.
LEMMA WalletCallTyped ==
  ASSUME WalletTypeOK, WalletRoom, NEW u \in WalletUsers,
         NEW call \in [pc : {"link", "clean"}, wallet : Wallets, id : ChallengeIds]
                       \cup {IdleWalletCall},
         walletCall' = [walletCall EXCEPT ![u] = call], UNCHANGED walletNext,
         walletRows' \subseteq walletRows, walletOf' \in [WalletUsers -> Wallets \cup {NoWallet}],
         walletVerified' \in [WalletUsers -> BOOLEAN], UNCHANGED <<walletKnown, walletCrossed>>
  PROVE  WalletTypeOK' /\ WalletRoom'
<1>1. WalletTypeOK'
  BY DEF WalletTypeOK
<1>2. call.pc # "insert"
  BY DEF IdleWalletCall
<1>3. \A v \in WalletUsers : walletCall'[v] = IF v = u THEN call ELSE walletCall[v]
  BY DEF WalletTypeOK
<1>4. Inserting' \subseteq Inserting
  BY <1>2, <1>3 DEF Inserting
<1>5. IsFiniteSet(Inserting)
  BY WalletAssumption, FS_Subset DEF Inserting
<1>6. /\ Cardinality(Inserting') <= Cardinality(Inserting)
      /\ Cardinality(Inserting) \in Nat /\ Cardinality(Inserting') \in Nat
  BY <1>4, <1>5, FS_Subset, FS_CardinalityType
<1>7. walletNext \in Int
  BY WalletAssumption DEF WalletTypeOK
<1> QED
  BY <1>1, <1>6, <1>7, WalletAssumption DEF WalletRoom

LEMMA WalletTyped == WalletTypeOK /\ WalletRoom /\ [WalletNext]_walletVars => WalletTypeOK' /\ WalletRoom'
<1> SUFFICES ASSUME WalletTypeOK, WalletRoom, [WalletNext]_walletVars
             PROVE  WalletTypeOK' /\ WalletRoom'
  OBVIOUS
<1> DEFINE Rows == [id : ChallengeIds, wallet : Wallets, user : WalletUsers, expired : BOOLEAN]
           Inserts == [pc : {"insert"}, wallet : Wallets]
           Linking == [pc : {"link", "clean"}, wallet : Wallets, id : ChallengeIds]
<1>1. /\ walletRows \subseteq Rows /\ walletNext \in 1..MaxChallenges + 1 /\ walletNext \in Int
      /\ walletCall \in [WalletUsers -> Inserts \cup Linking \cup {IdleWalletCall}]
      /\ walletOf \in [WalletUsers -> Wallets \cup {NoWallet}]
      /\ walletVerified \in [WalletUsers -> BOOLEAN]
      /\ walletKnown \subseteq WalletUsers /\ walletCrossed \subseteq Wallets
  BY DEF WalletTypeOK
<1>2. /\ MaxChallenges \in Nat /\ IsFiniteSet(Inserting) /\ Cardinality(Inserting) \in Nat
      /\ walletNext + Cardinality(Inserting) <= MaxChallenges + 1
  BY WalletAssumption, FS_Subset, FS_CardinalityType DEF Inserting, WalletRoom
<1>3. ASSUME NEW u \in WalletUsers, NEW w \in Wallets, DropChallenges(u, w)
      PROVE  WalletTypeOK' /\ WalletRoom'
  <2>1. /\ walletCall' = [walletCall EXCEPT ![u] = [pc |-> "insert", wallet |-> w]]
        /\ walletCall[u].pc = "idle" /\ walletNext' = walletNext
        /\ walletNext + Cardinality(Inserting) <= MaxChallenges
    BY <1>3 DEF DropChallenges, WalletRequests, Inserting
  <2>2. [pc |-> "insert", wallet |-> w] \in Inserts
    OBVIOUS
  <2>3. walletCall' \in [WalletUsers -> Inserts \cup Linking \cup {IdleWalletCall}]
    BY <1>1, <2>1, <2>2
  <2>4. \A v \in WalletUsers : walletCall'[v] = IF v = u THEN [pc |-> "insert", wallet |-> w]
                                                ELSE walletCall[v]
    BY <1>1, <2>1
  <2>5. Inserting' = Inserting \cup {u} /\ u \notin Inserting
    BY <2>1, <2>4 DEF Inserting
  <2>6. Cardinality(Inserting') = Cardinality(Inserting) + 1
    BY <1>2, <2>5, FS_AddElement
  <2>7. WalletRoom'
    BY <1>1, <1>2, <2>1, <2>6 DEF WalletRoom
  <2> QED BY <1>1, <1>3, <2>3, <2>7 DEF DropChallenges, workerRow, WalletTypeOK
<1>4. ASSUME NEW u \in WalletUsers, InsertChallenge(u) PROVE WalletTypeOK' /\ WalletRoom'
  <2>1. /\ walletCall[u].pc = "insert" /\ walletNext' = walletNext + 1
        /\ walletCall' = [walletCall EXCEPT ![u] = IdleWalletCall]
        /\ walletRows' = walletRows \cup
             {[id |-> walletNext, wallet |-> walletCall[u].wallet, user |-> u, expired |-> FALSE]}
    BY <1>4 DEF InsertChallenge, WalletReturns
  <2>2. walletCall[u] \in Inserts
    BY <1>1, <2>1 DEF IdleWalletCall
  <2>3. \A v \in WalletUsers : walletCall'[v] = IF v = u THEN IdleWalletCall ELSE walletCall[v]
    BY <1>1, <2>1
  <2>4. Inserting' = Inserting \ {u} /\ u \in Inserting
    BY <2>1, <2>3 DEF Inserting, IdleWalletCall
  <2>5. Cardinality(Inserting') = Cardinality(Inserting) - 1 /\ Cardinality(Inserting') \in Nat
    BY <1>2, <2>4, FS_RemoveElement, FS_CardinalityType
  <2>6. walletNext \in ChallengeIds /\ walletNext + 1 \in 1..MaxChallenges + 1 /\ WalletRoom'
    BY <1>1, <1>2, <2>1, <2>5 DEF ChallengeIds, WalletRoom
  <2>7. [id |-> walletNext, wallet |-> walletCall[u].wallet, user |-> u, expired |-> FALSE] \in Rows
    BY <2>2, <2>6
  <2>8. walletRows' \subseteq Rows
    BY <1>1, <2>1, <2>7
  <2>9. walletCall' \in [WalletUsers -> Inserts \cup Linking \cup {IdleWalletCall}]
    BY <1>1, <2>1
  <2> QED BY <1>1, <1>4, <2>1, <2>6, <2>8, <2>9 DEF InsertChallenge, workerRow, WalletTypeOK
<1>5. ASSUME NEW u \in WalletUsers, CleanChallenge(u) \/ WalletCallFails(u)
      PROVE  WalletTypeOK' /\ WalletRoom'
  <2>1. /\ walletCall' = [walletCall EXCEPT ![u] = IdleWalletCall]
        /\ walletRows' \subseteq walletRows /\ UNCHANGED <<walletNext, workerRow, walletCrossed>>
    BY <1>5 DEF CleanChallenge, WalletCallFails, WalletReturns
  <2> QED BY <1>1, <2>1, WalletCallTyped DEF workerRow
<1>6. ASSUME NEW u \in WalletUsers, LinkWallet(u) PROVE WalletTypeOK' /\ WalletRoom'
  <2>1. walletCall[u].pc = "link"
    BY <1>6 DEF LinkWallet
  <2>2. walletCall[u] \in Linking
    BY <1>1, <2>1 DEF IdleWalletCall
  <2>3. [walletCall[u] EXCEPT !.pc = "clean"] \in Linking /\ walletCall[u].wallet \in Wallets
    BY <2>2
  <2>4. walletCall' = [walletCall EXCEPT ![u] = [walletCall[u] EXCEPT !.pc = "clean"]]
    BY <1>6 DEF LinkWallet
  <2>5. /\ walletOf' \in [WalletUsers -> Wallets \cup {NoWallet}]
        /\ walletVerified' \in [WalletUsers -> BOOLEAN]
    BY <1>1, <1>6, <2>3 DEF LinkWallet
  <2>6. UNCHANGED <<walletRows, walletNext, walletKnown, walletCrossed>>
    BY <1>6 DEF LinkWallet
  <2> QED BY <2>3, <2>4, <2>5, <2>6, WalletCallTyped
<1>7. ASSUME NEW u \in WalletUsers, NEW w \in Wallets, VerifyChallenge(u, w)
      PROVE  WalletTypeOK' /\ WalletRoom'
  <2>1. PICK newest \in walletRows :
          IF newest.expired
          THEN walletRows' = walletRows \ {newest} /\ UNCHANGED walletCall
          ELSE /\ walletCall' = [walletCall EXCEPT ![u] =
                    [pc |-> "link", wallet |-> w, id |-> newest.id]]
               /\ UNCHANGED walletRows
    BY <1>7 DEF VerifyChallenge
  <2>2. [pc |-> "link", wallet |-> w, id |-> newest.id] \in Linking
    BY <1>1
  <2>3. UNCHANGED <<walletNext, workerRow, walletCrossed>>
    BY <1>7 DEF VerifyChallenge
  <2>4. CASE newest.expired
    BY <1>1, <1>2, <2>1, <2>3, <2>4 DEF workerRow, WalletTypeOK, WalletRoom, Inserting
  <2>5. CASE ~newest.expired
    BY <1>1, <2>1, <2>2, <2>3, <2>5, WalletCallTyped DEF workerRow
  <2> QED BY <2>4, <2>5
<1>8. ASSUME NEW u \in WalletUsers, NEW w \in Wallets \cup {NoWallet}, RegisterWorker(u, w)
      PROVE  WalletTypeOK' /\ WalletRoom'
  <2>1. walletOf' \in [WalletUsers -> Wallets \cup {NoWallet}] /\ walletKnown' \subseteq WalletUsers
    BY <1>1, <1>8 DEF RegisterWorker
  <2> QED BY <1>1, <1>8, <2>1 DEF RegisterWorker, WalletTypeOK, WalletRoom, Inserting
<1>9. ASSUME NEW r \in walletRows, ChallengeExpires(r) PROVE WalletTypeOK' /\ WalletRoom'
  <2>1. [r EXCEPT !.expired = TRUE] \in Rows
    BY <1>1
  <2> QED BY <1>1, <1>9, <2>1
          DEF ChallengeExpires, workerRow, WalletTypeOK, WalletRoom, Inserting
<1>10. CASE CleanupExpired
  BY <1>1, <1>10 DEF CleanupExpired, workerRow, WalletTypeOK, WalletRoom, Inserting
<1>11. CASE UNCHANGED walletVars
  BY <1>11 DEF walletVars, WalletTypeOK, WalletRoom, Inserting
<1> QED
  BY <1>3, <1>4, <1>5, <1>6, <1>7, <1>8, <1>9, <1>10, <1>11 DEF WalletNext

LEMMA WalletFirstTyped == WalletInit => WalletTypeOK /\ WalletRoom
<1> SUFFICES ASSUME WalletInit PROVE WalletTypeOK /\ WalletRoom
  OBVIOUS
<1>1. Inserting = {}
  BY DEF WalletInit, Inserting, IdleWalletCall
<1>2. Cardinality(Inserting) = 0
  BY <1>1, FS_EmptySet
<1>3. WalletRoom
  BY <1>2, WalletAssumption DEF WalletInit, WalletRoom
<1> QED
  BY <1>3, WalletAssumption DEF WalletInit, WalletTypeOK

\* The attempts of a replica that will try again are not used up.
MigBounds ==
  /\ migEdited \subseteq Versions /\ migRolled \subseteq Versions /\ migProduction \in BOOLEAN
  /\ migFaults \in 0..MaxMigFaults /\ migRollbacks \in 0..MaxRollbacks
  /\ \A p \in MigReplicas :
       /\ migRun[p].attempt \in 0..MaxInitAttempts
       /\ migRun[p].pc \in {"connect", "again"} => migRun[p].attempt < MaxInitAttempts

LEMMA MigInvTyped == MigInv /\ MigBounds => MigTypeOK
<1> SUFFICES ASSUME MigInv, MigBounds PROVE MigTypeOK
  OBVIOUS
<1>1. MigShape /\ DoneOnce
  BY DEF MigInv
<1>2. migDone \in [Versions -> 0..2]
  BY <1>1 DEF MigShape, DoneOnce
<1>3. migRun \in [MigReplicas ->
        [pc : MigSteps, attempt : 0..MaxInitAttempts, todo : SUBSET Versions]]
  BY <1>1 DEF MigShape, MigRecords, MigBounds
<1> QED
  BY <1>1, <1>2, <1>3 DEF MigTypeOK, MigShape, MigBounds

LEMMA MigTyped == MigInv /\ MigBounds /\ [MigNext]_migVars => MigBounds'
<1> SUFFICES ASSUME MigInv, MigBounds, [MigNext]_migVars PROVE MigBounds'
  OBVIOUS
<1>1. /\ migApplied \subseteq Versions /\ migRollback \in Versions \cup {0}
      /\ migRun \in [MigReplicas -> MigRecords]
      /\ migEdited \subseteq Versions /\ migRolled \subseteq Versions
  BY DEF MigInv, MigShape, MigBounds
<1>2. ASSUME NEW p \in MigReplicas, NEW pc, NEW n \in 0..MaxInitAttempts,
             migRun'[p].pc = pc, migRun'[p].attempt = n,
             pc \in {"connect", "again"} => n < MaxInitAttempts,
             \A q \in MigReplicas \ {p} : migRun'[q] = migRun[q],
             UNCHANGED <<migEdited, migRolled, migProduction, migRollbacks>>,
             migFaults' \in 0..MaxMigFaults
      PROVE  MigBounds'
  BY <1>2 DEF MigBounds
<1>3. ASSUME NEW p \in MigReplicas
      PROVE  /\ migRun[p].attempt \in 0..MaxInitAttempts /\ migRun[p] \in MigRecords
             /\ migRun[p].pc \in {"connect", "again"} =>
                  migRun[p].attempt + 1 \in 0..MaxInitAttempts
             /\ \A pc : migRun' = [migRun EXCEPT ![p].pc = pc] =>
                  /\ migRun'[p].pc = pc /\ migRun'[p].attempt = migRun[p].attempt
                  /\ \A q \in MigReplicas \ {p} : migRun'[q] = migRun[q]
  <2>1. migRun[p].attempt \in 0..MaxInitAttempts /\ migRun[p] \in MigRecords
    BY <1>1 DEF MigBounds
  <2>2. migRun[p].pc \in {"connect", "again"} => migRun[p].attempt + 1 \in 0..MaxInitAttempts
    BY <2>1, MigrationsAssumption DEF MigBounds
  <2> QED BY <1>1, <2>1, <2>2 DEF MigRecords
<1>4. ASSUME NEW p \in MigReplicas, AttemptFails(p),
             UNCHANGED <<migEdited, migRolled, migProduction, migRollbacks>>,
             migFaults' \in 0..MaxMigFaults
      PROVE  MigBounds'
  <2>1. PICK pc : pc = IF migRun[p].attempt >= MaxInitAttempts THEN "exited" ELSE "again"
    OBVIOUS
  <2>2. migRun' = [migRun EXCEPT ![p].pc = pc]
    BY <1>4, <2>1 DEF AttemptFails, MigGoes
  <2>3. pc \in {"connect", "again"} => migRun[p].attempt < MaxInitAttempts
    BY <1>3, <2>1, MigrationsAssumption
  <2> QED BY <1>2, <1>3, <1>4, <2>2, <2>3
<1>5. ASSUME NEW p \in MigReplicas, NEW pc, pc \notin {"connect", "again"}, MigGoes(p, pc),
             UNCHANGED <<migEdited, migRolled, migProduction, migRollbacks, migFaults>>
      PROVE  MigBounds'
  <2>1. migFaults' \in 0..MaxMigFaults
    BY <1>5 DEF MigBounds
  <2> QED BY <1>2, <1>3, <1>5, <2>1 DEF MigGoes
<1>6. ASSUME NEW p \in MigReplicas, MigrationPlan(p) \/ ConnectFails(p) PROVE MigBounds'
  <2>1. PICK n \in 0..MaxInitAttempts : n = migRun[p].attempt + 1
    BY <1>3, <1>6 DEF MigrationPlan, ConnectFails
  <2>2. migFaults' \in 0..MaxMigFaults /\ UNCHANGED <<migEdited, migRolled, migProduction, migRollbacks>>
    BY <1>6, MigrationsAssumption DEF MigrationPlan, ConnectFails, migWorld, MigBounds
  <2> DEFINE pc == IF n >= MaxInitAttempts THEN "exited" ELSE "again"
  <2>3. \/ migRun' = [migRun EXCEPT ![p] = [migRun[p] EXCEPT !.pc = pc, !.attempt = n]]
        \/ migRun' = [migRun EXCEPT ![p] =
             [pc |-> "apply", attempt |-> n, todo |-> Versions \ migApplied]]
    BY <1>6, <2>1 DEF MigrationPlan, ConnectFails
  <2>4. pc \in {"connect", "again"} => n < MaxInitAttempts
    BY <2>1, MigrationsAssumption
  <2> HIDE DEF pc
  <2>5. CASE migRun' = [migRun EXCEPT ![p] = [migRun[p] EXCEPT !.pc = pc, !.attempt = n]]
    <3>1. /\ migRun'[p].pc = pc /\ migRun'[p].attempt = n
          /\ \A q \in MigReplicas \ {p} : migRun'[q] = migRun[q]
      BY <1>1, <1>3, <2>5 DEF MigRecords
    <3> QED BY <1>2, <2>2, <2>4, <3>1
  <2>6. CASE migRun' = [migRun EXCEPT ![p] =
               [pc |-> "apply", attempt |-> n, todo |-> Versions \ migApplied]]
    <3>1. /\ migRun'[p].pc = "apply" /\ migRun'[p].attempt = n
          /\ \A q \in MigReplicas \ {p} : migRun'[q] = migRun[q]
      BY <1>1, <2>6
    <3> QED BY <1>2, <2>2, <3>1
  <2> QED BY <2>3, <2>5, <2>6
<1>7. ASSUME NEW p \in MigReplicas, MigrationsEnd(p) PROVE MigBounds'
  BY <1>5, <1>7 DEF MigrationsEnd, Initialized, migWorld
<1>8. ASSUME NEW p \in MigReplicas, MigrationRuns(p) PROVE MigBounds'
  <2>1. AttemptFails(p) \/ MigGoes(p, "commit")
    BY <1>8 DEF MigrationRuns
  <2>2. /\ UNCHANGED <<migEdited, migRolled, migProduction, migRollbacks, migFaults>>
        /\ migFaults' \in 0..MaxMigFaults
    BY <1>8 DEF MigrationRuns, migWorld, MigBounds
  <2> QED BY <1>4, <1>5, <2>1, <2>2
<1>9. ASSUME NEW p \in MigReplicas, MigrationCommits(p) PROVE MigBounds'
  <2>1. PICK v \in Versions : migRun' = [migRun EXCEPT ![p] = Past(@, v)]
    BY <1>9 DEF MigrationCommits
  <2>2. /\ migRun'[p].pc = "apply" /\ migRun'[p].attempt = migRun[p].attempt
        /\ \A q \in MigReplicas \ {p} : migRun'[q] = migRun[q]
    BY <1>1, <1>3, <2>1 DEF Past, MigRecords
  <2>3. migFaults' \in 0..MaxMigFaults /\ UNCHANGED <<migEdited, migRolled, migProduction, migRollbacks>>
    BY <1>9 DEF MigrationCommits, migWorld, MigBounds
  <2> QED BY <1>2, <1>3, <2>2, <2>3
<1>10. ASSUME NEW p \in MigReplicas, MigrationFails(p) PROVE MigBounds'
  <2>1. migFaults' \in 0..MaxMigFaults
    BY <1>10, MigrationsAssumption DEF MigrationFails, MigBounds
  <2> QED BY <1>4, <1>10, <2>1 DEF MigrationFails
<1>11. ASSUME NEW p \in MigReplicas, DrizzleMigrates(p) PROVE MigBounds'
  BY <1>5, <1>11 DEF DrizzleMigrates, migWorld
<1>12. CASE RollbackReads \/ RollbackCommits
  <2>1. migRolled' \subseteq Versions /\ migRollbacks' \in 0..MaxRollbacks
    BY <1>1, <1>12, MigrationsAssumption DEF RollbackReads, RollbackCommits, MigBounds
  <2> QED BY <1>12, <2>1 DEF RollbackReads, RollbackCommits, MigBounds
<1>13. CASE UNCHANGED migVars
  BY <1>13 DEF migVars, MigBounds
<1> QED
  BY <1>6, <1>7, <1>8, <1>9, <1>10, <1>11, <1>12, <1>13 DEF MigNext, MigStep

LEMMA MigFirstTyped == MigInit => MigBounds
<1> SUFFICES ASSUME MigInit PROVE MigBounds
  OBVIOUS
<1>1. PICK n \in {0} \cup Versions : migEdited \in {{}} \cup {{v} : v \in 1..n}
  BY DEF MigInit
<1>2. Cardinality(Versions) \in Nat /\ Versions = 1..Cardinality(Versions)
  BY MigrationsAssumption, FS_CardinalityType
<1>3. migEdited \subseteq Versions
  BY <1>1, <1>2
<1> QED
  BY <1>3, MigrationsAssumption DEF MigInit, MigBounds, NewRun

\* How far the values and versions of the secrets have come, and what the processes
\* hold of them.
KeyBounds ==
  /\ vaultKey \in [VaultKeys -> 0..MaxRotations]
  /\ \A k \in VaultKeys : vaultMeta[k].version \in 0..MaxRotations
  /\ \A p \in KeyReplicas : rotator[p].pc \in RotatorSteps => rotator[p].seen \in 0..MaxRotations
  /\ keyEnv \in [KeyReplicas -> [VaultKeys -> KeyValues]]
  /\ keyFetched \in [KeyReplicas -> [VaultKeys -> KeyValues]]
  /\ keyPeriods \in 0..MaxPeriods /\ keyFaults \in 0..MaxVaultFaults

LEMMA KeyInvTyped == KeyInv /\ KeyBounds => KeyTypeOK
<1> SUFFICES ASSUME KeyInv, KeyBounds PROVE KeyTypeOK
  OBVIOUS
<1>1. KeyShape
  BY DEF KeyInv
<1>2. vaultMeta \in [VaultKeys -> [version : 0..MaxRotations, fresh : BOOLEAN]]
  BY <1>1 DEF KeyShape, MetaRecords, KeyBounds
<1> DEFINE Bounded ==
      [pc : RotatorSteps, todo : Seq(VaultKeys), due : Seq(VaultKeys), seen : 0..MaxRotations]
<1>3. ASSUME NEW p \in KeyReplicas PROVE rotator[p] \in Bounded \cup {RotatorOff, RotatorIdle}
  <2>1. rotator[p] \in Rotations \cup {RotatorOff, RotatorIdle}
    BY <1>1 DEF KeyShape
  <2> QED BY <2>1 DEF Rotations, KeyBounds
<1>4. rotator \in [KeyReplicas -> Bounded \cup {RotatorOff, RotatorIdle}]
  <2> HIDE DEF Bounded
  <2> QED BY <1>1, <1>3 DEF KeyShape
<1> QED
  BY <1>1, <1>2, <1>4 DEF KeyTypeOK, KeyShape, KeyBounds

\* A scheduler goes on with what it has read, or with a version that is in range.
LEMMA SeenBounded ==
  ASSUME KeyInv, KeyBounds, NEW p \in KeyReplicas, NEW rotation,
         rotator' = [rotator EXCEPT ![p] = rotation],
         rotation.pc \in RotatorSteps => rotation.seen \in 0..MaxRotations
  PROVE  \A q \in KeyReplicas :
           rotator'[q].pc \in RotatorSteps => rotator'[q].seen \in 0..MaxRotations
<1>1. rotator'[p] = rotation /\ \A q \in KeyReplicas \ {p} : rotator'[q] = rotator[q]
  BY DEF KeyInv, KeyShape
<1> QED BY <1>1 DEF KeyBounds

\* A record of the rotation under way keeps the version it has read.
LEMMA SeenKept ==
  ASSUME NEW rotation \in Rotations, NEW due
  PROVE  /\ Checking(rotation, due).seen = rotation.seen
         /\ BatchOf(rotation, due).seen = rotation.seen
         /\ KeyPassed(rotation).seen = rotation.seen
         /\ [rotation EXCEPT !.pc = "read"].seen = rotation.seen
BY DEF Rotations, Checking, BatchOf, KeyPassed

LEMMA NextKeyBounded ==
  ASSUME KeyInv, KeyBounds, NEW p \in KeyReplicas, rotator[p].pc \in RotatorSteps, NextKey(p)
  PROVE  \A q \in KeyReplicas :
           rotator'[q].pc \in RotatorSteps => rotator'[q].seen \in 0..MaxRotations
<1>1. rotator[p] \in Rotations /\ rotator[p].seen \in 0..MaxRotations
  BY KeyOfProcess DEF KeyBounds
<1>2. CASE rotator' = [rotator EXCEPT ![p] = RotatorIdle]
  BY <1>2, SeenBounded DEF RotatorIdle, RotatorSteps
<1>3. CASE rotator' = [rotator EXCEPT ![p] = KeyPassed(rotator[p])]
  <2>1. KeyPassed(rotator[p]).seen = rotator[p].seen
    BY <1>1, SeenKept
  <2> QED BY <1>1, <1>3, <2>1, SeenBounded
<1> QED BY <1>2, <1>3 DEF NextKey

LEMMA SchedulerTyped ==
  ASSUME KeyInv, KeyBounds, NEW p \in KeyReplicas, RotatorStep(p) \/ RotationFails(p)
  PROVE  KeyBounds'
<1> USE RotationAssumption
<1>1. KeyShape
  BY DEF KeyInv
<1>2. ASSUME \A q \in KeyReplicas :
               rotator'[q].pc \in RotatorSteps => rotator'[q].seen \in 0..MaxRotations,
             UNCHANGED <<vaultKey, vaultMeta, keysOfProcess, keyPeriods>>,
             keyFaults' \in 0..MaxVaultFaults
      PROVE  KeyBounds'
  BY <1>2 DEF KeyBounds, keysOfProcess
<1>3. CASE RotatorLists(p)
  <2>1. keyFaults' \in 0..MaxVaultFaults
    BY <1>3 DEF RotatorLists, KeyBounds
  <2> DEFINE check == [pc |-> "check", todo |-> VaultOrder, due |-> <<>>, seen |-> 0]
  <2>2. check.seen \in 0..MaxRotations /\ rotator' = [rotator EXCEPT ![p] = check]
    BY <1>3 DEF RotatorLists
  <2> HIDE DEF check
  <2> QED BY <1>2, <1>3, <2>1, <2>2, SeenBounded DEF RotatorLists
<1>4. CASE RotatorChecks(p)
  <2>1. rotator[p].pc = "check" /\ keyFaults' \in 0..MaxVaultFaults
    BY <1>4 DEF RotatorChecks, KeyFault, KeyBounds
  <2>2. PICK due : Checked(p, due)
    BY <1>4 DEF RotatorChecks
  <2>3. rotator[p] \in Rotations /\ rotator[p].seen \in 0..MaxRotations
    BY <2>1, KeyOfProcess DEF RotatorSteps, KeyBounds
  <2>4. /\ Checking(rotator[p], due).seen = rotator[p].seen
        /\ BatchOf(rotator[p], due).seen = rotator[p].seen
    BY <2>3, SeenKept
  <2>5. PICK rotation :
          /\ rotator' = [rotator EXCEPT ![p] = rotation]
          /\ rotation \in {RotatorIdle, Checking(rotator[p], due), BatchOf(rotator[p], due)}
    BY <2>2 DEF Checked
  <2>6. rotation.pc \in RotatorSteps => rotation.seen \in 0..MaxRotations
    BY <2>3, <2>4, <2>5 DEF RotatorIdle, RotatorSteps
  <2> QED BY <1>2, <1>4, <2>1, <2>5, <2>6, SeenBounded DEF RotatorChecks
<1>5. CASE RotatorWrites(p)
  <2>1. PICK k : k = Head(rotator[p].due)
    OBVIOUS
  <2>2. /\ rotator[p].pc = "write" /\ vaultKey[k] < MaxRotations
        /\ vaultKey' = [vaultKey EXCEPT ![k] = @ + 1]
        /\ rotator' = [rotator EXCEPT ![p].pc = "read"]
        /\ UNCHANGED <<vaultMeta, keysOfProcess, keyPeriods, keyFaults>>
    BY <1>5, <2>1 DEF RotatorWrites
  <2>3. rotator[p] \in Rotations /\ rotator[p].seen \in 0..MaxRotations /\ k \in VaultKeys
    BY <2>1, <2>2, KeyOfProcess DEF RotatorSteps, KeyBounds
  <2>4. rotator' = [rotator EXCEPT ![p] = [rotator[p] EXCEPT !.pc = "read"]]
    BY <2>2
  <2>5. [rotator[p] EXCEPT !.pc = "read"].seen = rotator[p].seen
    BY <2>3, SeenKept
  <2>6. \A q \in KeyReplicas :
          rotator'[q].pc \in RotatorSteps => rotator'[q].seen \in 0..MaxRotations
    BY <2>3, <2>4, <2>5, SeenBounded
  <2>7. vaultKey' \in [VaultKeys -> 0..MaxRotations]
    BY <2>2, <2>3 DEF KeyBounds
  <2> QED BY <2>2, <2>6, <2>7 DEF KeyBounds, keysOfProcess
<1>6. CASE RotatorReads(p)
  <2>1. rotator[p].pc = "read" /\ keyFaults' \in 0..MaxVaultFaults
    BY <1>6 DEF RotatorReads, KeyFault, KeyBounds
  <2>2. rotator[p] \in Rotations /\ Head(rotator[p].due) \in VaultKeys
    BY <2>1, KeyOfProcess DEF RotatorSteps
  <2>3. PICK n \in 0..MaxRotations : rotator' = [rotator EXCEPT ![p] = VersionRead(rotator[p], n)]
    BY <1>6, <2>2 DEF RotatorReads, KeyBounds
  <2>4. VersionRead(rotator[p], n).seen = n
    BY <2>2, VersionReadRecord
  <2> QED BY <1>2, <1>6, <2>1, <2>3, <2>4, SeenBounded DEF RotatorReads
<1>7. CASE RotatorRecords(p)
  <2>1. PICK k : k = Head(rotator[p].due)
    OBVIOUS
  <2>2. /\ rotator[p].pc = "meta" /\ rotator[p].seen < MaxRotations /\ NextKey(p)
        /\ vaultMeta' = [vaultMeta EXCEPT ![k] = [version |-> rotator[p].seen + 1, fresh |-> TRUE]]
        /\ UNCHANGED <<vaultKey, keysOfProcess, keyPeriods, keyFaults>>
    BY <1>7, <2>1 DEF RotatorRecords
  <2>3. rotator[p].seen \in 0..MaxRotations /\ rotator[p].pc \in RotatorSteps
    BY <2>2 DEF RotatorSteps, KeyBounds
  <2>4. \A q \in KeyReplicas :
          rotator'[q].pc \in RotatorSteps => rotator'[q].seen \in 0..MaxRotations
    BY <2>2, <2>3, NextKeyBounded
  <2>5. rotator[p].seen + 1 \in 0..MaxRotations
    BY <2>2, <2>3
  <2>6. \A j \in VaultKeys : vaultMeta'[j].version \in 0..MaxRotations
    BY <1>1, <2>2, <2>5 DEF KeyShape, KeyBounds
  <2> QED BY <2>2, <2>4, <2>6 DEF KeyBounds, keysOfProcess
<1>8. CASE RotationFails(p)
  <2>1. /\ rotator[p].pc \in RotatorSteps /\ NextKey(p) /\ keyFaults' \in 0..MaxVaultFaults
        /\ UNCHANGED <<vaultKey, vaultMeta, keysOfProcess, keyPeriods>>
    BY <1>8 DEF RotationFails, KeyFault, RotatorSteps, KeyBounds
  <2> QED BY <1>2, <2>1, NextKeyBounded
<1> QED
  BY <1>3, <1>4, <1>5, <1>6, <1>7, <1>8 DEF RotatorStep

LEMMA KeyTyped == KeyInv /\ KeyBounds /\ [KeyNext]_keyVars => KeyBounds'
<1> SUFFICES ASSUME KeyInv, KeyBounds, [KeyNext]_keyVars PROVE KeyBounds'
  OBVIOUS
<1> USE RotationAssumption
<1>1. /\ vaultKey \in [VaultKeys -> KeyValues]
      /\ [k \in VaultKeys |-> FromEnvFile] \in [VaultKeys -> KeyValues]
  BY DEF KeyBounds, KeyValues
<1>2. CASE PeriodPasses
  <2>1. keyPeriods' \in 0..MaxPeriods
    BY <1>2 DEF PeriodPasses, KeyBounds
  <2>2. \A k \in VaultKeys : vaultMeta'[k].version = vaultMeta[k].version
    BY <1>2 DEF PeriodPasses
  <2> QED BY <1>2, <2>1, <2>2 DEF PeriodPasses, KeyBounds, keysOfProcess
<1>3. ASSUME NEW p \in KeyReplicas, BootFromVault(p) PROVE KeyBounds'
  <2>1. \A q \in KeyReplicas :
          rotator'[q].pc \in RotatorSteps => rotator'[q].seen \in 0..MaxRotations
    BY <1>3, SeenBounded DEF BootFromVault, RotatorIdle, RotatorSteps
  <2>2. /\ keyEnv' \in [KeyReplicas -> [VaultKeys -> KeyValues]]
        /\ keyFetched' \in [KeyReplicas -> [VaultKeys -> KeyValues]]
    BY <1>1, <1>3 DEF BootFromVault, KeyBounds
  <2> QED BY <1>3, <2>1, <2>2 DEF BootFromVault, KeyBounds
<1>4. ASSUME NEW p \in KeyReplicas, RefreshSecrets(p) PROVE KeyBounds'
  <2>1. keyFaults' \in 0..MaxVaultFaults
    BY <1>4 DEF RefreshSecrets, KeyFault, KeyBounds
  <2>2. PICK fetched \in [VaultKeys -> KeyValues] : keyFetched' = [keyFetched EXCEPT ![p] = fetched]
    <3>1. \A k \in VaultKeys : [vaultKey EXCEPT ![k] = keyEnv[p][k]] \in [VaultKeys -> KeyValues]
      BY <1>1 DEF KeyBounds
    <3> QED BY <1>1, <1>4, <3>1 DEF RefreshSecrets
  <2>3. keyFetched' \in [KeyReplicas -> [VaultKeys -> KeyValues]]
    BY <2>2 DEF KeyBounds
  <2> QED BY <1>4, <2>1, <2>3 DEF RefreshSecrets, KeyBounds
<1>5. ASSUME NEW p \in KeyReplicas, KeyCrash(p) PROVE KeyBounds'
  <2>1. \A q \in KeyReplicas :
          rotator'[q].pc \in RotatorSteps => rotator'[q].seen \in 0..MaxRotations
    BY <1>5, SeenBounded DEF KeyCrash, RotatorOff, RotatorSteps
  <2>2. /\ keyEnv' \in [KeyReplicas -> [VaultKeys -> KeyValues]]
        /\ keyFetched' \in [KeyReplicas -> [VaultKeys -> KeyValues]]
        /\ keyFaults' \in 0..MaxVaultFaults
    BY <1>1, <1>5 DEF KeyCrash, KeyFault, KeyBounds
  <2> QED BY <1>5, <2>1, <2>2 DEF KeyCrash, KeyBounds
<1>6. CASE UNCHANGED keyVars
  BY <1>6 DEF keyVars, KeyBounds
<1> QED
  BY <1>2, <1>3, <1>4, <1>5, <1>6, SchedulerTyped DEF KeyNext

LEMMA KeyFirstTyped == KeyInit => KeyBounds
<1> SUFFICES ASSUME KeyInit PROVE KeyBounds
  OBVIOUS
<1>1. \A p \in KeyReplicas : rotator[p].pc \notin RotatorSteps
  BY DEF KeyInit, RotatorOff, RotatorSteps
<1> QED
  BY <1>1, RotationAssumption DEF KeyInit, KeyBounds, KeyValues

\* The chain grows by the blocks of the burns, and no number is negative.
Mined == {t \in Burns : cctBlock[t] # 0}
CctBounds ==
  /\ cctHead = BatchDepth + 1 + Cardinality(Mined)
  /\ \A t \in Burns : cctBlock[t] >= 0
  /\ \A p \in CctReplicas : cctLast[p] >= 0 /\ cctFirst[p] >= 0 /\ cctFirst[p] <= cctHead
  /\ cctReady \subseteq Burns /\ cctRefused \subseteq Burns /\ cctColumn \in {"varchar128", "text"}
  /\ cctPoll \in [CctReplicas -> SUBSET Burns] /\ cctFaults \in 0..MaxCctFaults

LEMMA CctInvTyped == CctInv /\ CctBounds => CctTypeOK
<1> SUFFICES ASSUME CctInv, CctBounds PROVE CctTypeOK
  OBVIOUS
<1> USE CrossChainAssumption
<1>1. CctShape /\ NotAhead
  BY DEF CctInv
<1>2. Cardinality(Mined) \in Nat /\ Cardinality(Burns) \in Nat /\ Cardinality(Mined) <= Cardinality(Burns)
  BY FS_Subset, FS_CardinalityType DEF Mined
<1>3. /\ cctHead \in Nat /\ cctHead <= BatchDepth + Cardinality(Burns) + 1
      /\ \A n \in Int : 0 <= n /\ n <= cctHead => n \in CctBlocks
  BY <1>2 DEF CctBounds, CctBlocks
<1>4. /\ cctHead \in CctBlocks /\ cctBlock \in [Burns -> CctBlocks]
      /\ cctLast \in [CctReplicas -> CctBlocks] /\ cctFirst \in [CctReplicas -> CctBlocks]
  BY <1>1, <1>3 DEF CctShape, NotAhead, CctBounds
<1> DEFINE Bounded == [pc : {"check", "insert"}, logs : SUBSET Logs, latest : CctBlocks]
<1>5. ASSUME NEW p \in CctReplicas PROVE cctIndex[p] \in Bounded \cup {IdleIndexer}
  <2>1. CASE cctIndex[p] = IdleIndexer
    BY <2>1
  <2>2. CASE cctIndex[p] \in Scans
    <3>1. cctIndex[p].pc # "idle" /\ cctIndex[p].latest \in Int
      BY <2>2 DEF Scans
    <3>2. cctIndex[p].latest \in CctBlocks
      BY <1>1, <1>3, <3>1 DEF NotAhead
    <3> QED BY <2>2, <3>2 DEF Scans
  <2> QED BY <1>1, <2>1, <2>2 DEF CctShape
<1>6. cctIndex \in [CctReplicas -> Bounded \cup {IdleIndexer}]
  <2> HIDE DEF Bounded
  <2> QED BY <1>1, <1>5 DEF CctShape
<1> QED
  BY <1>1, <1>4, <1>6 DEF CctTypeOK, CctShape, CctBounds

LEMMA CctTyped == CctInv /\ CctBounds /\ [CctNext]_cctVars => CctBounds'
<1> SUFFICES ASSUME CctInv, CctBounds, [CctNext]_cctVars PROVE CctBounds'
  OBVIOUS
<1> USE CrossChainAssumption
<1>1. /\ CctShape /\ NotAhead /\ IsFiniteSet(Mined) /\ Cardinality(Mined) \in Nat
      /\ cctHead \in Nat
  <2>1. IsFiniteSet(Mined) /\ Cardinality(Mined) \in Nat
    BY FS_Subset, FS_CardinalityType DEF Mined
  <2> QED BY <2>1 DEF CctInv, CctBounds
<1>2. ASSUME UNCHANGED cctWorld,
             \A p \in CctReplicas :
               cctLast'[p] >= 0 /\ cctFirst'[p] >= 0 /\ cctFirst'[p] <= cctHead,
             cctRefused' \subseteq Burns, cctPoll' \in [CctReplicas -> SUBSET Burns],
             cctFaults' \in 0..MaxCctFaults
      PROVE  CctBounds'
  BY <1>2 DEF CctBounds, cctWorld, Mined
<1>3. ASSUME NEW t \in Burns, MineBurn(t) PROVE CctBounds'
  <2>1. /\ cctBlock[t] = 0 /\ cctHead' = cctHead + 1
        /\ cctBlock' = [cctBlock EXCEPT ![t] = cctHead + 1]
        /\ UNCHANGED <<cctReady, cctColumn, cctLast, cctFirst, cctPoll, cctRefused, cctFaults>>
    BY <1>3 DEF MineBurn
  <2>2. cctBlock'[t] = cctHead + 1 /\ \A u \in Burns \ {t} : cctBlock'[u] = cctBlock[u]
    BY <1>1, <2>1 DEF CctShape
  <2>3. Mined' = Mined \cup {t} /\ t \notin Mined
    BY <1>1, <2>1, <2>2 DEF Mined
  <2>4. Cardinality(Mined') = Cardinality(Mined) + 1
    BY <1>1, <2>3, FS_AddElement
  <2>5. cctHead' = BatchDepth + 1 + Cardinality(Mined')
    BY <1>1, <2>1, <2>4 DEF CctBounds
  <2>6. \A u \in Burns : cctBlock'[u] >= 0
    BY <1>1, <2>2 DEF CctBounds
  <2>7. \A p \in CctReplicas : cctLast'[p] >= 0 /\ cctFirst'[p] >= 0 /\ cctFirst'[p] <= cctHead'
    BY <1>1, <2>1 DEF CctBounds, CctShape
  <2> QED BY <2>1, <2>5, <2>6, <2>7 DEF CctBounds
<1>4. ASSUME NEW t \in Burns, CircleAttests(t) PROVE CctBounds'
  BY <1>4 DEF CircleAttests, CctBounds, Mined
<1>5. ASSUME NEW t \in Burns, RequestAttestation(t) PROVE CctBounds'
  BY <1>2, <1>5 DEF RequestAttestation, CctBounds
<1>6. ASSUME NEW p \in CctReplicas, NEW log, LogDone(p, log), cctIndex[p].pc # "idle"
      PROVE  \A q \in CctReplicas : cctLast'[q] >= 0
  <2>1. cctIndex[p].latest \in Int /\ cctIndex[p].latest > 0
    BY <1>1, <1>6, CycleOfProcess DEF NotAhead, Scans, CctInv
  <2> QED BY <1>1, <1>6, <2>1 DEF LogDone, CctBounds, CctShape
<1>7. ASSUME NEW p \in CctReplicas, IndexScans(p) PROVE CctBounds'
  <2>1. /\ \A q \in CctReplicas : cctLast'[q] >= 0
        /\ FromBlock(p) <= cctHead
        /\ cctFirst' = [cctFirst EXCEPT ![p] = IF cctLast[p] > 0 THEN @ ELSE FromBlock(p)]
        /\ UNCHANGED <<cctWorld, cctPoll, cctRefused, cctFaults>>
    BY <1>1, <1>7 DEF IndexScans, CctBounds, CctShape
  <2>2. ~(cctLast[p] > 0) => FromBlock(p) = cctHead - BatchDepth /\ FromBlock(p) >= 0
    BY <1>1 DEF FromBlock, NotAhead
  <2>3. \A q \in CctReplicas : cctFirst'[q] >= 0 /\ cctFirst'[q] <= cctHead
    BY <1>1, <2>1, <2>2 DEF CctBounds, CctShape
  <2> QED BY <1>2, <2>1, <2>3 DEF CctBounds
<1>8. ASSUME NEW p \in CctReplicas, IndexChecks(p) PROVE CctBounds'
  <2>1. \A q \in CctReplicas : cctLast'[q] >= 0
    BY <1>6, <1>8 DEF IndexChecks, CctBounds
  <2> QED BY <1>2, <1>8, <2>1 DEF IndexChecks, CctBounds
<1>9. ASSUME NEW p \in CctReplicas, IndexInserts(p) \/ LogFails(p) PROVE CctBounds'
  <2>1. PICK log \in Logs : LogDone(p, log) /\ cctRefused' \subseteq cctRefused \cup {log[1]}
    BY <1>9 DEF IndexInserts, LogFails
  <2>2. cctIndex[p].pc # "idle" /\ log[1] \in Burns
    BY <1>9 DEF IndexInserts, LogFails, Logs
  <2>3. \A q \in CctReplicas : cctLast'[q] >= 0
    BY <1>6, <2>1, <2>2
  <2>4. cctRefused' \subseteq Burns /\ cctFaults' \in 0..MaxCctFaults
    BY <1>9, <2>1, <2>2 DEF IndexInserts, LogFails, CctFault, CctBounds
  <2> QED BY <1>2, <1>9, <2>3, <2>4 DEF IndexInserts, LogFails, CctBounds
<1>10. ASSUME NEW p \in CctReplicas, PollSelects(p) PROVE CctBounds'
  <2>1. PICK rows \in SUBSET Burns : cctPoll' = [cctPoll EXCEPT ![p] = rows]
    BY <1>10 DEF PollSelects, kSubset, PendingRows
  <2>2. cctPoll' \in [CctReplicas -> SUBSET Burns]
    BY <2>1 DEF CctBounds
  <2> QED BY <1>2, <1>10, <2>2 DEF PollSelects, CctBounds
<1>11. ASSUME NEW p \in CctReplicas, NEW t \in Burns, PollAsks(p, t) \/ PollFails(p, t)
       PROVE  CctBounds'
  <2>1. cctPoll' \in [CctReplicas -> SUBSET Burns] /\ cctFaults' \in 0..MaxCctFaults
    BY <1>11 DEF PollAsks, PollFails, CctFault, CctBounds
  <2> QED BY <1>2, <1>11, <2>1 DEF PollAsks, PollFails, CctBounds
<1>12. ASSUME NEW p \in CctReplicas, CctCrash(p) PROVE CctBounds'
  <2>1. cctPoll' \in [CctReplicas -> SUBSET Burns] /\ cctFaults' \in 0..MaxCctFaults
    BY <1>12 DEF CctCrash, CctFault, CctBounds
  <2>2. \A q \in CctReplicas :
          cctLast'[q] >= 0 /\ cctFirst'[q] >= 0 /\ cctFirst'[q] <= cctHead
    BY <1>1, <1>12 DEF CctCrash, CctBounds, CctShape
  <2> QED BY <1>2, <1>12, <2>1, <2>2 DEF CctCrash, CctBounds
<1>13. CASE UNCHANGED cctVars
  BY <1>13 DEF cctVars, CctBounds, Mined
<1> QED
  BY <1>3, <1>4, <1>5, <1>7, <1>8, <1>9, <1>10, <1>11, <1>12, <1>13
     DEF CctNext, IndexStep, PollStep

LEMMA CctFirstTyped == CctInit => CctBounds
<1> SUFFICES ASSUME CctInit PROVE CctBounds
  OBVIOUS
<1>1. Mined = {}
  BY DEF CctInit, Mined
<1>2. Cardinality(Mined) = 0
  BY <1>1, FS_EmptySet
<1> QED
  BY <1>2, CrossChainAssumption DEF CctInit, CctBounds

\* Callers in the queue or with a number in hand: a number used and these are never
\* more than the bound, so a number is only added to the range when one is left.
Engaged ==
  {c \in NonceCallers : nonceHand[c] # NoNonce \/ \E i \in 1..Len(nonceLine) : nonceLine[i] = c}
NonceRoom ==
  /\ IsFiniteSet(nonceUsed) /\ Cardinality(nonceUsed) + Cardinality(Engaged) <= MaxNonces
  /\ nonceStart \in AccountSeqs \cup {NoNonce} /\ nonceHealthy \in BOOLEAN
NonceBounds ==
  NonceRoom /\ (nonceSeq # NoNonce => nonceSeq - nonceStart <= MaxNonces)

FitsWithNoneFree ==
  nonceFree = {} /\ nonceSeq # NoNonce => nonceSeq - nonceStart <= MaxNonces

LEMMA RangeFits == NonceInv /\ NonceRoom => FitsWithNoneFree
<1> SUFFICES ASSUME NonceInv, NonceRoom, nonceFree = {}, nonceSeq # NoNonce
             PROVE  nonceSeq - nonceStart <= MaxNonces
  BY DEF FitsWithNoneFree
<1> DEFINE held == {nonceHand[c] : c \in Engaged}
           range == nonceStart + 1 .. nonceSeq
<1>1. nonceSeq \in Int /\ nonceStart \in Int /\ nonceStart <= nonceSeq
  BY DEF NonceInv, NonceShape, NothingBefore
<1>2. range \subseteq nonceUsed \cup held
  <2> SUFFICES ASSUME NEW n \in range PROVE n \in nonceUsed \cup held
    OBVIOUS
  <2>1. n \in Int /\ nonceStart < n /\ n <= nonceSeq
    BY <1>1
  <2>2. n \in nonceUsed \/ \E c \in NonceCallers : nonceHand[c] = n
    BY <2>1 DEF NonceInv, NumbersPlaced
  <2> QED BY <2>1, <2>2, NonceAssumption DEF Engaged
<1>3. IsFiniteSet(Engaged) /\ Cardinality(Engaged) \in Nat
  BY NonceAssumption, FS_Subset, FS_CardinalityType DEF Engaged
<1>4. IsFiniteSet(held) /\ Cardinality(held) <= Cardinality(Engaged)
  <2> DEFINE hand == [c \in Engaged |-> nonceHand[c]]
  <2>1. hand \in Surjection(Engaged, held)
    BY DEF Surjection
  <2> HIDE DEF hand, held
  <2> QED BY <1>3, <2>1, FS_Surjection
<1>5. Cardinality(held) \in Nat /\ Cardinality(nonceUsed) \in Nat
  BY <1>4, FS_CardinalityType DEF NonceRoom
<1> HIDE DEF held, range
<1>6. /\ IsFiniteSet(nonceUsed \cup held)
      /\ Cardinality(nonceUsed \cup held) <= Cardinality(nonceUsed) + Cardinality(held)
  <2>1. IsFiniteSet(nonceUsed)
    BY DEF NonceRoom
  <2>2. Cardinality(nonceUsed \cap held) \in Nat
    BY <2>1, FS_Intersection, FS_CardinalityType
  <2> QED BY <1>4, <1>5, <2>1, <2>2, FS_Union
<1>7. Cardinality(range) = nonceSeq - nonceStart
  <2>1. nonceStart + 1 \in Int /\ nonceSeq - (nonceStart + 1) + 1 = nonceSeq - nonceStart
    BY <1>1
  <2>2. Cardinality(range) =
          IF nonceStart + 1 > nonceSeq THEN 0 ELSE nonceSeq - (nonceStart + 1) + 1
    BY <1>1, <2>1, FS_Interval DEF range
  <2> QED BY <1>1, <2>1, <2>2
<1>8. Cardinality(range) <= Cardinality(nonceUsed \cup held)
  BY <1>2, <1>6, FS_Subset
<1>9. Cardinality(nonceUsed \cup held) \in Nat
  BY <1>6, FS_CardinalityType
<1>10. Cardinality(nonceUsed) + Cardinality(Engaged) <= MaxNonces
  BY DEF NonceRoom
<1> QED
  BY <1>1, <1>3, <1>4, <1>5, <1>6, <1>7, <1>8, <1>9, <1>10, NonceAssumption

LEMMA NonceInvTyped == NonceInv /\ NonceBounds => NonceTypeOK
<1> SUFFICES ASSUME NonceInv, NonceBounds PROVE NonceTypeOK
  OBVIOUS
<1> USE NonceAssumption
<1>1. NonceShape /\ NothingBefore /\ NumbersPlaced /\ NonceRoom
  BY DEF NonceInv, NonceBounds
<1>2. CASE nonceSeq = NoNonce
  BY <1>1, <1>2 DEF NonceTypeOK, NonceShape, NothingBefore, NonceRoom
<1>3. CASE nonceSeq # NoNonce
  <2>1. /\ nonceSeq \in Int /\ nonceStart \in AccountSeqs /\ nonceStart \in Int
        /\ nonceStart <= nonceSeq /\ nonceSeq - nonceStart <= MaxNonces
    BY <1>1, <1>3 DEF NonceShape, NothingBefore, NonceBounds, NonceRoom
  <2>2. ASSUME NEW n \in Int, nonceStart < n, n <= nonceSeq PROVE n \in Nonces
    <3>1. n - nonceStart \in 1..MaxNonces /\ n = nonceStart + (n - nonceStart)
      BY <2>1, <2>2
    <3> QED BY <2>1, <3>1 DEF Nonces
  <2>3. nonceSeq \in AccountSeqs \cup Nonces
    BY <2>1, <2>2
  <2>4. \A n \in Int :
          n \in nonceUsed \/ n \in nonceFree \/ (\E c \in NonceCallers : nonceHand[c] = n)
          => n \in Nonces
    BY <1>1, <1>3, <2>2 DEF NumbersPlaced
  <2>5. /\ nonceFree \subseteq Nonces /\ nonceUsed \subseteq Nonces
        /\ nonceHand \in [NonceCallers -> Nonces \cup {NoNonce}]
    BY <1>1, <2>4 DEF NonceShape
  <2> QED BY <1>1, <2>3, <2>5 DEF NonceTypeOK, NonceShape, NonceRoom
<1> QED BY <1>2, <1>3

\* Nobody becomes engaged when the line grows shorter and its head gets a number.
LEMMA EngagedShrinks ==
  ASSUME NonceInv, NonceRoom, nonceLine # <<>>, nonceLine' = Tail(nonceLine),
         \A d \in NonceCallers \ {Head(nonceLine)} : nonceHand'[d] = nonceHand[d],
         nonceUsed' = nonceUsed, nonceStart' \in AccountSeqs \cup {NoNonce},
         nonceHealthy' \in BOOLEAN
  PROVE  NonceRoom'
<1>1. nonceLine \in Seq(NonceCallers \cup {InitJob})
  BY DEF NonceInv, NonceShape
<1>2. /\ Len(nonceLine') = Len(nonceLine) - 1 /\ Head(nonceLine) = nonceLine[1]
      /\ 1 \in 1..Len(nonceLine)
      /\ \A i \in 1..Len(nonceLine') :
           nonceLine'[i] = nonceLine[i + 1] /\ i + 1 \in 1..Len(nonceLine)
  BY <1>1
<1>3. Engaged' \subseteq Engaged
  BY <1>2 DEF Engaged
<1>4. IsFiniteSet(Engaged) /\ Cardinality(Engaged) \in Nat /\ Cardinality(nonceUsed) \in Nat
  BY NonceAssumption, FS_Subset, FS_CardinalityType DEF Engaged, NonceRoom
<1>5. Cardinality(Engaged') \in Nat /\ Cardinality(Engaged') <= Cardinality(Engaged)
  BY <1>3, <1>4, FS_Subset, FS_CardinalityType
<1> QED BY <1>4, <1>5, NonceAssumption DEF NonceRoom

LEMMA NonceTyped == NonceInv /\ NonceBounds /\ [NonceNext]_nonceVars => NonceBounds'
<1> SUFFICES ASSUME NonceInv, NonceBounds, [NonceNext]_nonceVars PROVE NonceBounds'
  OBVIOUS
<1> USE NonceAssumption
<1>1. /\ NonceInv' /\ NonceRoom
      /\ NonceShape /\ LineOrderly
      /\ IsFiniteSet(Engaged) /\ Cardinality(Engaged) \in Nat /\ Cardinality(nonceUsed) \in Nat
  BY NonceInductive, FS_Subset, FS_CardinalityType DEF NonceBounds, NonceInv, Engaged, NonceRoom
<1>2. NonceInv' /\ NonceRoom' => FitsWithNoneFree'
  BY RangeFits, PTL
<1>3. ASSUME NonceRoom', UNCHANGED <<nonceSeq, nonceStart>> PROVE NonceBounds'
  BY <1>3 DEF NonceBounds
<1>4. ASSUME NonceRoom', nonceFree' = {} PROVE NonceBounds'
  BY <1>1, <1>2, <1>4 DEF NonceBounds, FitsWithNoneFree
<1>5. ASSUME NEW c \in NonceCallers, GetNonce(c) PROVE NonceBounds'
  <2>1. Engaged' \subseteq NonceCallers
    BY DEF Engaged
  <2>2. /\ Cardinality(Engaged') \in Nat /\ Cardinality(NonceCallers) \in Nat
        /\ Cardinality(Engaged') <= Cardinality(NonceCallers)
    BY <2>1, FS_Subset, FS_CardinalityType
  <2>3. NonceRoom'
    BY <1>1, <1>5, <2>2 DEF GetNonce, NonceRoom
  <2> QED BY <1>3, <1>5, <2>3 DEF GetNonce
<1>6. CASE NonceTurn
  <2> DEFINE job == Head(nonceLine)
  <2>1. CASE job = InitJob \/ nonceSeq = NoNonce
    <3>1. UNCHANGED <<nonceSeq, nonceStart, nonceUsed, nonceHand, nonceLine, nonceHealthy>>
      BY <1>6, <2>1 DEF NonceTurn
    <3>2. NonceRoom'
      BY <1>1, <3>1 DEF NonceRoom, Engaged
    <3> QED BY <1>3, <3>1, <3>2
  <2>2. CASE job # InitJob /\ nonceSeq # NoNonce
    <3>1. /\ Served(job, nonceSeq, nonceFree) /\ nonceLine # <<>> /\ nonceLine' = Tail(nonceLine)
          /\ UNCHANGED <<nonceStart, nonceUsed, nonceHealthy>>
      BY <1>6, <2>2 DEF NonceTurn
    <3>2. \A d \in NonceCallers \ {job} : nonceHand'[d] = nonceHand[d]
      BY <1>1, <3>1 DEF Served, NonceShape
    <3>3. NonceRoom'
      BY <1>1, <3>1, <3>2, EngagedShrinks DEF NonceRoom
    <3>4. CASE nonceFree = {}
      BY <1>4, <3>1, <3>3, <3>4 DEF Served
    <3>5. CASE nonceFree # {}
      BY <1>3, <3>1, <3>3, <3>5 DEF Served
    <3> QED BY <3>4, <3>5
  <2> QED BY <2>1, <2>2
<1>7. CASE AccountFails
  <2>1. NonceRoom'
    BY <1>1, <1>7, EngagedShrinks DEF AccountFails, NonceRoom, LineOrderly
  <2> QED BY <1>3, <1>7, <2>1 DEF AccountFails
<1>8. ASSUME NEW s \in AccountSeqs, AccountLoaded(s) PROVE NonceBounds'
  <2> DEFINE job == Head(nonceLine)
  <2>1. /\ nonceStart' = s /\ nonceHealthy' = TRUE /\ nonceUsed' = nonceUsed
        /\ nonceLine # <<>> /\ nonceLine' = Tail(nonceLine) /\ nonceFree' = {}
        /\ UNCHANGED nonceHand \/ Served(job, s, {})
    BY <1>1, <1>8 DEF AccountLoaded, LineOrderly, Served
  <2>2. \A d \in NonceCallers \ {job} : nonceHand'[d] = nonceHand[d]
    BY <1>1, <2>1 DEF Served, NonceShape
  <2>3. NonceRoom'
    BY <1>1, <2>1, <2>2, EngagedShrinks
  <2> QED BY <1>4, <2>1, <2>3
<1>9. ASSUME NEW c \in NonceCallers, ReleaseNonce(c) \/ SpendNonce(c) PROVE NonceBounds'
  <2>1. /\ nonceHand[c] # NoNonce /\ nonceHand' = [nonceHand EXCEPT ![c] = NoNonce]
        /\ nonceUsed' \in {nonceUsed, nonceUsed \cup {nonceHand[c]}}
        /\ UNCHANGED <<nonceSeq, nonceStart, nonceLine, nonceHealthy>>
    BY <1>9 DEF ReleaseNonce, SpendNonce
  <2>2. nonceHand'[c] = NoNonce /\ \A d \in NonceCallers \ {c} : nonceHand'[d] = nonceHand[d]
    BY <1>1, <2>1 DEF NonceShape
  <2>3. \A i \in 1..Len(nonceLine) : nonceLine[i] # c
    BY <1>1, <2>1 DEF LineOrderly, InitJob
  <2>4. c \in Engaged /\ Engaged' = Engaged \ {c}
    BY <2>1, <2>2, <2>3 DEF Engaged
  <2>5. Cardinality(Engaged') = Cardinality(Engaged) - 1
    BY <1>1, <2>4, FS_RemoveElement
  <2>6. IsFiniteSet(nonceUsed') /\ Cardinality(nonceUsed') \in Nat
        /\ Cardinality(nonceUsed') <= Cardinality(nonceUsed) + 1
    <3>1. IsFiniteSet(nonceUsed)
      BY <1>1 DEF NonceRoom
    <3>2. CASE nonceUsed' = nonceUsed
      BY <1>1, <3>1, <3>2
    <3>3. CASE nonceUsed' = nonceUsed \cup {nonceHand[c]}
      <4>1. /\ IsFiniteSet(nonceUsed')
            /\ Cardinality(nonceUsed') \in {Cardinality(nonceUsed), Cardinality(nonceUsed) + 1}
        BY <3>1, <3>3, FS_AddElement
      <4> QED BY <1>1, <4>1
    <3> QED BY <2>1, <3>2, <3>3
  <2>7. NonceRoom'
    BY <1>1, <2>1, <2>5, <2>6 DEF NonceRoom
  <2> QED BY <1>3, <2>1, <2>7
<1>10. CASE UNCHANGED nonceVars
  BY <1>1, <1>10 DEF nonceVars, NonceBounds, NonceRoom, Engaged
<1> QED
  BY <1>5, <1>6, <1>7, <1>8, <1>9, <1>10 DEF NonceNext, NonceJob

LEMMA NonceFirstTyped == NonceInit => NonceBounds
<1> SUFFICES ASSUME NonceInit PROVE NonceBounds
  OBVIOUS
<1>1. Len(nonceLine) = 1 /\ nonceLine[1] = InitJob
  BY DEF NonceInit
<1>2. Engaged = {}
  BY <1>1, NonceAssumption DEF NonceInit, Engaged, InitJob
<1>3. /\ IsFiniteSet(nonceUsed) /\ Cardinality(nonceUsed) = 0
      /\ Cardinality(Engaged) = 0
  BY <1>2, FS_EmptySet DEF NonceInit
<1>4. Cardinality(nonceUsed) + Cardinality(Engaged) <= MaxNonces
  BY <1>3, NonceAssumption
<1>5. /\ nonceStart \in AccountSeqs \cup {NoNonce} /\ nonceHealthy \in BOOLEAN
      /\ nonceSeq = NoNonce
  BY DEF NonceInit
<1> QED
  BY <1>3, <1>4, <1>5 DEF NonceBounds, NonceRoom

-----------------------------------------------------------------------------
(* All the services of module Services together. *)

\* A service runs, or stands still while another one runs.
LEMMA EachStepsAlone ==
  [ServicesNext]_servicesVars =>
    /\ part' = part
    /\ [NonceNext]_nonceVars /\ [IdemNext]_idemVars /\ [CacheNext]_cacheVars
    /\ [AuditNext]_auditVars /\ [CctNext]_cctVars /\ [WalletNext]_walletVars
    /\ [KeyNext]_keyVars /\ [ArchNext]_archVars /\ [MigNext]_migVars
    /\ [ReportNext]_repVars /\ [MonNext]_monVars /\ [NoticeNext]_noticeVars
    /\ [PayNext]_payVars
<1> SUFFICES ASSUME [ServicesNext]_servicesVars
             PROVE  /\ part' = part
                    /\ [NonceNext]_nonceVars /\ [IdemNext]_idemVars /\ [CacheNext]_cacheVars
                    /\ [AuditNext]_auditVars /\ [CctNext]_cctVars /\ [WalletNext]_walletVars
                    /\ [KeyNext]_keyVars /\ [ArchNext]_archVars /\ [MigNext]_migVars
                    /\ [ReportNext]_repVars /\ [MonNext]_monVars /\ [NoticeNext]_noticeVars
                    /\ [PayNext]_payVars
  OBVIOUS
<1>1. CASE UNCHANGED servicesVars
  BY <1>1 DEF servicesVars
<1>2. CASE ServicesNext
  BY <1>2 DEF ServicesNext, Others
<1> QED BY <1>1, <1>2

\* The inductive invariant of each, and what bounds its variables.
RequestServicesInv ==
  /\ IdemInv /\ IdemTypeOK /\ CacheInv /\ AuditInv
  /\ MonInv /\ MonTypeOK /\ NoticeInv /\ NoticeTypeOK /\ PayInv /\ PayTypeOK
RecordServicesInv ==
  /\ NonceInv /\ NonceBounds /\ CctInv /\ CctBounds
  /\ WalletInv /\ WalletTypeOK /\ WalletRoom /\ KeyInv /\ KeyBounds
  /\ ArchInv /\ ArchTypeOK /\ MigInv /\ MigBounds /\ ReportInv
ServicesInv == part \in Parts /\ RequestServicesInv /\ RecordServicesInv

LEMMA ServicesFirst == ServicesInit => ServicesInv
<1>1. ServicesInit => RequestServicesInv
  BY IdemFirst, IdemFirstTyped, CacheFirst, AuditInitInv, MonFirst, MonFirstTyped,
     NoticeFirst, NoticeFirstTyped, PayFirst, PayFirstTyped
     DEF ServicesInit, RequestServicesInv
<1>2. ServicesInit => RecordServicesInv
  BY NonceFirst, NonceFirstTyped, CctFirst, CctFirstTyped, WalletFirst, WalletFirstTyped,
     KeyFirst, KeyFirstTyped, ArchFirst, ArchFirstTyped, MigFirst, MigFirstTyped, ReportStarts
     DEF ServicesInit, RecordServicesInv
<1> QED BY <1>1, <1>2 DEF ServicesInit, ServicesInv

LEMMA ServicesInductive == ServicesInv /\ [ServicesNext]_servicesVars => ServicesInv'
<1> SUFFICES ASSUME ServicesInv, [ServicesNext]_servicesVars PROVE ServicesInv'
  OBVIOUS
<1>1. RequestServicesInv'
  BY EachStepsAlone, IdemInductive, IdemTyped, CacheKept, AuditInvStep, MonInductive, MonTyped,
     NoticeInductive, NoticeTyped, PayInductive, PayTyped
     DEF ServicesInv, RequestServicesInv
<1>2. RecordServicesInv'
  BY EachStepsAlone, NonceInductive, NonceTyped, CctInductive, CctTyped, WalletInductive,
     WalletTyped, KeyInductive, KeyTyped, ArchInductive, ArchTyped, MigInductive, MigTyped,
     ReportInductive
     DEF ServicesInv, RecordServicesInv
<1>3. part' \in Parts
  BY EachStepsAlone DEF ServicesInv
<1> QED BY <1>1, <1>2, <1>3 DEF ServicesInv

LEMMA ServicesInvTyped == ServicesInv => ServicesTypeOK
<1> SUFFICES ASSUME ServicesInv PROVE ServicesTypeOK
  OBVIOUS
<1>1. CacheTypeOK /\ AuditTypeOK /\ ReportTypeOK
  BY AuditTypesOK
     DEF ServicesInv, RequestServicesInv, RecordServicesInv, CacheInv, AuditInv, AuditTyped, ReportInv
<1>2. NonceTypeOK /\ CctTypeOK /\ KeyTypeOK /\ MigTypeOK
  BY NonceInvTyped, CctInvTyped, KeyInvTyped, MigInvTyped DEF ServicesInv, RecordServicesInv
<1> QED BY <1>1, <1>2 DEF ServicesInv, RequestServicesInv, RecordServicesInv, ServicesTypeOK

\* Every variable of every service keeps its type, whichever of them runs.
THEOREM ServicesTypes == ServicesSpec => []ServicesTypeOK
BY ServicesFirst, ServicesInductive, ServicesInvTyped, PTL DEF ServicesSpec

\* What the services promise one by one holds of the processes that run them all.
ServicesKeep ==
  /\ IdemOnceUnlessOverlapped /\ StaleOnlyByOverlap /\ AuditAccounted /\ RunwayOfAMoment
  /\ NotifiedAsAsked /\ PayslipFound /\ NonceAccounted /\ RangeIndexed
  /\ OneChallengePerWallet /\ RotationsCounted /\ ArchiveKeepsRows /\ ServesMigrated /\ ReportsTile

LEMMA ServicesInvKeeps == ServicesInv => ServicesKeep
<1> SUFFICES ASSUME ServicesInv PROVE ServicesKeep
  OBVIOUS
<1>1. /\ IdemOnceUnlessOverlapped /\ StaleOnlyByOverlap /\ AuditAccounted /\ RunwayOfAMoment
      /\ NotifiedAsAsked /\ PayslipFound
  BY IdemKeeps, CacheKeeps, AuditInvAccounts, MonKeeps, NoticeKeeps, PayKeeps
     DEF ServicesInv, RequestServicesInv
<1>2. /\ NonceAccounted /\ RangeIndexed /\ OneChallengePerWallet /\ RotationsCounted
      /\ ArchiveKeepsRows /\ ServesMigrated /\ ReportsTile
  BY NonceKeeps, CctKeeps, WalletKeeps, KeyKeeps, ArchKeeps, MigKeeps, ReportKeeps
     DEF ServicesInv, RecordServicesInv
<1> QED BY <1>1, <1>2 DEF ServicesKeep

\* All the promises together, of the specification the run checks: answers, caches,
\* audit entries, notices, numbers, deposits, secrets, archive, schema and reports.
THEOREM ServicesTheorem == ServicesSpec => []ServicesKeep
BY ServicesFirst, ServicesInductive, ServicesInvKeeps, PTL DEF ServicesSpec
=============================================================================
