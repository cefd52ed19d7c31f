------------------------- MODULE WebhookDeliveryProofs -------------------------
(* For any events, overlapping requests, faults, retry limit and batch size:   *)
(* the dead-letter queue keeps its promise, no event is forgotten, and nothing *)
(* counts as replayed that was not delivered.                                  *)
EXTENDS WebhookDelivery, SequenceLemmas

\* A request that may still put an item in the queue.  Every item was put there
\* by a delivery of its own, so that the rows of the queue and these requests
\* together are no more than the events and the calls by hand.
Pushers == {c \in Callers : caller[c].pc \in {"retry", "post", "log", "update", "push"}}
Tokens == Len(dlq) + Cardinality(Pushers) <= Cardinality(Logged) + byHand

\* The item i is not the only one of its event.
HasAnother(i, e) == \E j \in DOMAIN dlq : j # i /\ dlq[j].event = e

\* What is true of a request under way.
CallerInv(c) ==
  caller[c].pc # "idle" =>
    /\ caller[c].event \in Logged
    /\ caller[c].item # 0 => caller[c].item \in DOMAIN dlq
    /\ caller[c].item # 0 /\ caller[c].item \notin viaReplay =>
         /\ dlq[caller[c].item].event = caller[c].event
         /\ caller[c].pc = "mark" =>
              caller[c].event \in acked \/ HasAnother(caller[c].item, caller[c].event)
    /\ caller[c].pc = "mark" =>
         /\ caller[c].item # 0
         /\ faults = 0 => caller[c].event \in acked \/ ItemsOf(caller[c].event) # {}
    /\ caller[c].ok => caller[c].event \in acked
    /\ caller[c].pc \in {"post", "log"} => caller[c].attempt <= attempts[caller[c].event] + 1
    /\ caller[c].pc = "update" => caller[c].attempt <= attempts[caller[c].event]

\* A batch that has the item in hand, and one that has tried it and is not done.
Busy(b, i) == \E n \in DOMAIN worker[b].batch : worker[b].batch[n].item = i
Tried(b, i) == worker[b].pc \notin {"idle", "post"} /\ Current(b).item = i

\* The batches that have the item in hand, and those yet to try it.
Holders(i) == {b \in Batches : Busy(b, i)}
Owing(i) == {b \in Holders(i) : ~Tried(b, i)}

\* The tries of an item, made and to be made, that no fault and no second batch
\* accounts for.  No step but the listing of an item nobody holds adds to it.
Load(i) == posts[i] + Cardinality(Owing(i)) - faults - shared[i]

\* What is true of an item: its retry count never runs ahead of its tries, what
\* is missing from the count of a waiting item was lost by a fault or a second
\* batch, and each batch that has it in hand may bury it once.
ItemInv(i) ==
  /\ i \in DOMAIN dlq =>
       /\ dlq[i].event \in Logged
       /\ dlq[i].retries <= posts[i] /\ Load(i) <= MaxRetries
       /\ dlq[i].status = "pending" =>
            /\ dlq[i].retries < MaxRetries /\ audits[i] = 0
            /\ Load(i) <= dlq[i].retries + (IF Holders(i) = {} THEN 0 ELSE 1)
  /\ i \notin DOMAIN dlq => posts[i] = 0 /\ audits[i] = 0
  /\ audits[i] + Cardinality(Holders(i)) <= 1 + shared[i]

\* What is true of an entry of a batch, however far others have come meanwhile.
EntryInv(b, n) ==
  LET entry == worker[b].batch[n]
      i == entry.item
  IN
  /\ i \in DOMAIN dlq /\ entry.retries <= posts[i]
  /\ Load(i) <= entry.retries + 1

\* What is true of the entry a batch has just tried.
TriedInv(b) ==
  worker[b].pc \notin {"idle", "post"} =>
    LET i == Current(b).item
        next == Current(b).retries + 1
    IN
    /\ next <= posts[i]
    /\ worker[b].pc = "replayed" => dlq[i].event \in acked
    /\ worker[b].pc \in {"close", "bury", "audit"} => dlq[i].status # "pending"
    /\ worker[b].pc \in {"discarded", "bury", "audit"} => next >= MaxRetries
    /\ worker[b].pc = "patch" => next < MaxRetries

BatchInv(b) ==
  /\ worker[b].pc = "idle" <=> worker[b].batch = <<>>
  /\ \A m, n \in DOMAIN worker[b].batch :
       worker[b].batch[m].item = worker[b].batch[n].item => m = n
  /\ \A n \in DOMAIN worker[b].batch : EntryInv(b, n)
  /\ TriedInv(b)

WorkerInv == \A b \in Batches : BatchInv(b)

CallersInv == \A c \in Callers : CallerInv(c)
QueueInv == \A i \in Items : ItemInv(i)
DeliveryInv == NothingForgotten /\ AttemptsLogged /\ ReplayedWasDelivered

IInv == TypeOK /\ Tokens /\ CallersInv /\ QueueInv /\ WorkerInv /\ DeliveryInv

-----------------------------------------------------------------------------
(* Types. *)

\* There are finitely many items, and the queue's rows are among them.
LEMMA ItemsFinite ==
  ASSUME TypeOK
  PROVE  /\ MaxItems \in Nat /\ Len(dlq) \in Nat
         /\ DOMAIN dlq = 1..Len(dlq) /\ DOMAIN dlq \subseteq Items
         /\ 0 \notin DOMAIN dlq
<1>1. Cardinality(Events) \in Nat
  BY FiniteAssumption, FS_CardinalityType
<1>2. Len(dlq) \in Nat /\ DOMAIN dlq = 1..Len(dlq) /\ Len(dlq) <= MaxItems
  BY LenProperties DEF TypeOK
<1> QED
  BY <1>1, <1>2, BoundsAssumption DEF MaxItems, Items, TypeOK

LEMMA RowType ==
  ASSUME TypeOK, NEW i \in DOMAIN dlq
  PROVE  /\ i \in Items /\ i # 0 /\ dlq[i] \in QueueRows /\ dlq[i].event \in Events
         /\ dlq[i].status \in ItemStatus /\ dlq[i].retries \in 0..MaxRetries
<1>1. i \in Items /\ i # 0
  BY ItemsFinite
<1>2. dlq[i] \in QueueRows
  BY ElementOfSeq, LenProperties DEF TypeOK
<1> QED
  BY <1>1, <1>2 DEF QueueRows

\* The records a request passes through.
LEMMA CallerRecords ==
  ASSUME NEW a \in BusyCallers
  PROVE  /\ a.pc \in {"retry", "post", "log", "update", "push", "mark"}
         /\ a.pc # "idle" /\ a # IdleCaller
         /\ a.event \in Events /\ a.attempt \in Nat /\ a.ok \in BOOLEAN
         /\ a.item \in Items \cup {0}
BY DEF BusyCallers, IdleCaller

\* A request is idle or has all its fields.
LEMMA CallerType ==
  ASSUME TypeOK, NEW c \in Callers
  PROVE  caller[c].pc # "idle" <=> caller[c] \in BusyCallers
BY CallerRecords DEF TypeOK, IdleCaller

\* A step of one request writes its own record and no other.
LEMMA CallerWritten ==
  ASSUME TypeOK, NEW c \in Callers, NEW rec \in BusyCallers \cup {IdleCaller},
         caller' = [caller EXCEPT ![c] = rec]
  PROVE  /\ caller' \in [Callers -> BusyCallers \cup {IdleCaller}]
         /\ caller'[c] = rec
         /\ \A d \in Callers \ {c} : caller'[d] = caller[d]
BY DEF TypeOK

\* What its steps write: the place of the next step, and with it the outcome of
\* the POST or the count of the event.
LEMMA CallerMoves ==
  ASSUME NEW a \in BusyCallers, NEW x \in {"log", "update", "push", "mark"},
         NEW b, b = [a EXCEPT !.pc = x]
  PROVE  /\ b \in BusyCallers /\ b.pc = x
         /\ b.event = a.event /\ b.item = a.item /\ b.ok = a.ok /\ b.attempt = a.attempt
BY DEF BusyCallers

LEMMA CallerAnswered ==
  ASSUME NEW a \in BusyCallers, NEW ok \in BOOLEAN
  PROVE  LET b == Answered(a, ok) IN
         /\ b \in BusyCallers /\ b.pc = "log" /\ b.ok = ok
         /\ b.event = a.event /\ b.item = a.item /\ b.attempt = a.attempt
BY DEF BusyCallers, Answered

LEMMA CallerGivesUp ==
  ASSUME NEW a \in BusyCallers, NEW n \in Nat
  PROVE  LET b == GivenUp(a, n) IN
         /\ b \in BusyCallers /\ b.pc = "update" /\ b.attempt = n
         /\ b.event = a.event /\ b.item = a.item /\ b.ok = a.ok
BY DEF BusyCallers, GivenUp

\* An update of the status of an item.
LEMMA StatusWritten ==
  ASSUME TypeOK, NEW i \in DOMAIN dlq, NEW x \in ItemStatus,
         dlq' = [dlq EXCEPT ![i].status = x]
  PROVE  /\ dlq' \in Seq(QueueRows) /\ Len(dlq') = Len(dlq) /\ DOMAIN dlq' = DOMAIN dlq
         /\ \A j \in DOMAIN dlq :
              /\ dlq'[j].event = dlq[j].event /\ dlq'[j].retries = dlq[j].retries
              /\ dlq'[j].status = IF j = i THEN x ELSE dlq[j].status
<1> DEFINE row == [dlq[i] EXCEPT !.status = x]
<1>1. dlq \in Seq(QueueRows) /\ dlq[i] \in QueueRows
  BY ElementOfSeq, LenProperties DEF TypeOK
<1>2. /\ row \in QueueRows /\ row.status = x
      /\ row.event = dlq[i].event /\ row.retries = dlq[i].retries
  BY <1>1 DEF QueueRows
<1>3. dlq' = [dlq EXCEPT ![i] = row]
  OBVIOUS
<1> HIDE DEF row
<1> QED
  BY <1>1, <1>2, <1>3, RowWritten

\* An update of its retry count.
LEMMA RetriesWritten ==
  ASSUME TypeOK, NEW i \in DOMAIN dlq, NEW n \in 0..MaxRetries,
         dlq' = [dlq EXCEPT ![i].retries = n]
  PROVE  /\ dlq' \in Seq(QueueRows) /\ Len(dlq') = Len(dlq) /\ DOMAIN dlq' = DOMAIN dlq
         /\ \A j \in DOMAIN dlq :
              /\ dlq'[j].event = dlq[j].event /\ dlq'[j].status = dlq[j].status
              /\ dlq'[j].retries = IF j = i THEN n ELSE dlq[j].retries
<1> DEFINE row == [dlq[i] EXCEPT !.retries = n]
<1>1. dlq \in Seq(QueueRows) /\ dlq[i] \in QueueRows
  BY ElementOfSeq, LenProperties DEF TypeOK
<1>2. /\ row \in QueueRows /\ row.retries = n
      /\ row.event = dlq[i].event /\ row.status = dlq[i].status
  BY <1>1 DEF QueueRows
<1>3. dlq' = [dlq EXCEPT ![i] = row]
  OBVIOUS
<1> HIDE DEF row
<1> QED
  BY <1>1, <1>2, <1>3, RowWritten

\* The places of a batch, and what its steps write.
LEMMA BatchWritten ==
  ASSUME TypeOK, NEW b \in Batches, NEW w \in Workers, Goes(b, w)
  PROVE  /\ worker' \in [Batches -> Workers] /\ worker'[b] = w
         /\ \A d \in Batches \ {b} : worker'[d] = worker[d]
BY DEF TypeOK, Goes

LEMMA PlaceWritten ==
  ASSUME NEW w \in Workers,
         NEW x \in {"replayed", "discarded", "close", "patch", "bury", "audit"}
  PROVE  At(w, x) \in Workers /\ At(w, x).pc = x /\ At(w, x).batch = w.batch
BY DEF Workers, At

\* A batch has a current item while it is busy, and what is left of it is again
\* a batch.
LEMMA CurrentItem ==
  ASSUME TypeOK, NEW b \in Batches, BatchInv(b), worker[b].pc # "idle"
  PROVE  /\ worker[b] \in Workers /\ 1 \in DOMAIN worker[b].batch
         /\ Current(b) \in BatchEntries /\ Current(b) = worker[b].batch[1]
         /\ Current(b).item \in DOMAIN dlq /\ Current(b).item \in Items
         /\ Current(b).retries \in 0..MaxRetries - 1
         /\ Rest(worker[b]) \in Workers
<1>1. worker[b] \in Workers /\ worker[b].batch \in Seq(BatchEntries) /\ worker[b].batch # <<>>
  BY DEF TypeOK, Workers, BatchInv
<1>2. /\ Head(worker[b].batch) = worker[b].batch[1] /\ worker[b].batch[1] \in BatchEntries
      /\ 1 \in DOMAIN worker[b].batch /\ Tail(worker[b].batch) \in Seq(BatchEntries)
  BY <1>1, RestOfBatch
<1>3. Current(b).item \in DOMAIN dlq
  BY <1>2 DEF BatchInv, EntryInv, Current
<1>4. Rest(worker[b]) \in Workers
  BY <1>2 DEF Rest, Workers
<1> QED
  BY <1>1, <1>2, <1>3, <1>4 DEF Current, BatchEntries

\* A fresh batch: waiting items, each once, with the retry counts of the moment.
LEMMA FreshBatch ==
  ASSUME TypeOK, QueueInv, NEW due,
         due \subseteq {i \in DOMAIN dlq : dlq[i].status = "pending"}, due # {},
         NEW batch,
         batch = SetToSeq({[item |-> i, retries |-> dlq[i].retries] : i \in due})
  PROVE  /\ batch \in Seq(BatchEntries) /\ batch # <<>>
         /\ \A n \in DOMAIN batch :
              /\ batch[n].item \in due
              /\ batch[n].retries = dlq[batch[n].item].retries
         /\ \A m, n \in DOMAIN batch : batch[m].item = batch[n].item => m = n
         /\ \A i \in due : \E n \in DOMAIN batch : batch[n].item = i
<1> DEFINE Entry(i) == [item |-> i, retries |-> dlq[i].retries]
           S == {Entry(i) : i \in due}
           f == [i \in due |-> Entry(i)]
<1>1. DOMAIN dlq \subseteq Items /\ DOMAIN dlq = 1..Len(dlq) /\ Len(dlq) \in Nat
  BY ItemsFinite
<1>2. IsFiniteSet(due)
  <2>1. IsFiniteSet(1..Len(dlq))
    BY <1>1, FS_Interval
  <2>2. due \subseteq 1..Len(dlq)
    BY <1>1
  <2> QED
    BY <2>1, <2>2, FS_Subset
<1>3. f \in Surjection(due, S)
  BY DEF Surjection
<1>4. IsFiniteSet(S)
  <2> HIDE DEF S, f
  <2> QED
    BY <1>2, <1>3, FS_Surjection
<1>5. S # {}
  OBVIOUS
<1>6. \A i \in due : dlq[i].retries \in 0..MaxRetries - 1
  <2> SUFFICES ASSUME NEW i \in due PROVE dlq[i].retries \in 0..MaxRetries - 1
    OBVIOUS
  <2>1. dlq[i] \in QueueRows /\ i \in Items /\ dlq[i].status = "pending"
    BY <1>1, ElementOfSeq DEF TypeOK
  <2>2. dlq[i].retries < MaxRetries
    BY <2>1 DEF QueueInv, ItemInv
  <2> QED
    BY <2>1, <2>2, BoundsAssumption DEF QueueRows
<1>7. S \subseteq BatchEntries
  BY <1>1, <1>6 DEF BatchEntries
<1>8. \A x \in S : x.item \in due /\ x.retries = dlq[x.item].retries
  OBVIOUS
<1>9. /\ \A x, y \in S : x.item = y.item => x = y
      /\ \A i \in due : \E x \in S : x.item = i
  <2>1. \A x, y \in S : x.item = y.item => x = y
    OBVIOUS
  <2>2. ASSUME NEW i \in due PROVE \E x \in S : x.item = i
    <3>1. Entry(i) \in S /\ Entry(i).item = i
      OBVIOUS
    <3> QED
      BY <3>1
  <2> HIDE DEF S
  <2> QED
    BY <2>1, <2>2
<1> HIDE DEF S
<1>10. /\ batch \in Seq(S) /\ batch # <<>>
       /\ \A m, n \in DOMAIN batch : batch[m] = batch[n] => m = n
  <2>1. batch = SetToSeq(S)
    BY DEF S
  <2> QED
    BY <1>4, <1>5, <2>1, SetToSeqIsListing, ListingOfSome
<1>11. batch \in Seq(BatchEntries)
  BY <1>7, <1>10, SeqMonotonic
<1>12. \A n \in DOMAIN batch : batch[n] \in S
  BY <1>10, ElementOfSeq, LenProperties
<1>13. \A m, n \in DOMAIN batch : batch[m].item = batch[n].item => m = n
  BY <1>9, <1>10, <1>12
<1>14. \A n \in DOMAIN batch :
         batch[n].item \in due /\ batch[n].retries = dlq[batch[n].item].retries
  BY <1>8, <1>12
<1>15. ASSUME NEW i \in due PROVE \E n \in DOMAIN batch : batch[n].item = i
  <2>1. PICK x \in S : x.item = i
    BY <1>9
  <2>2. batch = SetToSeq(S)
    BY DEF S
  <2>3. PICK n \in DOMAIN SetToSeq(S) : SetToSeq(S)[n] = x
    BY <1>4, ListingOfAll
  <2> QED
    BY <2>1, <2>2, <2>3
<1> QED
  BY <1>10, <1>11, <1>13, <1>14, <1>15

-----------------------------------------------------------------------------
(* What each step does to the requests, and that every variable keeps its type. *)

\* Of the requests only c changes, and every record keeps its type.
Moves(c) ==
  /\ caller' \in [Callers -> BusyCallers \cup {IdleCaller}]
  /\ \A d \in Callers \ {c} : caller'[d] = caller[d]

\* A request starts.
LEMMA StartsEffect ==
  ASSUME TypeOK, NEW c \in Callers, NEW e \in Events, NEW n \in Nat,
         NEW item \in Items \cup {0}, Starts(c, e, n, item)
  PROVE  /\ Moves(c)
         /\ caller'[c] \in BusyCallers /\ caller'[c].pc = "post"
         /\ caller'[c].event = e /\ caller'[c].attempt = n
         /\ caller'[c].item = item /\ caller'[c].ok = FALSE
<1> DEFINE rec == [pc |-> "post", event |-> e, ok |-> FALSE, attempt |-> n, item |-> item]
<1>1. rec \in BusyCallers
  BY DEF BusyCallers
<1>2. caller' = [caller EXCEPT ![c] = rec]
  BY DEF Starts
<1> QED
  BY <1>1, <1>2, CallerWritten DEF Moves

\* A request by hand begins.
LEMMA RetryEffect ==
  ASSUME TypeOK, NEW c \in Callers, NEW e \in Events, NEW item \in Items \cup {0},
         RetryByHand(c, e, item)
  PROVE  /\ Moves(c)
         /\ caller'[c] \in BusyCallers /\ caller'[c].pc = "retry"
         /\ caller'[c].event = e /\ caller'[c].item = item /\ caller'[c].ok = FALSE
<1> DEFINE rec == [pc |-> "retry", event |-> e, ok |-> FALSE, attempt |-> 0, item |-> item]
<1>1. rec \in BusyCallers
  BY DEF BusyCallers
<1>2. caller' = [caller EXCEPT ![c] = rec]
  BY DEF RetryByHand
<1> QED
  BY <1>1, <1>2, CallerWritten DEF Moves

\* Its delivery has an outcome.
LEMMA PostEffect ==
  ASSUME TypeOK, NEW c \in Callers, NEW ok \in BOOLEAN, Post(c, ok)
  PROVE  /\ Moves(c) /\ caller[c] \in BusyCallers
         /\ caller'[c] \in BusyCallers /\ caller'[c].pc = "log" /\ caller'[c].ok = ok
         /\ caller'[c].event = caller[c].event /\ caller'[c].item = caller[c].item
         /\ caller'[c].attempt = caller[c].attempt
<1>1. caller[c] \in BusyCallers
  BY CallerType DEF Post
<1>2. caller' = [caller EXCEPT ![c] = Answered(caller[c], ok)]
  BY DEF Post
<1> DEFINE b == Answered(caller[c], ok)
<1>3. /\ b \in BusyCallers /\ b.pc = "log" /\ b.ok = ok
      /\ b.event = caller[c].event /\ b.item = caller[c].item /\ b.attempt = caller[c].attempt
  BY <1>1, CallerAnswered
<1> HIDE DEF b
<1>4. caller' = [caller EXCEPT ![c] = b]
  BY <1>2 DEF b
<1> QED
  BY <1>1, <1>3, <1>4, CallerWritten DEF Moves

\* A request goes on to its next step without anything to remember.
LEMMA MovesEffect ==
  ASSUME TypeOK, NEW c \in Callers, caller[c].pc # "idle",
         NEW x \in {"log", "update", "push", "mark"},
         caller' = [caller EXCEPT ![c].pc = x]
  PROVE  /\ Moves(c) /\ caller[c] \in BusyCallers
         /\ caller'[c] \in BusyCallers /\ caller'[c].pc = x
         /\ caller'[c].ok = caller[c].ok /\ caller'[c].attempt = caller[c].attempt
         /\ caller'[c].event = caller[c].event /\ caller'[c].item = caller[c].item
<1> DEFINE rec == [caller[c] EXCEPT !.pc = x]
<1>1. caller[c] \in BusyCallers
  BY CallerType
<1>2. /\ rec \in BusyCallers /\ rec.pc = x /\ rec.ok = caller[c].ok
      /\ rec.event = caller[c].event /\ rec.item = caller[c].item
      /\ rec.attempt = caller[c].attempt
  BY <1>1, CallerMoves
<1>3. caller' = [caller EXCEPT ![c] = rec]
  OBVIOUS
<1> HIDE DEF rec
<1> QED
  BY <1>1, <1>2, <1>3, CallerWritten DEF Moves

\* A request that returns is idle, or marks the item it came from.
LEMMA ReturnsEffect ==
  ASSUME TypeOK, NEW c \in Callers, caller[c].pc # "idle",
         caller' = [caller EXCEPT ![c] = Returned(c)]
  PROVE  /\ Moves(c) /\ caller[c] \in BusyCallers
         /\ caller[c].item = 0 => caller'[c] = IdleCaller
         /\ caller[c].item # 0 =>
              /\ caller'[c] \in BusyCallers /\ caller'[c].pc = "mark"
              /\ caller'[c].ok = caller[c].ok
              /\ caller'[c].event = caller[c].event /\ caller'[c].item = caller[c].item
<1>1. caller[c] \in BusyCallers
  BY CallerType
<1>2. CASE caller[c].item = 0
  BY <1>1, <1>2, CallerWritten DEF Returned, Moves
<1>3. CASE caller[c].item # 0
  <2>1. caller' = [caller EXCEPT ![c].pc = "mark"]
    BY <1>3 DEF Returned
  <2> QED
    BY <1>3, <2>1, MovesEffect
<1> QED
  BY <1>1, <1>2, <1>3

\* A retry finds the subscription of the event, or gives up on it.
LEMMA RetryReadsEffect ==
  ASSUME TypeOK, CallersInv, NEW c \in Callers, RetryReads(c)
  PROVE  /\ Moves(c) /\ caller[c] \in BusyCallers
         /\ caller'[c] \in BusyCallers /\ (caller'[c].ok => caller[c].ok)
         /\ caller'[c].event = caller[c].event /\ caller'[c].item = caller[c].item
         /\ outbound[caller[c].event].count \in Nat
         /\ \/ /\ caller'[c].pc = "post"
               /\ caller'[c].attempt = outbound[caller[c].event].count + 1
            \/ /\ caller'[c].pc = "update"
               /\ caller'[c].attempt = outbound[caller[c].event].count
<1> DEFINE e == caller[c].event
           n == outbound[e].count
<1>1. caller[c] \in BusyCallers /\ caller[c].pc # "idle"
  BY CallerType DEF RetryReads
<1>2. e \in Events /\ caller[c].item \in Items \cup {0} /\ e \in Logged
  BY <1>1, CallerRecords DEF CallersInv, CallerInv
<1>3. n \in Nat
  BY <1>2 DEF TypeOK, Logged, OutboundRows
<1>4. CASE Starts(c, e, n + 1, caller[c].item)
  <2> DEFINE item == caller[c].item
             m == n + 1
  <2>1. e \in Events /\ m \in Nat /\ item \in Items \cup {0} /\ Starts(c, e, m, item)
    BY <1>2, <1>3, <1>4
  <2> HIDE DEF e, n, m, item
  <2>2. /\ Moves(c)
        /\ caller'[c] \in BusyCallers /\ caller'[c].pc = "post"
        /\ caller'[c].event = e /\ caller'[c].attempt = m
        /\ caller'[c].item = item /\ caller'[c].ok = FALSE
    BY <2>1, StartsEffect
  <2> QED
    BY <1>1, <1>3, <2>2 DEF e, n, m, item
<1>5. CASE caller' = [caller EXCEPT ![c] = GivenUp(caller[c], n)]
  <2> DEFINE b == GivenUp(caller[c], n)
  <2>1. /\ b \in BusyCallers /\ b.pc = "update" /\ b.attempt = n
        /\ b.event = e /\ b.item = caller[c].item /\ b.ok = caller[c].ok
    BY <1>1, <1>3, CallerGivesUp
  <2> HIDE DEF b
  <2>2. caller' = [caller EXCEPT ![c] = b]
    BY <1>5 DEF b
  <2> QED
    BY <1>1, <1>3, <2>1, <2>2, CallerWritten DEF Moves
<1> QED
  BY <1>4, <1>5 DEF RetryReads

\* A request whose statement throws is over, unless it replays another item.
LEMMA FailsEffect ==
  ASSUME TypeOK, NEW c \in Callers, CallerFails(c)
  PROVE  /\ Moves(c) /\ caller[c] \in BusyCallers
         /\ \/ caller'[c] = IdleCaller
            \/ /\ Replays(c) /\ caller'[c] \in BusyCallers /\ caller'[c].pc = "mark"
               /\ caller'[c].ok = caller[c].ok
               /\ caller'[c].event = caller[c].event /\ caller'[c].item = caller[c].item
<1>1. caller[c] \in BusyCallers /\ caller[c].pc # "idle"
  BY CallerType DEF CallerFails
<1>2. CASE caller[c].pc # "mark" /\ Replays(c)
  <2>1. caller' = [caller EXCEPT ![c].pc = "mark"]
    BY <1>2 DEF CallerFails
  <2> QED
    BY <1>1, <1>2, <2>1, MovesEffect
<1>3. CASE ~(caller[c].pc # "mark" /\ Replays(c))
  <2>1. caller' = [caller EXCEPT ![c] = IdleCaller]
    BY <1>3 DEF CallerFails
  <2> QED
    BY <1>1, <2>1, CallerWritten DEF Moves
<1> QED
  BY <1>2, <1>3

\* A write to an event's row.
LEMMA EventWritten ==
  ASSUME TypeOK, NEW e \in Events, NEW row \in OutboundRows,
         outbound' = [outbound EXCEPT ![e] = row]
  PROVE  /\ outbound' \in [Events -> OutboundRows \cup {NoEvent}]
         /\ outbound'[e] = row /\ \A d \in Events \ {e} : outbound'[d] = outbound[d]
         /\ Logged' = Logged \cup {e}
<1>1. /\ outbound' \in [Events -> OutboundRows \cup {NoEvent}]
      /\ outbound'[e] = row /\ \A d \in Events \ {e} : outbound'[d] = outbound[d]
  BY DEF TypeOK
<1> QED
  BY <1>1, NoEventAssumption DEF Logged

-----------------------------------------------------------------------------
(* What no step takes back, and what follows for the requests that a step     *)
(* leaves alone.                                                               *)

Grows ==
  /\ Logged \subseteq Logged' /\ acked \subseteq acked' /\ viaReplay \subseteq viaReplay'
  /\ DOMAIN dlq \subseteq DOMAIN dlq'
  /\ \A i \in DOMAIN dlq : dlq'[i].event = dlq[i].event
  /\ \A e \in Events : attempts[e] <= attempts'[e]
  /\ faults <= faults'

LEMMA OthersKept ==
  ASSUME TypeOK, TypeOK', Grows, NEW c \in Callers, CallerInv(c), caller'[c] = caller[c]
  PROVE  CallerInv(c)'
<1> DEFINE e == caller[c].event
           i == caller[c].item
<1> SUFFICES ASSUME caller[c].pc # "idle" PROVE CallerInv(c)'
  BY DEF CallerInv
<1>1. caller[c] \in BusyCallers /\ e \in Events /\ caller[c].attempt \in Nat
  BY CallerType, CallerRecords
<1>2. e \in Logged /\ e \in Logged'
  BY DEF CallerInv, Grows
<1>3. i # 0 => i \in DOMAIN dlq /\ i \in DOMAIN dlq' /\ dlq'[i].event = dlq[i].event
  BY DEF CallerInv, Grows
<1>4. HasAnother(i, e) => HasAnother(i, e)'
  BY DEF HasAnother, Grows
<1>5. ItemsOf(e) # {} => ItemsOf(e)' # {}
  BY DEF ItemsOf, Grows
<1>6. i # 0 /\ i \notin viaReplay' =>
        /\ dlq'[i].event = e
        /\ caller[c].pc = "mark" => e \in acked' \/ HasAnother(i, e)'
  BY <1>3, <1>4 DEF CallerInv, Grows
<1>7. faults' = 0 => faults = 0
  BY DEF Grows, TypeOK
<1>8. caller[c].pc = "mark" =>
        i # 0 /\ (faults' = 0 => e \in acked' \/ ItemsOf(e)' # {})
  BY <1>5, <1>7 DEF CallerInv, Grows
<1>9. attempts[e] \in Nat /\ attempts'[e] \in Nat /\ attempts[e] <= attempts'[e]
  BY <1>1 DEF Grows, TypeOK
<1>10. /\ caller[c].ok => e \in acked'
       /\ caller[c].pc \in {"post", "log"} => caller[c].attempt <= attempts'[e] + 1
       /\ caller[c].pc = "update" => caller[c].attempt <= attempts'[e]
  BY <1>1, <1>9 DEF CallerInv, Grows
<1> QED
  BY <1>2, <1>3, <1>6, <1>8, <1>10 DEF CallerInv

LEMMA CallersKept ==
  ASSUME TypeOK, TypeOK', Grows, CallersInv, UNCHANGED caller
  PROVE  CallersInv'
BY OthersKept DEF CallersInv

LEMMA CallersKeptBut ==
  ASSUME TypeOK, TypeOK', Grows, CallersInv, NEW c \in Callers, Moves(c), CallerInv(c)'
  PROVE  CallersInv'
<1> SUFFICES ASSUME NEW d \in Callers PROVE CallerInv(d)'
  BY DEF CallersInv
<1>1. CASE d = c
  BY <1>1
<1>2. CASE d # c
  BY <1>2, OthersKept DEF CallersInv, Moves
<1> QED
  BY <1>1, <1>2

\* No event is forgotten as long as no request lets go of one that is neither
\* delivered nor in the queue.
HandsOver(c) ==
  \A e \in Events :
    caller[c].pc # "idle" /\ caller[c].event = e /\ faults' = 0 =>
      \/ e \in acked' \/ ItemsOf(e)' # {}
      \/ caller'[c].pc # "idle" /\ caller'[c].event = e

LEMMA NothingForgottenKept ==
  ASSUME TypeOK, TypeOK', Grows, NothingForgotten, \A c \in Callers : HandsOver(c),
         \A e \in Logged' \ Logged :
           \E c \in Callers : caller'[c].pc # "idle" /\ caller'[c].event = e
  PROVE  NothingForgotten'
<1> SUFFICES ASSUME NEW e \in Logged', faults' = 0
             PROVE  \/ e \in acked' \/ ItemsOf(e)' # {}
                    \/ \E c \in Callers : caller'[c].pc # "idle" /\ caller'[c].event = e
  BY DEF NothingForgotten
<1>1. faults = 0
  BY DEF Grows, TypeOK
<1>2. CASE e \notin Logged
  BY <1>2
<1>3. CASE e \in Logged
  <2>1. CASE e \in acked
    BY <2>1 DEF Grows
  <2>2. CASE ItemsOf(e) # {}
    BY <2>2 DEF ItemsOf, Grows
  <2>3. CASE \E c \in Callers : caller[c].pc # "idle" /\ caller[c].event = e
    BY <2>3, <1>3 DEF HandsOver, Logged
  <2> QED
    BY <1>1, <1>3, <2>1, <2>2, <2>3 DEF NothingForgotten
<1> QED
  BY <1>2, <1>3

\* An item that was replayed stays delivered or replaced, so that only the ones
\* that become replayed count.
LEMMA ReplayedKept ==
  ASSUME TypeOK, TypeOK', Grows, ReplayedWasDelivered,
         \A i \in DOMAIN dlq' :
           dlq'[i].status = "replayed" /\ i \notin viaReplay' =>
             \/ i \in DOMAIN dlq /\ dlq[i].status = "replayed"
             \/ dlq'[i].event \in acked' \/ HasAnother(i, dlq[i].event)'
  PROVE  ReplayedWasDelivered'
<1> SUFFICES ASSUME NEW i \in DOMAIN dlq', dlq'[i].status = "replayed", i \notin viaReplay'
             PROVE  dlq'[i].event \in acked' \/ HasAnother(i, dlq[i].event)'
  BY DEF ReplayedWasDelivered, HasAnother, ItemsOf
<1>1. CASE i \in DOMAIN dlq /\ dlq[i].status = "replayed"
  <2>1. dlq'[i].event = dlq[i].event /\ i \notin viaReplay
    BY <1>1 DEF Grows
  <2>2. CASE dlq[i].event \in acked
    BY <2>1, <2>2 DEF Grows
  <2>3. CASE ItemsOf(dlq[i].event) # {i}
    <3>1. PICK j \in DOMAIN dlq : j # i /\ dlq[j].event = dlq[i].event
      BY <1>1, <2>3 DEF ItemsOf
    <3> QED
      BY <2>1, <3>1 DEF HasAnother, Grows
  <2> QED
    BY <1>1, <2>1, <2>2, <2>3 DEF ReplayedWasDelivered
<1> QED
  BY <1>1

-----------------------------------------------------------------------------
(* The load of an item and who has it in hand. *)

LEMMA LoadType ==
  ASSUME TypeOK, NEW i \in Items
  PROVE  /\ IsFiniteSet(Holders(i)) /\ IsFiniteSet(Owing(i))
         /\ Cardinality(Holders(i)) \in Nat /\ Cardinality(Owing(i)) \in Nat
         /\ Owing(i) \subseteq Holders(i)
         /\ Cardinality(Owing(i)) <= Cardinality(Holders(i))
         /\ posts[i] \in Nat /\ audits[i] \in Nat /\ shared[i] \in Nat
         /\ faults \in Nat /\ MaxRetries \in Nat /\ MaxRetries > 0 /\ Load(i) \in Int
<1>1. Holders(i) \subseteq Batches /\ Owing(i) \subseteq Holders(i)
  BY DEF Holders, Owing
<1>2. IsFiniteSet(Holders(i))
  BY <1>1, FiniteAssumption, FS_Subset
<1>3. /\ IsFiniteSet(Owing(i))
      /\ Cardinality(Holders(i)) \in Nat /\ Cardinality(Owing(i)) \in Nat
      /\ Cardinality(Owing(i)) <= Cardinality(Holders(i))
  BY <1>1, <1>2, CountPart
<1>4. /\ posts[i] \in Nat /\ audits[i] \in Nat /\ shared[i] \in Nat
      /\ faults \in Nat /\ MaxRetries \in Nat /\ MaxRetries > 0
  BY BoundsAssumption DEF TypeOK
<1> QED
  BY <1>1, <1>2, <1>3, <1>4 DEF Load

LEMMA LoadTypeNext ==
  ASSUME TypeOK', NEW i \in Items
  PROVE  /\ Cardinality(Holders(i)') \in Nat /\ Cardinality(Owing(i)') \in Nat
         /\ posts'[i] \in Nat /\ shared'[i] \in Nat /\ faults' \in Nat /\ Load(i)' \in Int
<1>1. Holders(i)' \subseteq Batches /\ Owing(i)' \subseteq Batches
  BY DEF Holders, Owing
<1>2. Cardinality(Holders(i)') \in Nat /\ Cardinality(Owing(i)') \in Nat
  BY <1>1, FiniteAssumption, CountPart
<1>3. posts'[i] \in Nat /\ shared'[i] \in Nat /\ faults' \in Nat
  BY BoundsAssumption DEF TypeOK
<1> QED
  BY <1>2, <1>3 DEF Load

\* Only items of the queue are in hand.
LEMMA HeldInQueue ==
  ASSUME WorkerInv, NEW i, i \notin DOMAIN dlq
  PROVE  Holders(i) = {} /\ Owing(i) = {}
BY DEF WorkerInv, BatchInv, EntryInv, Holders, Owing, Busy

\* A batch goes on with the same item.
LEMMA HandsSame ==
  ASSUME NEW b \in Batches, worker'[b].batch = worker[b].batch,
         worker[b].pc \notin {"idle", "post"}, worker'[b].pc \notin {"idle", "post"},
         \A d \in Batches \ {b} : worker'[d] = worker[d], NEW i
  PROVE  Holders(i)' = Holders(i) /\ Owing(i)' = Owing(i)
<1>1. ASSUME NEW d \in Batches
      PROVE  (Busy(d, i)' <=> Busy(d, i)) /\ (Tried(d, i)' <=> Tried(d, i))
  <2>1. CASE d = b
    BY <2>1 DEF Busy, Tried, Current
  <2>2. CASE d # b
    BY <2>2 DEF Busy, Tried, Current
  <2> QED
    BY <2>1, <2>2
<1>2. Holders(i)' = Holders(i)
  BY <1>1 DEF Holders
<1> QED
  BY <1>1, <1>2 DEF Holders, Owing

\* It tries its current item: it owes that try no longer.
LEMMA HandsTry ==
  ASSUME NEW b \in Batches, worker'[b].batch = worker[b].batch, 1 \in DOMAIN worker[b].batch,
         worker[b].pc = "post", worker'[b].pc \notin {"idle", "post"},
         \A d \in Batches \ {b} : worker'[d] = worker[d], NEW i
  PROVE  /\ Holders(i)' = Holders(i)
         /\ i = Current(b).item => b \in Owing(i) /\ Owing(i)' = Owing(i) \ {b}
         /\ i # Current(b).item => Owing(i)' = Owing(i)
<1>1. ASSUME NEW d \in Batches PROVE Busy(d, i)' <=> Busy(d, i)
  BY DEF Busy
<1>2. ASSUME NEW d \in Batches, d # b PROVE Tried(d, i)' <=> Tried(d, i)
  BY <1>2 DEF Tried, Current
<1>3. ~Tried(b, i) /\ (Tried(b, i)' <=> i = Current(b).item)
  BY DEF Tried, Current
<1>4. i = Current(b).item => Busy(b, i)
  BY DEF Busy, Current
<1>5. Holders(i)' = Holders(i)
  BY <1>1 DEF Holders
<1>6. i = Current(b).item => b \in Owing(i)
  BY <1>3, <1>4 DEF Owing, Holders
<1>7. i = Current(b).item => Owing(i)' = Owing(i) \ {b}
  BY <1>2, <1>3, <1>5 DEF Owing, Holders
<1>8. i # Current(b).item => Owing(i)' = Owing(i)
  BY <1>2, <1>3, <1>5 DEF Owing, Holders
<1> QED
  BY <1>5, <1>6, <1>7, <1>8

\* What is left of a batch is as it was listed, less its current item.
LEMMA RestIs ==
  ASSUME TypeOK, NEW b \in Batches, BatchInv(b), worker[b].pc # "idle",
         worker'[b] = Rest(worker[b])
  PROVE  /\ worker'[b].pc \in {"idle", "post"}
         /\ worker'[b].pc = "idle" <=> worker'[b].batch = <<>>
         /\ \A n \in DOMAIN worker'[b].batch :
              /\ n \in Nat /\ n + 1 # 1 /\ n + 1 \in DOMAIN worker[b].batch
              /\ worker'[b].batch[n] = worker[b].batch[n + 1]
         /\ \A n \in DOMAIN worker[b].batch : worker[b].batch[n].item # Current(b).item =>
              \E m \in DOMAIN worker'[b].batch : worker'[b].batch[m] = worker[b].batch[n]
         /\ \A n \in DOMAIN worker'[b].batch : worker'[b].batch[n].item # Current(b).item
<1> DEFINE rest == Tail(worker[b].batch)
<1>1. /\ worker'[b].pc \in {"idle", "post"}
      /\ worker'[b].pc = "idle" <=> worker'[b].batch = <<>>
      /\ worker'[b].batch = rest
  BY DEF Rest
<1>2. worker[b].batch \in Seq(BatchEntries) /\ worker[b].batch # <<>>
  BY DEF TypeOK, Workers, BatchInv
<1>3. rest \in Seq(BatchEntries) /\ Head(worker[b].batch) = worker[b].batch[1]
      /\ 1 \in DOMAIN worker[b].batch
  BY <1>2, RestOfBatch
<1>4. ASSUME NEW n \in DOMAIN rest
      PROVE  /\ n \in Nat /\ n + 1 # 1 /\ n + 1 \in DOMAIN worker[b].batch
             /\ rest[n] = worker[b].batch[n + 1]
  <2>1. n \in Nat
    BY <1>3, LenProperties
  <2>2. n >= 1 /\ n + 1 \in DOMAIN worker[b].batch /\ rest[n] = worker[b].batch[n + 1]
    BY <1>2, <2>1, RestOfBatch
  <2> QED
    BY <2>1, <2>2
<1>5. ASSUME NEW n \in DOMAIN worker[b].batch, worker[b].batch[n].item # Current(b).item
      PROVE  \E m \in DOMAIN rest : rest[m] = worker[b].batch[n]
  <2>1. worker[b].batch[n] # Head(worker[b].batch)
    BY <1>3, <1>5 DEF Current
  <2> QED
    BY <1>2, <2>1, RestKeeps
<1>6. ASSUME NEW n \in DOMAIN rest PROVE rest[n].item # Current(b).item
  BY <1>3, <1>4, <1>6 DEF BatchInv, Current
<1> HIDE DEF rest
<1> QED
  BY <1>1, <1>4, <1>5, <1>6

\* It has done with its current item.
LEMMA HandsLess ==
  ASSUME TypeOK, NEW b \in Batches, BatchInv(b), worker[b].pc # "idle",
         worker'[b] = Rest(worker[b]),
         \A d \in Batches \ {b} : worker'[d] = worker[d], NEW i
  PROVE  /\ i = Current(b).item =>
              /\ b \in Holders(i) /\ Holders(i)' = Holders(i) \ {b}
              /\ Owing(i)' = Owing(i) \ {b}
              /\ worker[b].pc # "post" => b \notin Owing(i)
         /\ i # Current(b).item => Holders(i)' = Holders(i) /\ Owing(i)' = Owing(i)
<1>1. 1 \in DOMAIN worker[b].batch /\ Current(b) = worker[b].batch[1]
  BY CurrentItem
<1>2. ASSUME NEW d \in Batches, d # b
      PROVE  (Busy(d, i)' <=> Busy(d, i)) /\ (Tried(d, i)' <=> Tried(d, i))
  BY <1>2 DEF Busy, Tried, Current
<1>3. ~Tried(b, i)'
  BY RestIs DEF Tried
<1>4. CASE i = Current(b).item
  <2>1. Busy(b, i) /\ ~Busy(b, i)'
    BY <1>1, <1>4, RestIs DEF Busy
  <2>2. worker[b].pc # "post" => Tried(b, i)
    BY <1>4 DEF Tried
  <2>3. b \in Holders(i) /\ Holders(i)' = Holders(i) \ {b}
    BY <1>2, <2>1 DEF Holders
  <2>4. Owing(i)' = Owing(i) \ {b}
    BY <1>2, <2>3 DEF Owing, Holders
  <2> QED
    BY <1>4, <2>2, <2>3, <2>4 DEF Owing
<1>5. CASE i # Current(b).item
  <2>1. Busy(b, i)' <=> Busy(b, i)
    BY <1>5, RestIs DEF Busy
  <2>2. ~Tried(b, i)
    BY <1>5 DEF Tried
  <2>3. Holders(i)' = Holders(i)
    BY <1>2, <2>1 DEF Holders
  <2>4. Owing(i)' = Owing(i)
    BY <1>2, <1>3, <2>2, <2>3 DEF Owing, Holders
  <2> QED
    BY <1>5, <2>3, <2>4
<1> QED
  BY <1>4, <1>5

\* The load of an item in the hands of the same batches.
LEMMA LoadSame ==
  ASSUME TypeOK, TypeOK', NEW i \in Items, posts'[i] = posts[i], shared'[i] = shared[i],
         faults <= faults', Owing(i)' \subseteq Owing(i)
  PROVE  Load(i)' <= Load(i) /\ (faults' = faults + 1 => Load(i)' <= Load(i) - 1)
<1>1. Cardinality(Owing(i)') <= Cardinality(Owing(i)) /\ Cardinality(Owing(i)') \in Nat
  BY LoadType, CountPart
<1>2. faults' \in Nat
  BY BoundsAssumption DEF TypeOK
<1>3. Load(i)' = posts'[i] + Cardinality(Owing(i)') - faults' - shared'[i]
  BY DEF Load
<1> QED
  BY <1>1, <1>2, <1>3, LoadType DEF Load

-----------------------------------------------------------------------------
(* The queue and the batches, under steps that add to nobody's load. *)

\* No item in hand is loaded, and none comes back.
Eases ==
  /\ DOMAIN dlq \subseteq DOMAIN dlq'
  /\ \A i \in DOMAIN dlq :
       /\ posts[i] <= posts'[i] /\ (Holders(i) # {} => Load(i)' <= Load(i))
       /\ dlq'[i].event = dlq[i].event
       /\ dlq'[i].status = "pending" => dlq[i].status = "pending"

\* What an item needs of a step that lets it be.
LEMMA ItemKept ==
  ASSUME TypeOK, TypeOK', Grows, NEW i \in Items, ItemInv(i),
         i \in DOMAIN dlq' <=> i \in DOMAIN dlq,
         i \in DOMAIN dlq =>
           /\ dlq'[i].event = dlq[i].event /\ dlq'[i].retries = dlq[i].retries
           /\ dlq'[i].status = "pending" => dlq[i].status = "pending",
         posts'[i] = posts[i], audits'[i] = audits[i], shared'[i] = shared[i],
         Holders(i)' = Holders(i), Owing(i)' = Owing(i)
  PROVE  ItemInv(i)'
<1>1. faults' \in Nat /\ faults <= faults' /\ Logged \subseteq Logged'
  BY BoundsAssumption DEF TypeOK, Grows
<1>2. Load(i)' <= Load(i)
  BY <1>1, LoadSame
<1>4. Load(i) \in Int /\ Load(i)' \in Int /\ MaxRetries \in Nat
  BY LoadType, LoadTypeNext
<1>5. audits'[i] + Cardinality(Holders(i)') <= 1 + shared'[i]
  BY DEF ItemInv
<1>6. CASE i \notin DOMAIN dlq
  BY <1>5, <1>6 DEF ItemInv
<1>7. CASE i \in DOMAIN dlq
  <2>1. dlq[i].retries \in Nat /\ dlq[i].event \in Logged'
    BY <1>1, <1>4, <1>7, RowType DEF ItemInv
  <2> HIDE DEF Load, Holders, Owing, Logged
  <2>2. dlq'[i].retries <= posts'[i] /\ Load(i)' <= MaxRetries
    BY <1>2, <1>4, <1>7 DEF ItemInv
  <2>3. dlq'[i].status = "pending" =>
          /\ dlq'[i].retries < MaxRetries /\ audits'[i] = 0
          /\ Load(i)' <= dlq'[i].retries + (IF Holders(i)' = {} THEN 0 ELSE 1)
    BY <1>2, <1>4, <1>7, <2>1 DEF ItemInv
  <2> QED
    BY <1>5, <1>7, <2>1, <2>2, <2>3 DEF ItemInv
<1> QED
  BY <1>6, <1>7

\* What an entry of a batch needs, wherever it stands in the batch by now.
LEMMA EntryKept ==
  ASSUME TypeOK, TypeOK', NEW b \in Batches, NEW n \in DOMAIN worker[b].batch,
         EntryInv(b, n), Eases,
         NEW m, worker'[b].batch[m] = worker[b].batch[n]
  PROVE  EntryInv(b, m)'
<1>0. PICK entry, i : entry = worker[b].batch[n] /\ i = entry.item
  OBVIOUS
<1>1. i \in DOMAIN dlq /\ entry.retries <= posts[i] /\ Load(i) <= entry.retries + 1
  BY <1>0 DEF EntryInv
<1>2. entry \in BatchEntries
  <2>1. worker[b].batch \in Seq(BatchEntries)
    BY DEF TypeOK, Workers
  <2> QED
    BY <1>0, <2>1, ElementOfSeq, LenProperties
<1>3. entry.retries \in Nat
  BY <1>2, BoundsAssumption DEF BatchEntries
<1>4. i \in Items /\ i \in DOMAIN dlq' /\ b \in Holders(i)
  BY <1>0, <1>1, RowType DEF Eases, Holders, Busy
<1>5. posts[i] <= posts'[i] /\ Load(i)' <= Load(i)
  BY <1>1, <1>4 DEF Eases
<1>6. posts[i] \in Nat /\ Load(i) \in Int /\ posts'[i] \in Nat
  BY <1>4, LoadType DEF TypeOK
<1>7. Load(i)' \in Int
  BY <1>4, LoadTypeNext
<1>8. entry.retries <= posts'[i] /\ Load(i)' <= entry.retries + 1
  <2> HIDE DEF Load
  <2> QED
    BY <1>1, <1>3, <1>5, <1>6, <1>7
<1> QED
  BY <1>0, <1>4, <1>8 DEF EntryInv

\* What a batch needs that the step leaves where it is.
LEMMA BatchKept ==
  ASSUME TypeOK, TypeOK', Grows, Eases, NEW b \in Batches, BatchInv(b),
         worker'[b] = worker[b]
  PROVE  BatchInv(b)'
<1>1. ASSUME NEW n \in DOMAIN worker[b].batch PROVE EntryInv(b, n)'
  BY EntryKept DEF BatchInv
<1>2. TriedInv(b)'
  <2> SUFFICES ASSUME worker[b].pc \notin {"idle", "post"} PROVE TriedInv(b)'
    BY DEF TriedInv
  <2>0. PICK i, r : i = Current(b).item /\ r = Current(b).retries
    OBVIOUS
  <2>1. i \in DOMAIN dlq /\ i \in Items /\ r \in 0..MaxRetries - 1
    BY <2>0, CurrentItem
  <2>2. /\ posts[i] <= posts'[i] /\ posts[i] \in Nat /\ posts'[i] \in Nat
        /\ dlq'[i].event = dlq[i].event /\ acked \subseteq acked'
        /\ dlq'[i].status = "pending" => dlq[i].status = "pending"
    BY <2>1 DEF Eases, Grows, TypeOK
  <2>3. Current(b)'.item = i /\ Current(b)'.retries = r
    BY <2>0 DEF Current
  <2>4. r + 1 <= posts[i] /\ r \in Int
    BY <2>0, <2>1 DEF BatchInv, TriedInv
  <2>5. r + 1 <= posts'[i]
    BY <2>2, <2>4
  <2> QED
    BY <2>0, <2>2, <2>3, <2>5 DEF BatchInv, TriedInv
<1> QED
  BY <1>1, <1>2 DEF BatchInv

RowsKept ==
  /\ DOMAIN dlq' = DOMAIN dlq
  /\ \A j \in DOMAIN dlq :
       /\ dlq'[j].event = dlq[j].event /\ dlq'[j].retries = dlq[j].retries
       /\ dlq'[j].status = "pending" => dlq[j].status = "pending"

\* The batches stand still.
LEMMA HandsStill ==
  ASSUME UNCHANGED worker, NEW i
  PROVE  Holders(i)' = Holders(i) /\ Owing(i)' = Owing(i)
BY DEF Holders, Owing, Busy, Tried, Current

LEMMA QueueKept ==
  ASSUME TypeOK, TypeOK', Grows, RowsKept, QueueInv, WorkerInv,
         UNCHANGED <<audits, posts, worker, shared>>
  PROVE  QueueInv' /\ WorkerInv'
<1>1. QueueInv'
  <2> SUFFICES ASSUME NEW i \in Items PROVE ItemInv(i)'
    BY DEF QueueInv
  <2>1. Holders(i)' = Holders(i) /\ Owing(i)' = Owing(i)
    BY HandsStill
  <2> QED
    BY <2>1, ItemKept DEF QueueInv, RowsKept
<1>2. Eases
  <2> SUFFICES ASSUME NEW i \in DOMAIN dlq PROVE posts[i] <= posts'[i] /\ Load(i)' <= Load(i)
    BY DEF Eases, RowsKept
  <2>1. i \in Items /\ faults <= faults'
    BY RowType DEF Grows
  <2>2. Owing(i)' = Owing(i)
    BY HandsStill
  <2> QED
    <3>1. posts'[i] = posts[i] /\ shared'[i] = shared[i] /\ posts[i] \in Nat
      BY <2>1 DEF TypeOK
    <3>2. Load(i)' <= Load(i)
      BY <2>1, <2>2, <3>1, LoadSame
    <3> QED
      BY <3>1, <3>2
<1>3. WorkerInv'
  BY <1>2, BatchKept DEF WorkerInv
<1> QED
  BY <1>1, <1>3

LEMMA SameRows ==
  ASSUME UNCHANGED dlq
  PROVE  RowsKept
BY DEF RowsKept

-----------------------------------------------------------------------------
(* Room for every item: the rows of the queue and the requests that may add    *)
(* one are no more than the events and the calls by hand.                      *)

LEMMA Counts ==
  ASSUME TypeOK
  PROVE  /\ IsFiniteSet(Pushers) /\ Cardinality(Pushers) \in Nat
         /\ IsFiniteSet(Logged) /\ Cardinality(Logged) \in Nat
         /\ Cardinality(Logged) <= Cardinality(Events) /\ Cardinality(Events) \in Nat
         /\ Len(dlq) \in Nat /\ byHand \in Nat /\ byHand <= MaxByHand
<1>1. Pushers \subseteq Callers /\ Logged \subseteq Events
  BY DEF Pushers, Logged
<1>2. byHand \in Nat /\ byHand <= MaxByHand
  BY BoundsAssumption DEF TypeOK
<1> QED
  BY <1>1, <1>2, CountPart, FiniteAssumption, ItemsFinite

LEMMA TokensKept ==
  ASSUME TypeOK, TypeOK', Tokens, Len(dlq') = Len(dlq), byHand <= byHand',
         Pushers' \subseteq Pushers, Logged \subseteq Logged'
  PROVE  Tokens'
<1>1. Cardinality(Pushers') <= Cardinality(Pushers)
  BY Counts, CountPart
<1>2. IsFiniteSet(Logged')
  BY FiniteAssumption, CountPart DEF Logged
<1>3. Cardinality(Logged) <= Cardinality(Logged') /\ Cardinality(Logged') \in Nat
  BY <1>2, CountPart
<1>4. byHand' \in Nat /\ Cardinality(Pushers') \in Nat
  BY Counts, CountPart, BoundsAssumption DEF TypeOK
<1> QED
  BY <1>1, <1>3, <1>4, Counts DEF Tokens

LEMMA TokenAdded ==
  ASSUME TypeOK, TypeOK', Tokens, NEW c \in Callers, Len(dlq') = Len(dlq),
         Pushers' \subseteq Pushers \cup {c}, Logged \subseteq Logged',
         byHand' = byHand + 1 \/ (byHand' = byHand /\ \E e \in Logged' : e \notin Logged)
  PROVE  Tokens'
<1>1. Cardinality(Pushers') <= Cardinality(Pushers) + 1 /\ Cardinality(Pushers') \in Nat
  <2>1. CASE c \in Pushers
    <3>1. Pushers' \subseteq Pushers
      BY <2>1
    <3>2. Cardinality(Pushers') <= Cardinality(Pushers) /\ Cardinality(Pushers') \in Nat
      BY <3>1, CountPart, Counts
    <3> QED
      BY <3>2, Counts
  <2>2. CASE c \notin Pushers
    <3>1. /\ IsFiniteSet(Pushers \cup {c})
          /\ Cardinality(Pushers \cup {c}) = Cardinality(Pushers) + 1
      BY <2>2, Counts, CountMore
    <3> QED
      BY <3>1, CountPart
  <2> QED
    BY <2>1, <2>2
<1>2. IsFiniteSet(Logged') /\ IsFiniteSet(Logged)
  BY FiniteAssumption, CountPart DEF Logged
<1>3. Cardinality(Logged) <= Cardinality(Logged') /\ Cardinality(Logged') \in Nat
  BY <1>2, CountPart
<1>4. CASE byHand' = byHand + 1
  BY <1>1, <1>3, <1>4, Counts DEF Tokens
<1>5. CASE byHand' = byHand /\ \E e \in Logged' : e \notin Logged
  <2>1. PICK e \in Logged' : e \notin Logged
    BY <1>5
  <2>2. Cardinality(Logged \cup {e}) = Cardinality(Logged) + 1
    BY <1>2, <2>1, CountMore
  <2>3. Logged \cup {e} \subseteq Logged'
    BY <2>1
  <2>4. Cardinality(Logged \cup {e}) <= Cardinality(Logged')
    BY <1>2, <2>3, CountPart
  <2> QED
    BY <1>1, <1>3, <1>5, <2>2, <2>4, Counts DEF Tokens
<1> QED
  BY <1>4, <1>5

\* So there is room for the row of a request that is about to add one.
LEMMA RoomToPush ==
  ASSUME TypeOK, Tokens, NEW c \in Callers, caller[c].pc = "push"
  PROVE  Len(dlq) + 1 <= MaxItems
<1>1. c \in Pushers
  BY DEF Pushers
<1>2. Cardinality(Pushers) >= 1
  <2>1. Cardinality({c}) = 1
    BY FS_Singleton
  <2> QED
    BY <1>1, <2>1, CountPart, Counts
<1> QED
  BY <1>2, Counts, BoundsAssumption DEF Tokens, MaxItems

LEMMA PushersOfStep ==
  ASSUME NEW c \in Callers, Moves(c)
  PROVE  /\ Pushers' \subseteq Pushers \cup {c}
         /\ caller'[c].pc \in {"idle", "mark"} => c \notin Pushers'
         /\ c \in Pushers => Pushers' \subseteq Pushers
         /\ caller'[c].pc \in {"idle", "mark"} => Pushers' \subseteq Pushers \ {c}
BY DEF Pushers, Moves

-----------------------------------------------------------------------------
(* The steps of the requests. *)

LEMMA AttemptsKept ==
  ASSUME TypeOK, TypeOK', Grows, AttemptsLogged, UNCHANGED outbound
  PROVE  AttemptsLogged'
<1> SUFFICES ASSUME NEW e \in Events, outbound[e] # NoEvent
             PROVE  outbound[e].count <= attempts'[e]
  BY DEF AttemptsLogged, Logged
<1>1. outbound[e].count <= attempts[e]
  BY DEF AttemptsLogged, Logged
<1>2. outbound[e].count \in Nat
  BY DEF TypeOK, OutboundRows
<1>3. attempts[e] \in Nat /\ attempts'[e] \in Nat /\ attempts[e] <= attempts'[e]
  BY DEF TypeOK, Grows
<1> QED
  BY <1>1, <1>2, <1>3

\* What a step of one request has to keep.
LEMMA RequestKeeps ==
  ASSUME IInv, NEW c \in Callers, Moves(c), TypeOK', Tokens', Grows,
         CallerInv(c)', HandsOver(c), RowsKept, UNCHANGED <<audits, posts, worker, shared>>,
         AttemptsLogged',
         \A e \in Logged' \ Logged : caller'[c].pc # "idle" /\ caller'[c].event = e,
         \A i \in DOMAIN dlq :
           dlq'[i].status = "replayed" /\ i \notin viaReplay' =>
             \/ dlq[i].status = "replayed"
             \/ dlq'[i].event \in acked' \/ HasAnother(i, dlq[i].event)'
  PROVE  IInv'
<1>1. TypeOK /\ CallersInv /\ QueueInv /\ WorkerInv /\ NothingForgotten /\ ReplayedWasDelivered
  BY DEF IInv, DeliveryInv
<1>2. CallersInv'
  BY <1>1, CallersKeptBut
<1>3. QueueInv' /\ WorkerInv'
  BY <1>1, QueueKept
<1>4. NothingForgotten'
  <2>1. ASSUME NEW d \in Callers PROVE HandsOver(d)
    BY <2>1 DEF HandsOver, Moves
  <2> QED
    BY <1>1, <2>1, NothingForgottenKept
<1>5. ReplayedWasDelivered'
  <2>1. DOMAIN dlq' = DOMAIN dlq
    BY DEF RowsKept
  <2> QED
    BY <1>1, <2>1, ReplayedKept
<1> QED
  BY <1>2, <1>3, <1>4, <1>5 DEF IInv, DeliveryInv

\* The same when the step leaves the queue alone.
LEMMA RequestKeepsQueue ==
  ASSUME IInv, NEW c \in Callers, Moves(c), TypeOK', Tokens', Grows,
         CallerInv(c)', HandsOver(c), UNCHANGED <<queueVars, batchVars>>, AttemptsLogged',
         \A e \in Logged' \ Logged : caller'[c].pc # "idle" /\ caller'[c].event = e
  PROVE  IInv'
<1>1. UNCHANGED dlq /\ UNCHANGED <<audits, posts, worker, shared>>
  BY DEF queueVars, batchVars
<1> QED
  BY <1>1, SameRows, RequestKeeps

LEMMA SendKeeps ==
  ASSUME IInv, NEW c \in Callers, NEW e \in Events, Send(c, e)
  PROVE  IInv'
<1> USE DEF Send, queueVars, handVars, batchVars
<1>1. TypeOK /\ Tokens /\ AttemptsLogged
  BY DEF IInv, DeliveryInv
<1> DEFINE row == [status |-> "pending", count |-> 0]
<1>2. row \in OutboundRows /\ row.count = 0 /\ outbound' = [outbound EXCEPT ![e] = row]
  BY DEF OutboundRows, Created
<1> HIDE DEF row
<1>3. /\ outbound' \in [Events -> OutboundRows \cup {NoEvent}]
      /\ outbound'[e] = row /\ \A d \in Events \ {e} : outbound'[d] = outbound[d]
      /\ Logged' = Logged \cup {e} /\ e \notin Logged
  BY <1>1, <1>2, EventWritten DEF Created, Logged
<1>4. /\ Moves(c)
      /\ caller'[c] \in BusyCallers /\ caller'[c].pc = "post"
      /\ caller'[c].event = e /\ caller'[c].attempt = 1
      /\ caller'[c].item = 0 /\ caller'[c].ok = FALSE
  BY <1>1, StartsEffect
<1>5. TypeOK'
  BY <1>1, <1>3, <1>4 DEF TypeOK, Moves, Created
<1>6. Grows
  BY <1>1, <1>3 DEF Grows, TypeOK
<1>7. Tokens'
  <2>1. Logged \subseteq Logged' /\ (\E d \in Logged' : d \notin Logged)
    BY <1>3
  <2>2. Pushers' \subseteq Pushers \cup {c}
    BY <1>4, PushersOfStep
  <2> QED
    BY <1>1, <1>5, <2>1, <2>2, TokenAdded
<1>8. CallerInv(c)'
  <2>1. attempts'[e] \in Nat
    BY <1>1 DEF TypeOK
  <2> QED
    BY <1>3, <1>4, <2>1 DEF CallerInv
<1>9. AttemptsLogged'
  <2> SUFFICES ASSUME NEW d \in Logged' PROVE outbound'[d].count <= attempts'[d]
    BY DEF AttemptsLogged
  <2>1. CASE d = e
    BY <1>1, <1>2, <1>3, <2>1 DEF TypeOK
  <2>2. CASE d # e
    BY <1>1, <1>3, <2>2 DEF AttemptsLogged, Logged
  <2> QED
    BY <2>1, <2>2
<1>10. HandsOver(c)
  BY DEF HandsOver
<1>11. \A d \in Logged' \ Logged : caller'[c].pc # "idle" /\ caller'[c].event = d
  BY <1>3, <1>4
<1> QED
  BY <1>4, <1>5, <1>6, <1>7, <1>8, <1>9, <1>10, <1>11, RequestKeepsQueue

\* A request by hand takes up an event for which there is a row.
LEMMA RetryKeeps ==
  ASSUME IInv, NEW c \in Callers, NEW e \in Events, NEW item \in DOMAIN dlq \cup {0},
         item # 0 => dlq[item].event = e, RetryByHand(c, e, item)
  PROVE  IInv'
<1>1. TypeOK /\ Tokens /\ AttemptsLogged
  BY DEF IInv, DeliveryInv
<1>2. item \in Items \cup {0} /\ 0 \notin DOMAIN dlq
  BY <1>1, ItemsFinite
<1>3. /\ Moves(c)
      /\ caller'[c] \in BusyCallers /\ caller'[c].pc = "retry"
      /\ caller'[c].event = e /\ caller'[c].item = item /\ caller'[c].ok = FALSE
  BY <1>1, <1>2, RetryEffect
<1> USE DEF RetryByHand, ByHand, queueVars, storeVars, logVars, batchVars
<1>4. byHand' \in 0..MaxByHand /\ viaReplay' = viaReplay
  BY <1>1, BoundsAssumption DEF TypeOK
<1>5. TypeOK'
  BY <1>1, <1>3, <1>4 DEF TypeOK, Moves
<1>6. Logged' = Logged
  BY DEF Logged
<1>7. Grows
  BY <1>1, <1>4, <1>6 DEF Grows, TypeOK
<1>8. Tokens'
  <2>1. Pushers' \subseteq Pushers \cup {c}
    BY <1>3, PushersOfStep
  <2> QED
    BY <1>1, <1>5, <1>6, <2>1, TokenAdded
<1>9. CallerInv(c)'
  BY <1>2, <1>3, <1>6 DEF CallerInv
<1>10. AttemptsLogged'
  BY <1>1, <1>5, <1>7, AttemptsKept
<1>11. HandsOver(c)
  BY DEF HandsOver
<1> QED
  BY <1>3, <1>5, <1>6, <1>7, <1>8, <1>9, <1>10, <1>11, RequestKeepsQueue

LEMMA OwnerRetriesKeeps ==
  ASSUME IInv, NEW c \in Callers, OwnerRetries(c)
  PROVE  IInv'
BY RetryKeeps DEF OwnerRetries

LEMMA AdminRetriesKeeps ==
  ASSUME IInv, NEW c \in Callers, AdminRetries(c)
  PROVE  IInv'
<1>1. PICK i \in DOMAIN dlq : RetryByHand(c, dlq[i].event, i)
  BY DEF AdminRetries
<1>2. TypeOK
  BY DEF IInv
<1>3. dlq[i].event \in Events
  BY <1>2, RowType
<1> QED
  BY <1>1, <1>3, RetryKeeps

LEMMA AdminReplaysKeeps ==
  ASSUME IInv, NEW c \in Callers, AdminReplays(c)
  PROVE  IInv'
<1>1. TypeOK /\ Tokens /\ AttemptsLogged
  BY DEF IInv, DeliveryInv
<1>2. PICK i \in DOMAIN dlq :
        /\ ByHand({i})
        /\ \/ /\ UNCHANGED faults
              /\ \E e \in Events : Created(e) /\ Starts(c, e, 1, i)
           \/ /\ caller' = [caller EXCEPT ![c] = [pc |-> "mark", event |-> dlq[i].event,
                              ok |-> FALSE, attempt |-> 0, item |-> i]]
              /\ UNCHANGED faults \/ Fault
              /\ UNCHANGED <<outbound, known>>
  BY DEF AdminReplays
<1>3. caller[c].pc = "idle" /\ UNCHANGED <<subscribed, attempts, acked, dlq, audits, posts, worker, shared>>
  BY DEF AdminReplays, queueVars, batchVars
<1>4. i \in Items /\ i # 0 /\ dlq[i].event \in Events
  BY <1>1, RowType
<1>5. /\ byHand' \in 0..MaxByHand /\ byHand' = byHand + 1
      /\ viaReplay' = viaReplay \cup {i} /\ viaReplay' \subseteq Items
  BY <1>1, <1>2, <1>4, BoundsAssumption DEF TypeOK, ByHand
<1>6. CASE /\ UNCHANGED faults
           /\ \E e \in Events : Created(e) /\ Starts(c, e, 1, i)
  <2>1. PICK e \in Events : Created(e) /\ Starts(c, e, 1, i)
    BY <1>6
  <2> DEFINE row == [status |-> "pending", count |-> 0]
  <2>2. row \in OutboundRows /\ row.count = 0 /\ outbound' = [outbound EXCEPT ![e] = row]
    BY <2>1 DEF OutboundRows, Created
  <2> HIDE DEF row
  <2>3. /\ outbound' \in [Events -> OutboundRows \cup {NoEvent}]
        /\ outbound'[e] = row /\ \A d \in Events \ {e} : outbound'[d] = outbound[d]
        /\ Logged' = Logged \cup {e}
    BY <1>1, <2>2, EventWritten
  <2>4. /\ Moves(c)
        /\ caller'[c] \in BusyCallers /\ caller'[c].pc = "post"
        /\ caller'[c].event = e /\ caller'[c].attempt = 1
        /\ caller'[c].item = i /\ caller'[c].ok = FALSE
    BY <1>1, <1>4, <2>1, StartsEffect
  <2>5. TypeOK'
    BY <1>1, <1>3, <1>5, <1>6, <2>1, <2>3, <2>4 DEF TypeOK, Moves, Created
  <2>6. Grows
    BY <1>1, <1>3, <1>5, <1>6, <2>3 DEF Grows, TypeOK
  <2>7. Tokens'
    <3>1. Pushers' \subseteq Pushers \cup {c}
      BY <2>4, PushersOfStep
    <3> QED
      BY <1>1, <1>3, <1>5, <2>3, <2>5, <3>1, TokenAdded
  <2>8. CallerInv(c)'
    <3>1. attempts'[e] \in Nat
      BY <1>1, <1>3 DEF TypeOK
    <3> QED
      BY <1>2, <1>3, <1>5, <2>3, <2>4, <3>1 DEF CallerInv
  <2>9. AttemptsLogged'
    <3> SUFFICES ASSUME NEW d \in Logged' PROVE outbound'[d].count <= attempts'[d]
      BY DEF AttemptsLogged
    <3>1. CASE d = e
      BY <1>1, <1>3, <2>2, <2>3, <3>1 DEF TypeOK
    <3>2. CASE d # e
      BY <1>1, <1>3, <2>3, <3>2 DEF AttemptsLogged, Logged
    <3> QED
      BY <3>1, <3>2
  <2>10. HandsOver(c)
    BY <1>3 DEF HandsOver
  <2>11. \A d \in Logged' \ Logged : caller'[c].pc # "idle" /\ caller'[c].event = d
    BY <2>3, <2>4
  <2> QED
    BY <1>3, <2>4, <2>5, <2>6, <2>7, <2>8, <2>9, <2>10, <2>11, RequestKeepsQueue
       DEF queueVars, batchVars
<1>7. CASE /\ caller' = [caller EXCEPT ![c] = [pc |-> "mark", event |-> dlq[i].event,
                           ok |-> FALSE, attempt |-> 0, item |-> i]]
           /\ UNCHANGED faults \/ Fault
           /\ UNCHANGED <<outbound, known>>
  <2> DEFINE rec == [pc |-> "mark", event |-> dlq[i].event,
                     ok |-> FALSE, attempt |-> 0, item |-> i]
  <2>1. /\ rec \in BusyCallers /\ rec.pc = "mark" /\ rec.event = dlq[i].event
        /\ rec.ok = FALSE /\ rec.item = i /\ caller' = [caller EXCEPT ![c] = rec]
    BY <1>4, <1>7 DEF BusyCallers
  <2> HIDE DEF rec
  <2>2. Moves(c) /\ caller'[c] = rec
    BY <1>1, <2>1, CallerWritten DEF Moves
  <2>3. faults' \in 0..MaxFaults /\ faults <= faults'
    BY <1>1, <1>7, BoundsAssumption DEF Fault, TypeOK
  <2>4. TypeOK'
    BY <1>1, <1>3, <1>5, <1>7, <2>2, <2>3 DEF TypeOK, Moves
  <2>5. Logged' = Logged
    BY <1>7 DEF Logged
  <2>6. Grows
    BY <1>1, <1>3, <1>5, <2>3, <2>5 DEF Grows, TypeOK
  <2>7. Tokens'
    <3>1. Pushers' \subseteq Pushers \cup {c}
      BY <2>2, PushersOfStep
    <3> QED
      BY <1>1, <1>3, <1>5, <2>4, <2>5, <3>1, TokenAdded
  <2>8. CallerInv(c)'
    <3>1. ItemInv(i)
      BY <1>4 DEF IInv, QueueInv
    <3>2. dlq[i].event \in Logged'
      BY <1>2, <2>5, <3>1 DEF ItemInv
    <3>3. i \in ItemsOf(dlq[i].event)'
      BY <1>2, <1>3 DEF ItemsOf
    <3> QED
      BY <1>2, <1>3, <1>4, <1>5, <2>1, <2>2, <3>2, <3>3 DEF CallerInv
  <2>9. AttemptsLogged'
    BY <1>1, <1>7, <2>4, <2>6, AttemptsKept
  <2>10. HandsOver(c)
    BY <1>3 DEF HandsOver
  <2> QED
    BY <1>3, <2>2, <2>4, <2>5, <2>6, <2>7, <2>8, <2>9, <2>10, RequestKeepsQueue
       DEF queueVars, batchVars
<1> QED
  BY <1>2, <1>6, <1>7

LEMMA RetryReadsKeeps ==
  ASSUME IInv, NEW c \in Callers, RetryReads(c)
  PROVE  IInv'
<1> DEFINE e == caller[c].event
<1>1. TypeOK /\ Tokens /\ AttemptsLogged /\ CallersInv
  BY DEF IInv, DeliveryInv
<1>2. /\ Moves(c) /\ caller[c] \in BusyCallers
      /\ caller'[c] \in BusyCallers /\ (caller'[c].ok => caller[c].ok)
      /\ caller'[c].event = e /\ caller'[c].item = caller[c].item
      /\ outbound[e].count \in Nat
      /\ \/ /\ caller'[c].pc = "post"
            /\ caller'[c].attempt = outbound[e].count + 1
         \/ /\ caller'[c].pc = "update"
            /\ caller'[c].attempt = outbound[e].count
  BY <1>1, RetryReadsEffect
<1>3. /\ caller[c].pc = "retry"
      /\ UNCHANGED <<subscribed, known, outbound, attempts, acked, dlq, audits, posts,
                     worker, shared, byHand, viaReplay, faults>>
  BY DEF RetryReads, queueVars, storeVars, logVars, handVars, batchVars
<1>4. TypeOK'
  BY <1>1, <1>2, <1>3 DEF TypeOK, Moves
<1>5. Logged' = Logged
  BY <1>3 DEF Logged
<1>6. Grows
  BY <1>1, <1>3, <1>5 DEF Grows, TypeOK
<1>7. Tokens'
  <2>1. Pushers' \subseteq Pushers
    BY <1>2, <1>3, PushersOfStep DEF Pushers
  <2>2. byHand <= byHand'
    BY <1>1, <1>3, Counts
  <2> QED
    BY <1>1, <1>3, <1>4, <1>5, <2>1, <2>2, TokensKept
<1>8. CallerInv(c)'
  <2>1. /\ e \in Logged /\ (caller[c].ok => e \in acked)
        /\ caller[c].item # 0 => caller[c].item \in DOMAIN dlq
        /\ caller[c].item # 0 /\ caller[c].item \notin viaReplay => dlq[caller[c].item].event = e
    BY <1>1, <1>3 DEF CallersInv, CallerInv
  <2>2. outbound[e].count <= attempts[e] /\ attempts[e] \in Nat
    BY <1>1, <2>1 DEF AttemptsLogged, TypeOK, Logged
  <2>3. /\ caller'[c].pc \in {"post", "log"} => caller'[c].attempt <= attempts[e] + 1
        /\ caller'[c].pc = "update" => caller'[c].attempt <= attempts[e]
    BY <1>2, <2>2
  <2> HIDE DEF e
  <2> QED
    BY <1>2, <1>3, <1>5, <2>1, <2>3 DEF CallerInv
<1>9. AttemptsLogged'
  BY <1>1, <1>3, <1>4, <1>6, AttemptsKept
<1>10. HandsOver(c)
  BY <1>2 DEF HandsOver
<1> QED
  BY <1>2, <1>3, <1>4, <1>5, <1>6, <1>7, <1>8, <1>9, <1>10, RequestKeepsQueue
     DEF queueVars, batchVars

LEMMA PostKeeps ==
  ASSUME IInv, NEW c \in Callers, NEW ok \in BOOLEAN, Post(c, ok)
  PROVE  IInv'
<1> DEFINE e == caller[c].event
<1>1. TypeOK /\ Tokens /\ AttemptsLogged /\ CallersInv
  BY DEF IInv, DeliveryInv
<1>2. /\ Moves(c) /\ caller[c] \in BusyCallers
      /\ caller'[c] \in BusyCallers /\ caller'[c].pc = "log" /\ caller'[c].ok = ok
      /\ caller'[c].event = e /\ caller'[c].item = caller[c].item
      /\ caller'[c].attempt = caller[c].attempt
  BY <1>1, PostEffect
<1>3. /\ caller[c].pc = "post"
      /\ UNCHANGED <<subscribed, known, outbound, attempts, dlq, audits, posts,
                     worker, shared, byHand, viaReplay, faults>>
      /\ acked' = IF ok THEN acked \cup {e} ELSE acked
  BY DEF Post, queueVars, storeVars, handVars, batchVars
<1>4. e \in Events
  BY <1>2, CallerRecords
<1>5. TypeOK'
  BY <1>1, <1>2, <1>3, <1>4 DEF TypeOK, Moves
<1>6. Logged' = Logged
  BY <1>3 DEF Logged
<1>7. Grows
  BY <1>1, <1>3, <1>6 DEF Grows, TypeOK
<1>8. Tokens'
  <2>1. Pushers' \subseteq Pushers
    BY <1>2, <1>3, PushersOfStep DEF Pushers
  <2>2. byHand <= byHand'
    BY <1>1, <1>3, Counts
  <2> QED
    BY <1>1, <1>3, <1>5, <1>6, <2>1, <2>2, TokensKept
<1>9. CallerInv(c)'
  <2>1. /\ e \in Logged /\ (ok => e \in acked')
        /\ caller[c].item # 0 => caller[c].item \in DOMAIN dlq
        /\ caller[c].item # 0 /\ caller[c].item \notin viaReplay => dlq[caller[c].item].event = e
        /\ caller[c].attempt <= attempts[e] + 1
    BY <1>1, <1>3 DEF CallersInv, CallerInv
  <2> HIDE DEF e
  <2> QED
    BY <1>2, <1>3, <1>6, <2>1 DEF CallerInv
<1>10. AttemptsLogged'
  BY <1>1, <1>3, <1>5, <1>7, AttemptsKept
<1>11. HandsOver(c)
  BY <1>2 DEF HandsOver
<1> QED
  BY <1>2, <1>3, <1>5, <1>6, <1>7, <1>8, <1>9, <1>10, <1>11, RequestKeepsQueue
     DEF queueVars, batchVars

LEMMA LogAttemptKeeps ==
  ASSUME IInv, NEW c \in Callers, LogAttempt(c)
  PROVE  IInv'
<1> DEFINE e == caller[c].event
<1>1. TypeOK /\ Tokens /\ AttemptsLogged /\ CallersInv
  BY DEF IInv, DeliveryInv
<1>2. /\ caller[c].pc = "log" /\ caller' = [caller EXCEPT ![c].pc = "update"]
      /\ UNCHANGED <<subscribed, known, outbound, acked, dlq, audits, posts,
                     worker, shared, byHand, viaReplay, faults>>
      /\ attempts' = [attempts EXCEPT ![e] = @ + 1]
  BY DEF LogAttempt, queueVars, storeVars, handVars, batchVars
<1>3. /\ Moves(c) /\ caller[c] \in BusyCallers
      /\ caller'[c] \in BusyCallers /\ caller'[c].pc = "update" /\ caller'[c].ok = caller[c].ok
      /\ caller'[c].event = e /\ caller'[c].item = caller[c].item
      /\ caller'[c].attempt = caller[c].attempt
  BY <1>1, <1>2, MovesEffect
<1>4. e \in Events /\ caller[c].attempt \in Nat
  BY <1>3, CallerRecords
<1>5. /\ attempts' \in [Events -> Nat]
      /\ attempts'[e] = attempts[e] + 1 /\ attempts[e] \in Nat
      /\ \A d \in Events : attempts[d] <= attempts'[d]
  BY <1>1, <1>2, <1>4 DEF TypeOK
<1>6. TypeOK'
  BY <1>1, <1>2, <1>3, <1>5 DEF TypeOK, Moves
<1>7. Logged' = Logged
  BY <1>2 DEF Logged
<1>8. Grows
  BY <1>1, <1>2, <1>5, <1>7 DEF Grows, TypeOK
<1>9. Tokens'
  <2>1. Pushers' \subseteq Pushers
    BY <1>2, <1>3, PushersOfStep DEF Pushers
  <2>2. byHand <= byHand'
    BY <1>1, <1>2, Counts
  <2> QED
    BY <1>1, <1>2, <1>6, <1>7, <2>1, <2>2, TokensKept
<1>10. CallerInv(c)'
  <2>1. /\ e \in Logged /\ (caller[c].ok => e \in acked)
        /\ caller[c].item # 0 => caller[c].item \in DOMAIN dlq
        /\ caller[c].item # 0 /\ caller[c].item \notin viaReplay => dlq[caller[c].item].event = e
        /\ caller[c].attempt <= attempts[e] + 1
    BY <1>1, <1>2 DEF CallersInv, CallerInv
  <2> HIDE DEF e
  <2> QED
    BY <1>2, <1>3, <1>5, <1>7, <2>1 DEF CallerInv
<1>11. AttemptsLogged'
  BY <1>1, <1>2, <1>6, <1>8, AttemptsKept
<1>12. HandsOver(c)
  BY <1>3 DEF HandsOver
<1> QED
  BY <1>2, <1>3, <1>6, <1>7, <1>8, <1>9, <1>10, <1>11, <1>12, RequestKeepsQueue
     DEF queueVars, batchVars

LEMMA UpdateEventKeeps ==
  ASSUME IInv, NEW c \in Callers, UpdateEvent(c)
  PROVE  IInv'
<1> DEFINE e == caller[c].event
           row == [status |-> IF caller[c].ok THEN "success" ELSE "failed",
                   count |-> caller[c].attempt]
<1>1. TypeOK /\ Tokens /\ AttemptsLogged /\ CallersInv
  BY DEF IInv, DeliveryInv
<1>2. /\ caller[c].pc = "update"
      /\ UNCHANGED <<subscribed, known, attempts, acked, dlq, audits, posts,
                     worker, shared, byHand, viaReplay, faults>>
      /\ outbound' = [outbound EXCEPT ![e] = row]
  BY DEF UpdateEvent, queueVars, storeVars, handVars, batchVars
<1>3. caller[c] \in BusyCallers /\ e \in Events
  BY <1>1, <1>2, CallerType, CallerRecords
<1>4. /\ Moves(c)
      /\ \/ /\ ~caller[c].ok
            /\ caller'[c] \in BusyCallers /\ caller'[c].pc = "push"
            /\ caller'[c].ok = caller[c].ok
            /\ caller'[c].event = e /\ caller'[c].item = caller[c].item
         \/ caller[c].ok /\ caller'[c] = IdleCaller
         \/ /\ caller[c].ok /\ caller[c].item # 0
            /\ caller'[c] \in BusyCallers /\ caller'[c].pc = "mark"
            /\ caller'[c].ok = caller[c].ok
            /\ caller'[c].event = e /\ caller'[c].item = caller[c].item
  <2>1. CASE caller[c].ok
    <3>1. caller' = [caller EXCEPT ![c] = Returned(c)]
      BY <2>1 DEF UpdateEvent
    <3> QED
      BY <1>1, <1>2, <2>1, <3>1, ReturnsEffect
  <2>2. CASE ~caller[c].ok
    <3>1. caller' = [caller EXCEPT ![c].pc = "push"]
      BY <2>2 DEF UpdateEvent
    <3> QED
      BY <1>1, <1>2, <2>2, <3>1, MovesEffect
  <2> QED
    BY <2>1, <2>2
<1>5. /\ e \in Logged /\ (caller[c].ok => e \in acked)
      /\ caller[c].item # 0 => caller[c].item \in DOMAIN dlq
      /\ caller[c].item # 0 /\ caller[c].item \notin viaReplay => dlq[caller[c].item].event = e
      /\ caller[c].attempt <= attempts[e]
  BY <1>1, <1>2 DEF CallersInv, CallerInv
<1>6. row \in OutboundRows /\ row.count = caller[c].attempt
  BY <1>3, CallerRecords DEF OutboundRows
<1> HIDE DEF row
<1>7. /\ outbound' \in [Events -> OutboundRows \cup {NoEvent}]
      /\ outbound'[e] = row /\ \A d \in Events \ {e} : outbound'[d] = outbound[d]
      /\ Logged' = Logged \cup {e}
  BY <1>1, <1>2, <1>3, <1>6, EventWritten
<1>8. Logged' = Logged
  BY <1>5, <1>7
<1>9. TypeOK'
  BY <1>1, <1>2, <1>4, <1>7 DEF TypeOK, Moves
<1>10. Grows
  BY <1>1, <1>2, <1>8 DEF Grows, TypeOK
<1>11. Tokens'
  <2>1. Pushers' \subseteq Pushers
    BY <1>2, <1>4, PushersOfStep DEF Pushers
  <2>2. byHand <= byHand'
    BY <1>1, <1>2, Counts
  <2> QED
    BY <1>1, <1>2, <1>8, <1>9, <2>1, <2>2, TokensKept
<1>12. CallerInv(c)'
  <2>1. caller'[c].pc # "idle" =>
          /\ caller'[c].pc \in {"push", "mark"} /\ caller'[c].ok = caller[c].ok
          /\ caller'[c].event = e /\ caller'[c].item = caller[c].item
          /\ caller'[c].pc = "mark" => caller[c].ok /\ caller[c].item # 0
    BY <1>4 DEF IdleCaller
  <2> HIDE DEF e
  <2> QED
    BY <1>2, <1>5, <1>8, <2>1 DEF CallerInv
<1>13. AttemptsLogged'
  <2> SUFFICES ASSUME NEW d \in Logged' PROVE outbound'[d].count <= attempts'[d]
    BY DEF AttemptsLogged
  <2>1. CASE d = e
    BY <1>2, <1>5, <1>6, <1>7, <2>1
  <2>2. CASE d # e
    BY <1>1, <1>2, <1>7, <1>8, <2>2 DEF AttemptsLogged, Logged
  <2> QED
    BY <2>1, <2>2
<1>14. HandsOver(c)
  BY <1>2, <1>4, <1>5 DEF HandsOver
<1> QED
  BY <1>2, <1>4, <1>8, <1>9, <1>10, <1>11, <1>12, <1>13, <1>14, RequestKeepsQueue
     DEF queueVars, batchVars

LEMMA CallerFailsKeeps ==
  ASSUME IInv, NEW c \in Callers, CallerFails(c)
  PROVE  IInv'
<1> DEFINE e == caller[c].event
<1>1. TypeOK /\ Tokens /\ AttemptsLogged /\ CallersInv
  BY DEF IInv, DeliveryInv
<1>2. /\ caller[c].pc # "idle" /\ faults < MaxFaults /\ faults' = faults + 1
      /\ UNCHANGED <<subscribed, known, outbound, attempts, acked, dlq, audits, posts,
                     worker, shared, byHand, viaReplay>>
  BY DEF CallerFails, queueVars, storeVars, logVars, handVars, batchVars, Fault
<1>3. /\ Moves(c) /\ caller[c] \in BusyCallers
      /\ \/ caller'[c] = IdleCaller
         \/ /\ Replays(c) /\ caller'[c] \in BusyCallers /\ caller'[c].pc = "mark"
            /\ caller'[c].ok = caller[c].ok
            /\ caller'[c].event = e /\ caller'[c].item = caller[c].item
  BY <1>1, FailsEffect
<1>4. faults' \in 0..MaxFaults /\ faults <= faults' /\ faults' # 0
  BY <1>1, <1>2, BoundsAssumption DEF TypeOK
<1>5. TypeOK'
  BY <1>1, <1>2, <1>3, <1>4 DEF TypeOK, Moves
<1>6. Logged' = Logged
  BY <1>2 DEF Logged
<1>7. Grows
  BY <1>1, <1>2, <1>4, <1>6 DEF Grows, TypeOK
<1>8. Tokens'
  <2>1. Pushers' \subseteq Pushers
    BY <1>2, <1>3, PushersOfStep DEF Pushers, IdleCaller
  <2>2. byHand <= byHand'
    BY <1>1, <1>2, Counts
  <2> QED
    BY <1>1, <1>2, <1>5, <1>6, <2>1, <2>2, TokensKept
<1>9. CallerInv(c)'
  <2>1. /\ e \in Logged /\ (caller[c].ok => e \in acked)
        /\ caller[c].item # 0 => caller[c].item \in DOMAIN dlq
        /\ caller[c].item # 0 /\ caller[c].item \notin viaReplay => dlq[caller[c].item].event = e
    BY <1>1, <1>2 DEF CallersInv, CallerInv
  <2>2. caller'[c].pc # "idle" =>
          /\ caller'[c].pc = "mark" /\ caller'[c].ok = caller[c].ok
          /\ caller'[c].event = e /\ caller'[c].item = caller[c].item
          /\ caller[c].item # 0 /\ caller[c].item \in viaReplay
    BY <1>3, <2>1 DEF IdleCaller, Replays
  <2> HIDE DEF e
  <2> QED
    BY <1>2, <1>4, <1>6, <2>1, <2>2 DEF CallerInv
<1>10. AttemptsLogged'
  BY <1>1, <1>2, <1>5, <1>7, AttemptsKept
<1>11. HandsOver(c)
  BY <1>4 DEF HandsOver
<1> QED
  BY <1>2, <1>3, <1>5, <1>6, <1>7, <1>8, <1>9, <1>10, <1>11, RequestKeepsQueue
     DEF queueVars, batchVars

LEMMA MarkKeeps ==
  ASSUME IInv, NEW c \in Callers, Mark(c)
  PROVE  IInv'
<1> DEFINE e == caller[c].event
           i == caller[c].item
<1>1. TypeOK /\ Tokens /\ AttemptsLogged /\ CallersInv
  BY DEF IInv, DeliveryInv
<1>2. /\ caller[c].pc = "mark" /\ caller' = [caller EXCEPT ![c] = IdleCaller]
      /\ dlq' = [dlq EXCEPT ![i].status = "replayed"]
      /\ UNCHANGED <<subscribed, known, outbound, attempts, acked, audits, posts,
                     worker, shared, byHand, viaReplay, faults>>
  BY DEF Mark, storeVars, logVars, handVars, batchVars
<1>3. Moves(c) /\ caller'[c] = IdleCaller
  BY <1>1, <1>2, CallerWritten DEF Moves
<1>4. /\ caller[c] \in BusyCallers /\ e \in Events
  BY <1>1, <1>2, CallerType, CallerRecords
<1>5. /\ i \in DOMAIN dlq
      /\ i \notin viaReplay => dlq[i].event = e /\ (e \in acked \/ HasAnother(i, e))
      /\ faults = 0 => e \in acked \/ ItemsOf(e) # {}
  BY <1>1, <1>2 DEF CallersInv, CallerInv
<1> HIDE DEF e, i
<1>6. /\ dlq' \in Seq(QueueRows) /\ Len(dlq') = Len(dlq) /\ DOMAIN dlq' = DOMAIN dlq
      /\ \A j \in DOMAIN dlq :
           /\ dlq'[j].event = dlq[j].event /\ dlq'[j].retries = dlq[j].retries
           /\ dlq'[j].status = IF j = i THEN "replayed" ELSE dlq[j].status
  <2>1. "replayed" \in ItemStatus
    BY DEF ItemStatus
  <2> QED
    BY <1>1, <1>2, <1>5, <2>1, StatusWritten
<1>7. TypeOK'
  BY <1>1, <1>2, <1>3, <1>6 DEF TypeOK, Moves
<1>8. Logged' = Logged
  BY <1>2 DEF Logged
<1>9. RowsKept
  BY <1>6 DEF RowsKept
<1>10. Grows
  BY <1>1, <1>2, <1>6, <1>8 DEF Grows, TypeOK
<1>11. Tokens'
  <2>1. Pushers' \subseteq Pushers
    BY <1>3, PushersOfStep DEF IdleCaller
  <2>2. byHand <= byHand'
    BY <1>1, <1>2, Counts
  <2> QED
    BY <1>1, <1>2, <1>6, <1>7, <1>8, <2>1, <2>2, TokensKept
<1>12. CallerInv(c)'
  BY <1>3 DEF CallerInv, IdleCaller
<1>13. AttemptsLogged'
  BY <1>1, <1>2, <1>7, <1>10, AttemptsKept
<1>14. HandsOver(c)
  <2>1. ItemsOf(e) # {} => \E j \in DOMAIN dlq' : dlq'[j].event = e
    BY <1>6 DEF ItemsOf
  <2> QED
    BY <1>2, <1>5, <2>1 DEF HandsOver, ItemsOf, e
<1>15. ASSUME NEW j \in DOMAIN dlq, dlq'[j].status = "replayed", j \notin viaReplay'
       PROVE  \/ dlq[j].status = "replayed"
              \/ dlq'[j].event \in acked' \/ HasAnother(j, dlq[j].event)'
  <2>1. CASE j # i
    BY <1>6, <1>15, <2>1
  <2>2. CASE j = i
    <3>1. dlq'[i].event = dlq[i].event /\ dlq[i].event = e /\ (e \in acked \/ HasAnother(i, e))
      BY <1>2, <1>5, <1>6, <1>15, <2>2
    <3>2. HasAnother(i, e) => \E k \in DOMAIN dlq' : k # i /\ dlq'[k].event = dlq'[i].event
      BY <1>6, <3>1 DEF HasAnother
    <3> QED
      BY <1>2, <2>2, <3>1, <3>2 DEF HasAnother
  <2> QED
    BY <2>1, <2>2
<1> QED
  BY <1>2, <1>3, <1>7, <1>8, <1>9, <1>10, <1>11, <1>12, <1>13, <1>14, <1>15, RequestKeeps

\* A new item, waiting, in nobody's hands and never tried.
LEMMA PushKeepsQueue ==
  ASSUME TypeOK, TypeOK', Grows, QueueInv, WorkerInv, NEW e \in Logged,
         dlq' = Append(dlq, [event |-> e, status |-> "pending", retries |-> 0]),
         UNCHANGED <<audits, posts, worker, shared, faults, acked, outbound>>
  PROVE  QueueInv' /\ WorkerInv'
<1> DEFINE row == [event |-> e, status |-> "pending", retries |-> 0]
<1>1. /\ row \in QueueRows /\ row.event = e /\ row.status = "pending" /\ row.retries = 0
      /\ dlq' = Append(dlq, row)
  BY BoundsAssumption DEF QueueRows, ItemStatus, Logged
<1> HIDE DEF row
<1>2. /\ DOMAIN dlq' = DOMAIN dlq \cup {Len(dlq) + 1} /\ Len(dlq) + 1 \notin DOMAIN dlq
      /\ dlq'[Len(dlq) + 1] = row
      /\ \A j \in DOMAIN dlq : dlq'[j] = dlq[j]
  <2>1. dlq \in Seq(QueueRows)
    BY DEF TypeOK
  <2> QED
    BY <1>1, <2>1, RowAppended
<1>3. Logged' = Logged
  BY DEF Logged
<1>4. ASSUME NEW i \in Items PROVE ItemInv(i)'
  <2>1. ItemInv(i) /\ Holders(i)' = Holders(i) /\ Owing(i)' = Owing(i)
    BY HandsStill DEF QueueInv
  <2>2. CASE i # Len(dlq) + 1
    <3>1. /\ i \in DOMAIN dlq' <=> i \in DOMAIN dlq
          /\ i \in DOMAIN dlq => dlq'[i] = dlq[i]
      BY <1>2, <2>2
    <3> QED
      BY <2>1, <3>1, ItemKept
  <2>3. CASE i = Len(dlq) + 1
    <3>1. i \notin DOMAIN dlq /\ i \in DOMAIN dlq' /\ dlq'[i] = row
      BY <1>2, <2>3
    <3>2. posts[i] = 0 /\ audits[i] = 0 /\ Holders(i) = {} /\ Owing(i) = {}
      BY <2>1, <3>1, HeldInQueue DEF ItemInv
    <3>3. Cardinality(Holders(i)') = 0 /\ Cardinality(Owing(i)') = 0
      BY <2>1, <3>2, FS_EmptySet
    <3>4. Load(i)' = 0 + 0 - faults - shared[i]
      BY <3>2, <3>3 DEF Load
    <3>5. faults \in Nat /\ shared[i] \in Nat /\ MaxRetries \in Nat /\ MaxRetries > 0
      BY LoadType
    <3>6. Load(i)' <= 0
      BY <3>4, <3>5
    <3>7. Load(i)' \in Int
      BY <3>4, <3>5
    <3> HIDE DEF Load, Holders, Owing, Logged
    <3>8. /\ dlq'[i].event \in Logged'
          /\ dlq'[i].retries <= posts'[i] /\ Load(i)' <= MaxRetries
      BY <1>1, <1>3, <3>1, <3>2, <3>5, <3>6, <3>7
    <3>9. /\ dlq'[i].retries < MaxRetries /\ audits'[i] = 0
          /\ Load(i)' <= dlq'[i].retries + (IF Holders(i)' = {} THEN 0 ELSE 1)
      BY <1>1, <2>1, <3>1, <3>2, <3>5, <3>6
    <3>10. audits'[i] + Cardinality(Holders(i)') <= 1 + shared'[i]
      BY <3>2, <3>3, <3>5
    <3> QED
      BY <3>1, <3>8, <3>9, <3>10 DEF ItemInv
  <2> QED
    BY <2>2, <2>3
<1>5. Eases
  <2> SUFFICES ASSUME NEW i \in DOMAIN dlq PROVE posts[i] <= posts'[i] /\ Load(i)' <= Load(i)
    BY <1>2 DEF Eases
  <2>1. i \in Items /\ faults <= faults'
    BY RowType DEF TypeOK
  <2>2. Owing(i)' = Owing(i)
    BY HandsStill
  <2> QED
    BY <2>1, <2>2, LoadSame DEF TypeOK
<1>6. WorkerInv'
  BY <1>5, BatchKept DEF WorkerInv
<1> QED
  BY <1>4, <1>6 DEF QueueInv

LEMMA PushKeeps ==
  ASSUME IInv, NEW c \in Callers, Push(c)
  PROVE  IInv'
<1> DEFINE e == caller[c].event
           item == caller[c].item
           row == [event |-> e, status |-> "pending", retries |-> 0]
<1>1. TypeOK /\ Tokens /\ CallersInv /\ QueueInv /\ WorkerInv /\ NothingForgotten
      /\ AttemptsLogged /\ ReplayedWasDelivered
  BY DEF IInv, DeliveryInv
<1>2. /\ caller[c].pc = "push" /\ caller' = [caller EXCEPT ![c] = Returned(c)]
      /\ dlq' = Append(dlq, row)
      /\ UNCHANGED <<subscribed, known, outbound, attempts, acked, audits, posts,
                     worker, shared, byHand, viaReplay, faults>>
  BY DEF Push, storeVars, logVars, handVars, batchVars
<1>3. /\ Moves(c) /\ caller[c] \in BusyCallers
      /\ item = 0 => caller'[c] = IdleCaller
      /\ item # 0 =>
           /\ caller'[c] \in BusyCallers /\ caller'[c].pc = "mark"
           /\ caller'[c].ok = caller[c].ok
           /\ caller'[c].event = e /\ caller'[c].item = item
  BY <1>1, <1>2, ReturnsEffect
<1>4. /\ e \in Logged /\ e \in Events /\ (caller[c].ok => e \in acked)
      /\ item # 0 => item \in DOMAIN dlq
      /\ item # 0 /\ item \notin viaReplay => dlq[item].event = e
  BY <1>1, <1>2 DEF CallersInv, CallerInv, Logged
<1>5. row \in QueueRows /\ row.event = e /\ row.status = "pending"
  BY <1>4, BoundsAssumption DEF QueueRows, ItemStatus
<1> HIDE DEF row, e, item
<1>6. /\ dlq' \in Seq(QueueRows) /\ Len(dlq') = Len(dlq) + 1
      /\ DOMAIN dlq' = DOMAIN dlq \cup {Len(dlq) + 1} /\ Len(dlq) + 1 \notin DOMAIN dlq
      /\ dlq'[Len(dlq) + 1] = row
      /\ \A j \in DOMAIN dlq : dlq'[j] = dlq[j]
  <2>1. dlq \in Seq(QueueRows)
    BY <1>1 DEF TypeOK
  <2> QED
    BY <1>2, <1>5, <2>1, RowAppended
<1>7. Len(dlq') <= MaxItems
  BY <1>1, <1>2, <1>6, RoomToPush
<1>8. TypeOK'
  BY <1>1, <1>2, <1>3, <1>6, <1>7 DEF TypeOK, Moves
<1>9. Logged' = Logged
  BY <1>2 DEF Logged
<1>10. Grows
  BY <1>1, <1>2, <1>6, <1>9 DEF Grows, TypeOK
<1>11. Tokens'
  <2>1. c \in Pushers /\ Pushers' \subseteq Pushers \ {c}
    <3>1. caller'[c].pc \in {"idle", "mark"}
      BY <1>3 DEF IdleCaller
    <3> QED
      BY <1>2, <1>3, <3>1, PushersOfStep DEF Pushers
  <2>2. IsFiniteSet(Pushers \ {c}) /\ Cardinality(Pushers \ {c}) = Cardinality(Pushers) - 1
    BY <1>1, <2>1, Counts, CountLess
  <2>3. Cardinality(Pushers') <= Cardinality(Pushers) - 1 /\ Cardinality(Pushers') \in Nat
    BY <2>1, <2>2, CountPart
  <2>4. byHand \in Nat /\ Cardinality(Pushers) \in Nat /\ Cardinality(Logged) \in Nat
        /\ Len(dlq) \in Nat
    BY <1>1, Counts
  <2> QED
    BY <1>1, <1>2, <1>6, <1>9, <2>3, <2>4 DEF Tokens
<1>12. Len(dlq) + 1 \in DOMAIN dlq' /\ dlq'[Len(dlq) + 1].event = e
  BY <1>5, <1>6
<1>13. CallerInv(c)'
  BY <1>2, <1>3, <1>4, <1>6, <1>9, <1>12 DEF CallerInv, IdleCaller, HasAnother, ItemsOf
<1>14. CallersInv'
  BY <1>1, <1>3, <1>8, <1>10, <1>13, CallersKeptBut
<1>15. QueueInv' /\ WorkerInv'
  BY <1>1, <1>2, <1>4, <1>8, <1>10, PushKeepsQueue DEF row
<1>16. NothingForgotten'
  <2>1. ASSUME NEW d \in Callers PROVE HandsOver(d)
    BY <1>3, <1>12 DEF HandsOver, Moves, ItemsOf, e
  <2> QED
    BY <1>1, <1>8, <1>9, <1>10, <2>1, NothingForgottenKept
<1>17. AttemptsLogged'
  BY <1>1, <1>2, <1>8, <1>10, AttemptsKept
<1>18. ReplayedWasDelivered'
  <2>1. \A i \in DOMAIN dlq' :
          dlq'[i].status = "replayed" => i \in DOMAIN dlq /\ dlq[i].status = "replayed"
    BY <1>5, <1>6
  <2> QED
    BY <1>1, <1>8, <1>10, <2>1, ReplayedKept
<1> QED
  BY <1>8, <1>11, <1>14, <1>15, <1>16, <1>17, <1>18 DEF IInv, DeliveryInv

-----------------------------------------------------------------------------
(* The steps of no request: the subscription, a discard, the worker, a crash. *)

\* What a step has to keep that leaves requests and log alone.
LEMMA StoreKeeps ==
  ASSUME IInv, TypeOK', Grows, RowsKept, Len(dlq') = Len(dlq), byHand <= byHand',
         UNCHANGED <<caller, audits, posts, worker, shared, outbound>>,
         \A i \in DOMAIN dlq : dlq'[i].status = "replayed" => dlq[i].status = "replayed"
  PROVE  IInv'
<1>1. TypeOK /\ Tokens /\ CallersInv /\ QueueInv /\ WorkerInv /\ NothingForgotten
      /\ AttemptsLogged /\ ReplayedWasDelivered
  BY DEF IInv, DeliveryInv
<1>2. Logged' = Logged /\ Pushers' = Pushers
  BY DEF Logged, Pushers
<1>3. Tokens'
  BY <1>1, <1>2, TokensKept
<1>4. CallersInv'
  BY <1>1, CallersKept
<1>5. QueueInv' /\ WorkerInv'
  BY <1>1, QueueKept
<1>6. NothingForgotten'
  <2>1. \A d \in Callers : HandsOver(d)
    BY DEF HandsOver
  <2> QED
    BY <1>1, <1>2, <2>1, NothingForgottenKept
<1>7. AttemptsLogged'
  BY <1>1, AttemptsKept
<1>8. ReplayedWasDelivered'
  <2>1. DOMAIN dlq' = DOMAIN dlq
    BY DEF RowsKept
  <2> QED
    BY <1>1, <2>1, ReplayedKept
<1> QED
  BY <1>3, <1>4, <1>5, <1>6, <1>7, <1>8 DEF IInv, DeliveryInv

LEMMA SubscriptionKeeps ==
  ASSUME IInv, Subscribe \/ Unsubscribe
  PROVE  IInv'
<1>1. /\ UNCHANGED <<outbound, attempts, acked, dlq, audits, posts, caller,
                     worker, shared, byHand, viaReplay, faults>>
      /\ subscribed' \in BOOLEAN /\ known' \in {known, {}}
  BY DEF Subscribe, Unsubscribe, logVars, queueVars, handVars, batchVars
<1>2. TypeOK
  BY DEF IInv
<1>3. TypeOK'
  BY <1>1, <1>2 DEF TypeOK
<1>4. Grows
  BY <1>1, <1>2 DEF Grows, TypeOK, Logged
<1>5. byHand <= byHand'
  BY <1>1, <1>2, Counts
<1> QED
  BY <1>1, <1>3, <1>4, <1>5, SameRows, StoreKeeps

LEMMA DiscardKeeps ==
  ASSUME IInv, NEW i \in Items, Discard(i)
  PROVE  IInv'
<1>1. TypeOK
  BY DEF IInv
<1>2. /\ i \in DOMAIN dlq /\ dlq' = [dlq EXCEPT ![i].status = "discarded"]
      /\ byHand < MaxByHand /\ byHand' = byHand + 1 /\ viaReplay' = viaReplay
      /\ UNCHANGED <<subscribed, known, outbound, attempts, acked, audits, posts,
                     caller, worker, shared, faults>>
  BY DEF Discard, ByHand, storeVars, logVars, batchVars
<1>3. /\ dlq' \in Seq(QueueRows) /\ Len(dlq') = Len(dlq) /\ DOMAIN dlq' = DOMAIN dlq
      /\ \A j \in DOMAIN dlq :
           /\ dlq'[j].event = dlq[j].event /\ dlq'[j].retries = dlq[j].retries
           /\ dlq'[j].status = IF j = i THEN "discarded" ELSE dlq[j].status
  <2>1. "discarded" \in ItemStatus
    BY DEF ItemStatus
  <2> QED
    BY <1>1, <1>2, <2>1, StatusWritten
<1>4. byHand' \in 0..MaxByHand /\ byHand <= byHand'
  BY <1>1, <1>2, BoundsAssumption DEF TypeOK
<1>5. TypeOK'
  BY <1>1, <1>2, <1>3, <1>4 DEF TypeOK
<1>6. Grows
  BY <1>1, <1>2, <1>3 DEF Grows, TypeOK, Logged
<1>7. RowsKept /\ \A j \in DOMAIN dlq : dlq'[j].status = "replayed" => dlq[j].status = "replayed"
  BY <1>3 DEF RowsKept
<1> QED
  BY <1>2, <1>3, <1>4, <1>5, <1>6, <1>7, StoreKeeps

\* What a step of the worker has to keep.
LEMMA WorkerKeeps ==
  ASSUME IInv, TypeOK', Grows, Len(dlq') = Len(dlq), byHand <= byHand',
         UNCHANGED <<caller, outbound>>, DOMAIN dlq' = DOMAIN dlq,
         QueueInv', WorkerInv',
         \A i \in DOMAIN dlq : dlq'[i].status = "replayed" =>
           dlq[i].status = "replayed" \/ dlq'[i].event \in acked'
  PROVE  IInv'
<1>1. TypeOK /\ Tokens /\ CallersInv /\ NothingForgotten /\ AttemptsLogged /\ ReplayedWasDelivered
  BY DEF IInv, DeliveryInv
<1>2. Logged' = Logged /\ Pushers' = Pushers
  BY DEF Logged, Pushers
<1>3. Tokens'
  BY <1>1, <1>2, TokensKept
<1>4. CallersInv'
  BY <1>1, CallersKept
<1>5. NothingForgotten'
  <2>1. \A d \in Callers : HandsOver(d)
    BY DEF HandsOver
  <2> QED
    BY <1>1, <1>2, <2>1, NothingForgottenKept
<1>6. AttemptsLogged'
  BY <1>1, AttemptsKept
<1>7. ReplayedWasDelivered'
  BY <1>1, ReplayedKept
<1> QED
  BY <1>3, <1>4, <1>5, <1>6, <1>7 DEF IInv, DeliveryInv

\* A batch whose items are waiting is listed: the load of an item grows by the
\* try the batch owes it, and the listing accounts for it when others have it.
LEMMA HandsMore ==
  ASSUME NEW b \in Batches, worker[b].pc = "idle", worker[b].batch = <<>>,
         worker'[b].pc = "post",
         \A d \in Batches \ {b} : worker'[d] = worker[d], NEW i
  PROVE  /\ Busy(b, i)' => /\ b \notin Holders(i) /\ Holders(i)' = Holders(i) \cup {b}
                           /\ b \notin Owing(i) /\ Owing(i)' = Owing(i) \cup {b}
         /\ ~Busy(b, i)' => Holders(i)' = Holders(i) /\ Owing(i)' = Owing(i)
<1>1. ASSUME NEW d \in Batches, d # b
      PROVE  (Busy(d, i)' <=> Busy(d, i)) /\ (Tried(d, i)' <=> Tried(d, i))
  BY <1>1 DEF Busy, Tried, Current
<1>2. ~Busy(b, i) /\ ~Tried(b, i)'
  BY DEF Busy, Tried
<1>3. Busy(b, i)' => b \notin Holders(i) /\ Holders(i)' = Holders(i) \cup {b}
  BY <1>1, <1>2 DEF Holders
<1>4. Busy(b, i)' => b \notin Owing(i) /\ Owing(i)' = Owing(i) \cup {b}
  BY <1>1, <1>2, <1>3 DEF Holders, Owing
<1>5. ~Busy(b, i)' => Holders(i)' = Holders(i)
  BY <1>1, <1>2 DEF Holders
<1>6. ~Busy(b, i)' => Owing(i)' = Owing(i)
  BY <1>1, <1>5 DEF Holders, Owing
<1> QED
  BY <1>3, <1>4, <1>5, <1>6

LEMMA WorkerListsKeeps ==
  ASSUME IInv, NEW b \in Batches, WorkerLists(b)
  PROVE  IInv'
<1>1. TypeOK /\ QueueInv /\ WorkerInv
  BY DEF IInv
<1>2. PICK due \in SUBSET {i \in DOMAIN dlq : dlq[i].status = "pending"} :
        /\ due # {}
        /\ shared' = [i \in Items |-> shared[i] + (IF i \in due /\ Held(i) THEN 1 ELSE 0)]
        /\ Goes(b, [pc |-> "post",
             batch |-> SetToSeq({[item |-> i, retries |-> dlq[i].retries] : i \in due})])
  BY DEF WorkerLists, Lists
<1>3. /\ worker[b].pc = "idle"
      /\ UNCHANGED <<subscribed, known, outbound, attempts, acked, dlq, audits, posts,
                     caller, byHand, viaReplay, faults>>
  BY DEF WorkerLists, Lists, storeVars, logVars, queueVars, handVars
<1> DEFINE batch == SetToSeq({[item |-> i, retries |-> dlq[i].retries] : i \in due})
<1>4. /\ batch \in Seq(BatchEntries) /\ batch # <<>>
      /\ \A n \in DOMAIN batch :
           /\ batch[n].item \in due
           /\ batch[n].retries = dlq[batch[n].item].retries
      /\ \A m, n \in DOMAIN batch : batch[m].item = batch[n].item => m = n
      /\ \A i \in due : \E n \in DOMAIN batch : batch[n].item = i
  BY <1>1, <1>2, FreshBatch
<1>5. PICK w : w = [pc |-> "post", batch |-> batch]
  OBVIOUS
<1>6. w \in Workers /\ w.pc = "post" /\ w.batch = batch /\ Goes(b, w)
  BY <1>2, <1>4, <1>5 DEF Workers
<1> HIDE DEF batch
<1>7. /\ worker' \in [Batches -> Workers] /\ worker'[b] = w
      /\ \A d \in Batches \ {b} : worker'[d] = worker[d]
  BY <1>1, <1>6, BatchWritten
<1>8. /\ shared' \in [Items -> Nat]
      /\ \A i \in Items : shared'[i] = shared[i] + (IF i \in due /\ Held(i) THEN 1 ELSE 0)
  BY <1>1, <1>2 DEF TypeOK
<1>9. TypeOK'
  BY <1>1, <1>3, <1>7, <1>8 DEF TypeOK
<1>10. Grows /\ byHand <= byHand' /\ Logged' = Logged
  BY <1>1, <1>3, Counts DEF Grows, TypeOK, Logged
<1>11. worker[b].batch = <<>>
  BY <1>1, <1>3 DEF WorkerInv, BatchInv
<1>12. ASSUME NEW i \in Items
       PROVE  /\ i \in due => /\ Holders(i)' = Holders(i) \cup {b} /\ b \notin Holders(i)
                              /\ Owing(i)' = Owing(i) \cup {b} /\ b \notin Owing(i)
              /\ i \notin due => Holders(i)' = Holders(i) /\ Owing(i)' = Owing(i)
  <2>1. Busy(b, i)' <=> i \in due
    BY <1>4, <1>6, <1>7 DEF Busy
  <2> QED
    BY <1>3, <1>6, <1>7, <1>11, <2>1, HandsMore
<1>13. ASSUME NEW i \in due
       PROVE  /\ i \in Items /\ i \in DOMAIN dlq /\ dlq[i].status = "pending"
              /\ Load(i)' = Load(i) + (IF Held(i) THEN 0 ELSE 1)
              /\ Cardinality(Holders(i)') = Cardinality(Holders(i)) + 1
              /\ Held(i) <=> Holders(i) # {}
  <2>1. i \in Items /\ i \in DOMAIN dlq /\ dlq[i].status = "pending"
    BY <1>1, <1>2, RowType
  <2>2. /\ Cardinality(Holders(i)') = Cardinality(Holders(i)) + 1
        /\ Cardinality(Owing(i)') = Cardinality(Owing(i)) + 1
    BY <1>1, <1>12, <2>1, LoadType, CountMore
  <2>3. Load(i)' = posts[i] + (Cardinality(Owing(i)) + 1) - faults - shared'[i]
    BY <1>3, <2>2 DEF Load
  <2>4. Load(i) = posts[i] + Cardinality(Owing(i)) - faults - shared[i]
    BY DEF Load
  <2>5. Held(i) <=> Holders(i) # {}
    BY DEF Held, Holders, Busy
  <2>6. shared'[i] = shared[i] + (IF Held(i) THEN 1 ELSE 0)
    BY <1>8, <1>13, <2>1
  <2>7. /\ posts[i] \in Nat /\ Cardinality(Owing(i)) \in Nat /\ faults \in Nat
        /\ shared[i] \in Nat
    BY <1>1, <2>1, LoadType
  <2>8. Load(i)' = Load(i) + (IF Held(i) THEN 0 ELSE 1)
    <3> HIDE DEF Held, Load, Owing
    <3> QED
      BY <2>3, <2>4, <2>6, <2>7
  <2> QED
    BY <2>1, <2>2, <2>5, <2>8
<1>14. QueueInv'
  <2> SUFFICES ASSUME NEW i \in Items PROVE ItemInv(i)'
    BY DEF QueueInv
  <2>1. ItemInv(i)
    BY <1>1 DEF QueueInv
  <2>2. CASE i \notin due
    <3>1. Holders(i)' = Holders(i) /\ Owing(i)' = Owing(i) /\ shared'[i] = shared[i]
      BY <1>1, <1>8, <1>12, <2>2 DEF TypeOK
    <3> QED
      BY <1>1, <1>3, <1>9, <1>10, <2>1, <3>1, ItemKept
  <2>3. CASE i \in due
    <3>1. /\ i \in DOMAIN dlq /\ dlq[i].status = "pending"
          /\ Load(i)' = Load(i) + (IF Held(i) THEN 0 ELSE 1)
          /\ Cardinality(Holders(i)') = Cardinality(Holders(i)) + 1
          /\ Held(i) <=> Holders(i) # {}
      BY <1>13, <2>3
    <3>2. /\ shared'[i] = shared[i] + (IF Held(i) THEN 1 ELSE 0)
          /\ Holders(i)' # {}
      BY <1>8, <1>12, <2>3
    <3>3. /\ dlq[i].retries < MaxRetries /\ audits[i] = 0
          /\ Load(i) <= dlq[i].retries + (IF Holders(i) = {} THEN 0 ELSE 1)
          /\ dlq[i].event \in Logged /\ dlq[i].retries <= posts[i]
          /\ audits[i] + Cardinality(Holders(i)) <= 1 + shared[i]
      BY <2>1, <3>1 DEF ItemInv
    <3>4. /\ Load(i) \in Int /\ Cardinality(Holders(i)) \in Nat /\ shared[i] \in Nat
          /\ MaxRetries \in Nat /\ dlq[i].retries \in Nat
      BY <1>1, <3>1, LoadType, RowType
    <3>5. Holders(i) = {} => Cardinality(Holders(i)) = 0
      BY FS_EmptySet
    <3> HIDE DEF Load, Holders, Held, Logged
    <3>6. /\ Load(i)' <= dlq[i].retries + 1 /\ Load(i)' <= MaxRetries
      BY <3>1, <3>3, <3>4
    <3>7. audits[i] + Cardinality(Holders(i)') <= 1 + shared'[i]
      BY <3>1, <3>2, <3>3, <3>4, <3>5
    <3> QED
      BY <1>3, <1>10, <3>1, <3>2, <3>3, <3>6, <3>7 DEF ItemInv
  <2> QED
    BY <2>2, <2>3
<1>15. Eases
  <2> SUFFICES ASSUME NEW i \in DOMAIN dlq
               PROVE  posts[i] <= posts'[i] /\ (Holders(i) # {} => Load(i)' <= Load(i))
    BY <1>3 DEF Eases
  <2>1. i \in Items /\ posts[i] \in Nat /\ Load(i) \in Int
    BY <1>1, RowType, LoadType
  <2>2. CASE i \in due
    BY <1>3, <1>13, <2>1, <2>2
  <2>3. CASE i \notin due
    <3>1. shared'[i] = shared[i] /\ Owing(i)' = Owing(i)
      BY <1>1, <1>8, <1>12, <2>1, <2>3 DEF TypeOK
    <3> QED
      BY <1>1, <1>3, <1>9, <2>1, <3>1, LoadSame DEF TypeOK
  <2> QED
    BY <2>2, <2>3
<1>16. BatchInv(b)'
  <2>1. ASSUME NEW n \in DOMAIN batch PROVE EntryInv(b, n)'
    <3>0. PICK i \in due : i = batch[n].item
      BY <1>4
    <3>1. i \in due /\ batch[n].retries = dlq[i].retries
      BY <1>4, <3>0
    <3>2. /\ i \in Items /\ i \in DOMAIN dlq /\ dlq[i].status = "pending"
          /\ Load(i)' = Load(i) + (IF Held(i) THEN 0 ELSE 1)
          /\ Held(i) <=> Holders(i) # {}
      BY <1>13, <3>1
    <3>3. /\ dlq[i].retries <= posts[i]
          /\ Load(i) <= dlq[i].retries + (IF Holders(i) = {} THEN 0 ELSE 1)
      BY <1>1, <3>2 DEF QueueInv, ItemInv
    <3>4. Load(i) \in Int /\ dlq[i].retries \in Nat
      BY <1>1, <3>2, LoadType, RowType
    <3>5. Load(i)' <= dlq[i].retries + 1
      <4> HIDE DEF Load, Held, Holders
      <4> QED
        BY <3>2, <3>3, <3>4
    <3> QED
      <4>1. /\ worker'[b].batch[n].item = i /\ worker'[b].batch[n].retries = dlq[i].retries
            /\ posts'[i] = posts[i] /\ i \in DOMAIN dlq'
        BY <1>3, <1>6, <1>7, <3>0, <3>1, <3>2
      <4> HIDE DEF Load
      <4> QED
        BY <3>3, <3>5, <4>1 DEF EntryInv
  <2>2. TriedInv(b)'
    BY <1>6, <1>7 DEF TriedInv
  <2> QED
    BY <1>4, <1>6, <1>7, <2>1, <2>2 DEF BatchInv
<1>17. WorkerInv'
  <2> SUFFICES ASSUME NEW d \in Batches, d # b PROVE BatchInv(d)'
    BY <1>16 DEF WorkerInv
  <2> QED
    BY <1>1, <1>7, <1>9, <1>10, <1>15, BatchKept DEF WorkerInv
<1> QED
  BY <1>3, <1>9, <1>10, <1>14, <1>17, WorkerKeeps

\* What the other items and the other batches need of a step of the batch b at
\* its current item.
LEMMA OtherItems ==
  ASSUME IInv, TypeOK', Grows, NEW b \in Batches, NEW i,
         i \in Items => ItemInv(i)', DOMAIN dlq' = DOMAIN dlq,
         \A j \in DOMAIN dlq : j # i =>
           /\ dlq'[j].event = dlq[j].event /\ dlq'[j].retries = dlq[j].retries
           /\ dlq'[j].status = dlq[j].status,
         \A j \in Items : j # i =>
           /\ posts'[j] = posts[j] /\ audits'[j] = audits[j]
           /\ Holders(j)' = Holders(j) /\ Owing(j)' = Owing(j),
         UNCHANGED shared
  PROVE  QueueInv'
<1> SUFFICES ASSUME NEW j \in Items, j # i PROVE ItemInv(j)'
  BY DEF QueueInv
<1>1. TypeOK /\ ItemInv(j) /\ shared'[j] = shared[j]
  BY DEF IInv, QueueInv
<1>2. /\ j \in DOMAIN dlq' <=> j \in DOMAIN dlq
      /\ j \in DOMAIN dlq =>
           /\ dlq'[j].event = dlq[j].event /\ dlq'[j].retries = dlq[j].retries
           /\ dlq'[j].status = "pending" => dlq[j].status = "pending"
      /\ posts'[j] = posts[j] /\ audits'[j] = audits[j]
      /\ Holders(j)' = Holders(j) /\ Owing(j)' = Owing(j)
  OBVIOUS
<1> QED
  BY <1>1, <1>2, ItemKept

\* Such a step eases the load of no item, if not that of its own.
LEMMA EasesOne ==
  ASSUME IInv, TypeOK', Grows, NEW i \in DOMAIN dlq, Load(i)' <= Load(i),
         posts[i] <= posts'[i], DOMAIN dlq' = DOMAIN dlq,
         \A j \in DOMAIN dlq :
           /\ dlq'[j].event = dlq[j].event
           /\ dlq'[j].status = "pending" => dlq[j].status = "pending",
         \A j \in Items : j # i => posts'[j] = posts[j] /\ Owing(j)' = Owing(j),
         UNCHANGED shared
  PROVE  Eases
<1>1. TypeOK /\ faults <= faults'
  BY DEF IInv, Grows
<1> SUFFICES ASSUME NEW j \in DOMAIN dlq, j # i
             PROVE  posts[j] <= posts'[j] /\ Load(j)' <= Load(j)
  BY DEF Eases
<1>2. j \in Items /\ posts[j] \in Nat
  BY <1>1, RowType, LoadType
<1>3. posts'[j] = posts[j] /\ Owing(j)' = Owing(j) /\ shared'[j] = shared[j]
  BY <1>2
<1> QED
  BY <1>1, <1>2, <1>3, LoadSame

LEMMA OtherBatches ==
  ASSUME IInv, TypeOK', Grows, Eases, NEW b \in Batches, BatchInv(b)',
         \A d \in Batches \ {b} : worker'[d] = worker[d]
  PROVE  WorkerInv'
<1> SUFFICES ASSUME NEW d \in Batches, d # b PROVE BatchInv(d)'
  BY DEF WorkerInv
<1> QED
  BY BatchKept DEF IInv, WorkerInv

\* The batch keeps its entries as it goes on.
LEMMA EntriesKept ==
  ASSUME IInv, TypeOK', Eases, NEW b \in Batches, worker'[b].batch = worker[b].batch,
         worker[b].pc # "idle", worker'[b].pc # "idle", TriedInv(b)'
  PROVE  BatchInv(b)'
<1>1. TypeOK /\ BatchInv(b)
  BY DEF IInv, WorkerInv
<1>2. ASSUME NEW n \in DOMAIN worker[b].batch PROVE EntryInv(b, n)'
  BY <1>1, EntryKept DEF BatchInv
<1> QED
  BY <1>1, <1>2 DEF BatchInv

\* The next item's turn.
LEMMA RestKept ==
  ASSUME IInv, TypeOK', Eases, NEW b \in Batches, worker[b].pc # "idle",
         worker'[b] = Rest(worker[b])
  PROVE  BatchInv(b)'
<1>1. TypeOK /\ BatchInv(b)
  BY DEF IInv, WorkerInv
<1>2. /\ worker'[b].pc \in {"idle", "post"}
      /\ worker'[b].pc = "idle" <=> worker'[b].batch = <<>>
      /\ \A n \in DOMAIN worker'[b].batch :
           /\ n \in Nat /\ n + 1 # 1 /\ n + 1 \in DOMAIN worker[b].batch
           /\ worker'[b].batch[n] = worker[b].batch[n + 1]
  BY <1>1, RestIs
<1>3. ASSUME NEW n \in DOMAIN worker'[b].batch PROVE EntryInv(b, n)'
  <2>1. PICK m \in DOMAIN worker[b].batch : worker'[b].batch[n] = worker[b].batch[m]
    BY <1>2
  <2> QED
    BY <1>1, <2>1, EntryKept DEF BatchInv
<1>4. ASSUME NEW m \in DOMAIN worker'[b].batch, NEW n \in DOMAIN worker'[b].batch,
             worker'[b].batch[m].item = worker'[b].batch[n].item
      PROVE  m = n
  <2>1. m + 1 = n + 1
    BY <1>1, <1>2, <1>4 DEF BatchInv
  <2> QED
    BY <1>2, <2>1
<1>5. TriedInv(b)'
  BY <1>2 DEF TriedInv
<1> QED
  BY <1>2, <1>3, <1>4, <1>5 DEF BatchInv

\* A delivery by the worker, answered or not.
LEMMA WorkerPostsKeeps ==
  ASSUME IInv, NEW b \in Batches, NEW ok \in BOOLEAN, WorkerPosts(b, ok)
  PROVE  IInv'
<1>0. PICK i, r : i = Current(b).item /\ r = Current(b).retries
  OBVIOUS
<1> DEFINE x == IF ok THEN "replayed" ELSE IF r + 1 >= MaxRetries THEN "discarded" ELSE "patch"
<1>1. TypeOK /\ QueueInv /\ WorkerInv /\ BatchInv(b)
  BY DEF IInv, WorkerInv
<1>2. /\ worker[b].pc = "post" /\ Goes(b, At(worker[b], x))
      /\ posts' = [posts EXCEPT ![i] = @ + 1]
      /\ acked' = IF ok THEN acked \cup {dlq[i].event} ELSE acked
      /\ UNCHANGED <<subscribed, known, outbound, attempts, dlq, audits, shared, caller,
                     byHand, viaReplay, faults>>
  BY <1>0 DEF WorkerPosts, storeVars, handVars
<1>3. /\ worker[b] \in Workers /\ 1 \in DOMAIN worker[b].batch
      /\ i = worker[b].batch[1].item /\ r = worker[b].batch[1].retries
      /\ i \in DOMAIN dlq /\ i \in Items /\ r \in 0..MaxRetries - 1
  BY <1>0, <1>1, <1>2, CurrentItem
<1>4. /\ worker' \in [Batches -> Workers]
      /\ worker'[b].pc = x /\ worker'[b].batch = worker[b].batch
      /\ \A d \in Batches \ {b} : worker'[d] = worker[d]
  BY <1>1, <1>2, <1>3, PlaceWritten, BatchWritten
<1>5. /\ posts' \in [Items -> Nat] /\ posts'[i] = posts[i] + 1 /\ posts[i] \in Nat
      /\ \A j \in Items : j # i => posts'[j] = posts[j]
  BY <1>1, <1>2, <1>3 DEF TypeOK
<1>6. acked' \subseteq Events /\ acked \subseteq acked' /\ (ok => dlq[i].event \in acked')
  BY <1>1, <1>2, <1>3, RowType DEF TypeOK
<1>7. TypeOK'
  BY <1>1, <1>2, <1>4, <1>5, <1>6 DEF TypeOK
<1>8. Grows /\ byHand <= byHand' /\ Logged' = Logged
  BY <1>1, <1>2, <1>6, Counts DEF Grows, TypeOK, Logged
<1>9. /\ \A j : Holders(j)' = Holders(j)
      /\ \A j : j # i => Owing(j)' = Owing(j)
      /\ b \in Owing(i) /\ Owing(i)' = Owing(i) \ {b}
  BY <1>0, <1>2, <1>3, <1>4, HandsTry
<1>10. Load(i)' = Load(i)
  <2>1. Cardinality(Owing(i)') = Cardinality(Owing(i)) - 1 /\ Cardinality(Owing(i)) \in Nat
    BY <1>1, <1>3, <1>9, LoadType, CountLess
  <2>2. Load(i)' = (posts[i] + 1) + Cardinality(Owing(i)') - faults - shared[i]
    BY <1>2, <1>5 DEF Load
  <2>3. Load(i) = posts[i] + Cardinality(Owing(i)) - faults - shared[i]
    BY DEF Load
  <2>4. faults \in Nat /\ shared[i] \in Nat
    BY <1>1, <1>3, LoadType
  <2> HIDE DEF Load, Owing
  <2> QED
    BY <1>5, <2>1, <2>2, <2>3, <2>4
<1>11. ItemInv(i) /\ EntryInv(b, 1) /\ Load(i) \in Int
  BY <1>1, <1>3, LoadType DEF QueueInv, BatchInv
<1>12. r <= posts[i]
  BY <1>3, <1>11 DEF EntryInv
<1>13. ItemInv(i)'
  <2>1. dlq[i].retries <= posts[i] + 1
    BY <1>1, <1>3, <1>5, <1>11, RowType DEF ItemInv
  <2> HIDE DEF Load, Holders, Logged
  <2> QED
    BY <1>2, <1>3, <1>5, <1>8, <1>9, <1>10, <1>11, <2>1 DEF ItemInv
<1>14. QueueInv'
  BY <1>2, <1>5, <1>7, <1>8, <1>9, <1>13, OtherItems
<1>15. Eases
  <2>1. Load(i)' <= Load(i) /\ posts[i] <= posts'[i]
    <3> HIDE DEF Load
    <3> QED
      BY <1>5, <1>10, <1>11
  <2> QED
    BY <1>2, <1>3, <1>5, <1>7, <1>8, <1>9, <2>1, EasesOne
<1>16. TriedInv(b)'
  <2>1. Current(b)'.item = i /\ Current(b)'.retries = r
    BY <1>0, <1>4 DEF Current
  <2>2. r + 1 <= posts'[i]
    BY <1>3, <1>5, <1>12
  <2>3. worker'[b].pc \notin {"close", "bury", "audit"}
    BY <1>4
  <2>4. /\ worker'[b].pc = "replayed" => ok
        /\ worker'[b].pc = "discarded" => r + 1 >= MaxRetries
        /\ worker'[b].pc = "patch" => ~(r + 1 >= MaxRetries)
    BY <1>4
  <2>5. ~(r + 1 >= MaxRetries) => r + 1 < MaxRetries
    BY <1>1, <1>3, LoadType
  <2> HIDE DEF x
  <2> QED
    BY <1>2, <1>6, <2>1, <2>2, <2>3, <2>4, <2>5 DEF TriedInv
<1>17. WorkerInv'
  <2>1. worker[b].pc # "idle" /\ worker'[b].pc # "idle"
    BY <1>2, <1>4
  <2>2. BatchInv(b)'
    BY <1>4, <1>7, <1>15, <1>16, <2>1, EntriesKept
  <2> QED
    BY <1>4, <1>7, <1>8, <1>15, <2>2, OtherBatches
<1> QED
  BY <1>2, <1>7, <1>8, <1>14, <1>17, WorkerKeeps

\* The delivered or given-up item is closed.
LEMMA WorkerSettlesKeeps ==
  ASSUME IInv, NEW b \in Batches, WorkerSettles(b)
  PROVE  IInv'
<1>0. PICK i, r, done : i = Current(b).item /\ r = Current(b).retries /\ done = worker[b].pc
  OBVIOUS
<1> DEFINE x == IF done = "replayed" THEN "close" ELSE "bury"
<1>1. TypeOK /\ QueueInv /\ WorkerInv /\ BatchInv(b)
  BY DEF IInv, WorkerInv
<1>2. /\ worker[b].pc = done /\ done \in {"replayed", "discarded"}
      /\ Goes(b, At(worker[b], x))
      /\ dlq' = [dlq EXCEPT ![i].status = done]
      /\ UNCHANGED <<subscribed, known, outbound, attempts, acked, audits, posts, shared,
                     caller, byHand, viaReplay, faults>>
  BY <1>0 DEF WorkerSettles, storeVars, logVars, handVars
<1>3. /\ worker[b] \in Workers /\ i \in DOMAIN dlq /\ i \in Items /\ r \in 0..MaxRetries - 1
  BY <1>0, <1>1, <1>2, CurrentItem
<1>4. /\ worker' \in [Batches -> Workers]
      /\ worker'[b].pc = x /\ worker'[b].batch = worker[b].batch
      /\ \A d \in Batches \ {b} : worker'[d] = worker[d]
  BY <1>1, <1>2, <1>3, PlaceWritten, BatchWritten
<1>5. /\ dlq' \in Seq(QueueRows) /\ Len(dlq') = Len(dlq) /\ DOMAIN dlq' = DOMAIN dlq
      /\ \A j \in DOMAIN dlq :
           /\ dlq'[j].event = dlq[j].event /\ dlq'[j].retries = dlq[j].retries
           /\ dlq'[j].status = IF j = i THEN done ELSE dlq[j].status
  <2>1. done \in ItemStatus
    BY <1>2 DEF ItemStatus
  <2>2. TypeOK /\ i \in DOMAIN dlq /\ dlq' = [dlq EXCEPT ![i].status = done]
    BY <1>1, <1>2, <1>3
  <2> QED
    BY <2>1, <2>2, StatusWritten
<1>6. TypeOK'
  BY <1>1, <1>2, <1>4, <1>5 DEF TypeOK
<1>7. Grows /\ byHand <= byHand' /\ Logged' = Logged
  BY <1>1, <1>2, <1>5, Counts DEF Grows, TypeOK, Logged
<1>8. \A j : Holders(j)' = Holders(j) /\ Owing(j)' = Owing(j)
  <2>1. worker[b].pc \notin {"idle", "post"} /\ worker'[b].pc \notin {"idle", "post"}
    BY <1>2, <1>4
  <2> QED
    BY <1>4, <2>1, HandsSame
<1>9. /\ r + 1 <= posts[i]
      /\ done = "replayed" => dlq[i].event \in acked
      /\ done = "discarded" => r + 1 >= MaxRetries
  BY <1>0, <1>1, <1>2 DEF BatchInv, TriedInv
<1>10. RowsKept
  BY <1>2, <1>5 DEF RowsKept
<1>11. QueueInv'
  <2> SUFFICES ASSUME NEW j \in Items PROVE ItemInv(j)'
    BY DEF QueueInv
  <2> QED
    BY <1>1, <1>2, <1>6, <1>7, <1>8, <1>10, ItemKept DEF QueueInv, RowsKept
<1>12. Eases
  <2>1. Load(i)' <= Load(i) /\ posts[i] <= posts'[i]
    <3>1. faults <= faults' /\ posts[i] \in Nat
      BY <1>1, <1>2, <1>3, LoadType
    <3> QED
      BY <1>1, <1>2, <1>3, <1>6, <1>8, <3>1, LoadSame
  <2> QED
    BY <1>2, <1>3, <1>6, <1>7, <1>8, <1>10, <2>1, EasesOne DEF RowsKept
<1>13. TriedInv(b)'
  <2>1. Current(b)'.item = i /\ Current(b)'.retries = r
    BY <1>0, <1>4 DEF Current
  <2>2. dlq'[i].event = dlq[i].event /\ dlq'[i].status = done
    BY <1>3, <1>5
  <2>3. worker'[b].pc \in {"close", "bury"} /\ (worker'[b].pc = "bury" => done = "discarded")
    BY <1>2, <1>4
  <2> QED
    BY <1>2, <1>9, <2>1, <2>2, <2>3 DEF TriedInv
<1>14. WorkerInv'
  <2>1. worker[b].pc # "idle" /\ worker'[b].pc # "idle"
    BY <1>2, <1>4
  <2>2. BatchInv(b)'
    BY <1>4, <1>6, <1>12, <1>13, <2>1, EntriesKept
  <2> QED
    BY <1>4, <1>6, <1>7, <1>12, <2>2, OtherBatches
<1>15. \A j \in DOMAIN dlq : dlq'[j].status = "replayed" =>
         dlq[j].status = "replayed" \/ dlq'[j].event \in acked'
  BY <1>2, <1>3, <1>5, <1>9
<1> QED
  BY <1>2, <1>5, <1>6, <1>7, <1>11, <1>14, <1>15, WorkerKeeps

\* The retry count is written, from the snapshot.
LEMMA WorkerPatchesKeeps ==
  ASSUME IInv, NEW b \in Batches, WorkerPatches(b)
  PROVE  IInv'
<1>0. PICK i, r, now : i = Current(b).item /\ r = Current(b).retries /\ now = worker[b].pc
  OBVIOUS
<1>1. TypeOK /\ QueueInv /\ WorkerInv /\ BatchInv(b)
  BY DEF IInv, WorkerInv
<1>2. /\ worker[b].pc = now /\ now \in {"close", "patch", "bury"}
      /\ Goes(b, IF now = "bury" THEN At(worker[b], "audit") ELSE Rest(worker[b]))
      /\ dlq' = [dlq EXCEPT ![i].retries = r + (IF now = "close" THEN 0 ELSE 1)]
      /\ UNCHANGED <<subscribed, known, outbound, attempts, acked, audits, posts, shared,
                     caller, byHand, viaReplay, faults>>
  BY <1>0 DEF WorkerPatches, Patched, storeVars, logVars, handVars
<1>3. /\ worker[b] \in Workers /\ 1 \in DOMAIN worker[b].batch
      /\ i = worker[b].batch[1].item /\ r = worker[b].batch[1].retries
      /\ i \in DOMAIN dlq /\ i \in Items /\ r \in 0..MaxRetries - 1
      /\ Rest(worker[b]) \in Workers
  BY <1>0, <1>1, <1>2, CurrentItem
<1>4. /\ posts[i] \in Nat /\ audits[i] \in Nat /\ shared[i] \in Nat
      /\ Cardinality(Holders(i)) \in Nat /\ Load(i) \in Int
      /\ faults \in Nat /\ MaxRetries \in Nat /\ MaxRetries > 0
  BY <1>1, <1>3, LoadType
<1>5. /\ r + 1 <= posts[i]
      /\ now \in {"close", "bury"} => dlq[i].status # "pending"
      /\ now = "bury" => r + 1 >= MaxRetries
      /\ now = "patch" => r + 1 < MaxRetries
  BY <1>0, <1>1, <1>2 DEF BatchInv, TriedInv
<1>6. PICK n \in 0..MaxRetries :
        /\ dlq' = [dlq EXCEPT ![i].retries = n]
        /\ n = r + (IF now = "close" THEN 0 ELSE 1)
  <2>1. r + (IF now = "close" THEN 0 ELSE 1) \in 0..MaxRetries
    BY <1>3, <1>4
  <2> QED
    BY <1>2, <2>1
<1>7. /\ dlq' \in Seq(QueueRows) /\ Len(dlq') = Len(dlq) /\ DOMAIN dlq' = DOMAIN dlq
      /\ \A j \in DOMAIN dlq :
           /\ dlq'[j].event = dlq[j].event /\ dlq'[j].status = dlq[j].status
           /\ dlq'[j].retries = IF j = i THEN n ELSE dlq[j].retries
  <2>1. TypeOK /\ i \in DOMAIN dlq /\ dlq' = [dlq EXCEPT ![i].retries = n]
    BY <1>1, <1>3, <1>6
  <2> QED
    BY <2>1, RetriesWritten
<1>8. /\ worker' \in [Batches -> Workers]
      /\ worker'[b] = IF now = "bury" THEN At(worker[b], "audit") ELSE Rest(worker[b])
      /\ \A d \in Batches \ {b} : worker'[d] = worker[d]
  BY <1>1, <1>2, <1>3, PlaceWritten, BatchWritten
<1>9. TypeOK'
  BY <1>1, <1>2, <1>7, <1>8 DEF TypeOK
<1>10. Grows /\ byHand <= byHand' /\ Logged' = Logged
  BY <1>1, <1>2, <1>7, Counts DEF Grows, TypeOK, Logged
<1>11. /\ \A j : j # i => Holders(j)' = Holders(j)
       /\ \A j : Owing(j)' = Owing(j)
       /\ Cardinality(Holders(i)') <= Cardinality(Holders(i))
  <2>1. CASE now = "bury"
    <3>1. worker'[b].batch = worker[b].batch /\ worker'[b].pc = "audit"
      BY <1>3, <1>8, <2>1, PlaceWritten
    <3>2. worker[b].pc \notin {"idle", "post"} /\ worker'[b].pc \notin {"idle", "post"}
      BY <1>2, <3>1
    <3>3. \A j : Holders(j)' = Holders(j) /\ Owing(j)' = Owing(j)
      BY <1>8, <3>1, <3>2, HandsSame
    <3> QED
      BY <1>4, <3>3
  <2>2. CASE now # "bury"
    <3>1. worker'[b] = Rest(worker[b]) /\ worker[b].pc # "idle" /\ worker[b].pc # "post"
      BY <1>2, <1>8, <2>2
    <3>2. /\ b \in Holders(i) /\ Holders(i)' = Holders(i) \ {b}
          /\ Owing(i)' = Owing(i) \ {b} /\ b \notin Owing(i)
          /\ \A j : j # i => Holders(j)' = Holders(j) /\ Owing(j)' = Owing(j)
      BY <1>0, <1>1, <1>8, <3>1, HandsLess
    <3>3. Cardinality(Holders(i)') <= Cardinality(Holders(i))
      BY <1>1, <1>3, <3>2, LoadType, CountPart
    <3> QED
      BY <3>2, <3>3
  <2> QED
    BY <2>1, <2>2
<1>12. /\ Cardinality(Holders(i)') \in Nat /\ Load(i)' = Load(i)
  <2>1. Load(i)' = Load(i)
    BY <1>2, <1>11 DEF Load
  <2> QED
    BY <1>3, <1>9, <2>1, LoadTypeNext
<1>13. ItemInv(i) /\ EntryInv(b, 1)
  BY <1>1, <1>3 DEF QueueInv, BatchInv
<1>14. ItemInv(i)'
  <2>1. Load(i) <= r + 1
    BY <1>3, <1>13 DEF EntryInv
  <2>2. /\ i \in DOMAIN dlq' /\ dlq'[i].status = dlq[i].status
        /\ dlq'[i].event = dlq[i].event /\ dlq'[i].retries = n
    BY <1>3, <1>7
  <2>3. n <= posts[i] /\ n \in Nat
    BY <1>3, <1>4, <1>5, <1>6
  <2>4. dlq[i].status = "pending" => n < MaxRetries /\ n = r + 1
    BY <1>2, <1>5, <1>6
  <2>5. audits[i] + Cardinality(Holders(i)') <= 1 + shared[i]
    BY <1>4, <1>11, <1>12, <1>13 DEF ItemInv
  <2> HIDE DEF Load, Holders, Logged
  <2>6. dlq[i].status = "pending" => Load(i) <= n + (IF Holders(i)' = {} THEN 0 ELSE 1)
    BY <1>4, <2>1, <2>3, <2>4
  <2>7. /\ posts'[i] = posts[i] /\ audits'[i] = audits[i] /\ shared'[i] = shared[i]
        /\ Load(i)' = Load(i) /\ Logged' = Logged /\ i \in DOMAIN dlq
    BY <1>2, <1>3, <1>10, <1>12
  <2>8. /\ dlq[i].event \in Logged /\ Load(i) <= MaxRetries
        /\ dlq[i].status = "pending" => audits[i] = 0
    BY <1>13, <2>7 DEF ItemInv
  <2>9. i \in DOMAIN dlq' => dlq'[i].event \in Logged' /\ dlq'[i].retries <= posts'[i]
                             /\ Load(i)' <= MaxRetries
    BY <2>2, <2>3, <2>7, <2>8
  <2>10. dlq'[i].status = "pending" =>
           /\ dlq'[i].retries < MaxRetries /\ audits'[i] = 0
           /\ Load(i)' <= dlq'[i].retries + (IF Holders(i)' = {} THEN 0 ELSE 1)
    BY <2>2, <2>4, <2>6, <2>7, <2>8
  <2>11. audits'[i] + Cardinality(Holders(i)') <= 1 + shared'[i]
    BY <2>5, <2>7
  <2> QED
    BY <2>2, <2>9, <2>10, <2>11 DEF ItemInv
<1>15. QueueInv'
  BY <1>2, <1>7, <1>9, <1>10, <1>11, <1>14, OtherItems
<1>16. Eases
  <2>1. Load(i)' <= Load(i) /\ posts[i] <= posts'[i]
    <3> HIDE DEF Load
    <3> QED
      BY <1>2, <1>4, <1>12
  <2> QED
    BY <1>2, <1>3, <1>7, <1>9, <1>10, <1>11, <2>1, EasesOne
<1>17. BatchInv(b)'
  <2>1. CASE now # "bury"
    <3>1. worker'[b] = Rest(worker[b]) /\ worker[b].pc # "idle"
      BY <1>2, <1>8, <2>1
    <3> QED
      BY <1>9, <1>16, <3>1, RestKept
  <2>2. CASE now = "bury"
    <3>1. worker'[b].batch = worker[b].batch /\ worker'[b].pc = "audit"
      BY <1>3, <1>8, <2>2, PlaceWritten
    <3>2. Current(b)'.item = i /\ Current(b)'.retries = r
      BY <1>0, <3>1 DEF Current
    <3>3. dlq'[i].status # "pending"
      BY <1>3, <1>5, <1>7, <2>2
    <3>4. TriedInv(b)'
      BY <1>2, <1>5, <2>2, <3>1, <3>2, <3>3 DEF TriedInv
    <3>5. worker[b].pc # "idle" /\ worker'[b].pc # "idle"
      BY <1>2, <3>1
    <3> QED
      BY <1>9, <1>16, <3>1, <3>4, <3>5, EntriesKept
  <2> QED
    BY <2>1, <2>2
<1>18. WorkerInv'
  BY <1>8, <1>9, <1>10, <1>16, <1>17, OtherBatches
<1>19. \A j \in DOMAIN dlq : dlq'[j].status = "replayed" => dlq[j].status = "replayed"
  BY <1>7
<1> QED
  BY <1>2, <1>7, <1>9, <1>10, <1>15, <1>18, <1>19, WorkerKeeps

\* The permanent failure is audited.
LEMMA WorkerAuditsKeeps ==
  ASSUME IInv, NEW b \in Batches, WorkerAudits(b)
  PROVE  IInv'
<1>0. PICK i : i = Current(b).item
  OBVIOUS
<1>1. TypeOK /\ QueueInv /\ WorkerInv /\ BatchInv(b)
  BY DEF IInv, WorkerInv
<1>2. /\ worker[b].pc = "audit" /\ Goes(b, Rest(worker[b]))
      /\ audits' = [audits EXCEPT ![i] = @ + 1]
      /\ UNCHANGED <<subscribed, known, outbound, attempts, acked, dlq, posts, shared, caller,
                     byHand, viaReplay, faults>>
  BY <1>0 DEF WorkerAudits, storeVars, logVars, handVars
<1>3. i \in DOMAIN dlq /\ i \in Items /\ Rest(worker[b]) \in Workers
  BY <1>0, <1>1, <1>2, CurrentItem
<1>4. /\ audits' \in [Items -> Nat] /\ audits'[i] = audits[i] + 1
      /\ \A j \in Items : j # i => audits'[j] = audits[j]
  BY <1>1, <1>2, <1>3 DEF TypeOK
<1>5. /\ worker' \in [Batches -> Workers] /\ worker'[b] = Rest(worker[b])
      /\ \A d \in Batches \ {b} : worker'[d] = worker[d]
  BY <1>1, <1>2, <1>3, BatchWritten
<1>6. TypeOK'
  BY <1>1, <1>2, <1>4, <1>5 DEF TypeOK
<1>7. Grows /\ byHand <= byHand' /\ Logged' = Logged
  BY <1>1, <1>2, Counts DEF Grows, TypeOK, Logged
<1>8. dlq[i].status # "pending"
  BY <1>0, <1>1, <1>2 DEF BatchInv, TriedInv
<1>9. /\ b \in Holders(i) /\ Holders(i)' = Holders(i) \ {b}
      /\ Owing(i)' = Owing(i) \ {b} /\ b \notin Owing(i)
      /\ \A j : j # i => Holders(j)' = Holders(j) /\ Owing(j)' = Owing(j)
  <2>1. worker[b].pc # "idle" /\ worker[b].pc # "post"
    BY <1>2
  <2> QED
    BY <1>0, <1>1, <1>5, <2>1, HandsLess
<1>10. Owing(i)' = Owing(i) /\ Load(i)' = Load(i)
  BY <1>2, <1>9 DEF Load
<1>11. ItemInv(i)'
  <2>1. ItemInv(i)
    BY <1>1, <1>3 DEF QueueInv
  <2>2. Cardinality(Holders(i)') = Cardinality(Holders(i)) - 1
    BY <1>1, <1>3, <1>9, LoadType, CountLess
  <2>3. Cardinality(Holders(i)) \in Nat /\ audits[i] \in Nat /\ shared[i] \in Nat
    BY <1>1, <1>3, LoadType
  <2>4. audits'[i] + Cardinality(Holders(i)') <= 1 + shared[i]
    BY <1>4, <2>1, <2>2, <2>3 DEF ItemInv
  <2> HIDE DEF Load, Holders, Logged
  <2> QED
    BY <1>2, <1>3, <1>7, <1>8, <1>10, <2>1, <2>4 DEF ItemInv
<1>12. QueueInv'
  BY <1>2, <1>4, <1>6, <1>7, <1>9, <1>11, OtherItems
<1>13. Eases
  <2>1. Load(i)' <= Load(i) /\ posts[i] <= posts'[i]
    <3>1. posts[i] \in Nat /\ Load(i) \in Int
      BY <1>1, <1>3, LoadType
    <3> HIDE DEF Load
    <3> QED
      BY <1>2, <1>10, <3>1
  <2> QED
    BY <1>2, <1>3, <1>6, <1>7, <1>9, <2>1, EasesOne
<1>14. WorkerInv'
  <2>1. BatchInv(b)'
    BY <1>2, <1>5, <1>6, <1>13, RestKept
  <2> QED
    BY <1>5, <1>6, <1>7, <1>13, <2>1, OtherBatches
<1> QED
  BY <1>2, <1>6, <1>7, <1>12, <1>14, WorkerKeeps

\* Whatever becomes of the items in hand, a fault accounts for the try that was
\* not written down.
LEMMA FaultKeepsItems ==
  ASSUME TypeOK, TypeOK', QueueInv, faults' = faults + 1,
         UNCHANGED <<dlq, audits, posts, shared, outbound>>,
         \A i \in Items : Holders(i)' \subseteq Holders(i) /\ Owing(i)' \subseteq Owing(i)
  PROVE  QueueInv' /\ Eases
<1>1. ASSUME NEW i \in Items
      PROVE  Load(i)' <= Load(i) - 1 /\ Load(i) \in Int /\ Load(i)' \in Int
  <2>1. faults <= faults' /\ posts'[i] = posts[i] /\ shared'[i] = shared[i]
    BY LoadType
  <2>2. Owing(i)' \subseteq Owing(i)
    OBVIOUS
  <2> QED
    BY <2>1, <2>2, LoadSame, LoadType, LoadTypeNext
<1>2. ASSUME NEW i \in Items PROVE ItemInv(i)'
  <2>1. ItemInv(i) /\ Logged' = Logged
    BY DEF QueueInv, Logged
  <2>2. /\ Cardinality(Holders(i)') <= Cardinality(Holders(i))
        /\ Cardinality(Holders(i)') \in Nat /\ Cardinality(Holders(i)) \in Nat
        /\ audits[i] \in Nat /\ shared[i] \in Nat /\ MaxRetries \in Nat
    BY LoadType, CountPart
  <2>3. audits'[i] + Cardinality(Holders(i)') <= 1 + shared'[i]
    BY <2>1, <2>2 DEF ItemInv
  <2>4. CASE i \notin DOMAIN dlq
    BY <2>1, <2>3, <2>4 DEF ItemInv
  <2>5. CASE i \in DOMAIN dlq
    <3>1. dlq[i].retries \in Nat
      BY <2>5, RowType
    <3> HIDE DEF Load, Holders, Logged
    <3>2. /\ dlq[i].event \in Logged' /\ dlq[i].retries <= posts[i] /\ Load(i)' <= MaxRetries
      BY <1>1, <2>1, <2>2, <2>5 DEF ItemInv
    <3>3. dlq[i].status = "pending" =>
            /\ dlq[i].retries < MaxRetries /\ audits[i] = 0
            /\ Load(i)' <= dlq[i].retries + (IF Holders(i)' = {} THEN 0 ELSE 1)
      BY <1>1, <2>1, <2>5, <3>1 DEF ItemInv
    <3> QED
      BY <2>3, <2>5, <3>2, <3>3 DEF ItemInv
  <2> QED
    BY <2>4, <2>5
<1>3. Eases
  <2> SUFFICES ASSUME NEW i \in DOMAIN dlq PROVE posts[i] <= posts'[i] /\ Load(i)' <= Load(i)
    BY DEF Eases
  <2>1. i \in Items /\ posts[i] \in Nat
    BY RowType, LoadType
  <2>2. Load(i)' <= Load(i) - 1 /\ Load(i) \in Int /\ Load(i)' \in Int
    BY <1>1, <2>1
  <2> HIDE DEF Load
  <2> QED
    BY <2>1, <2>2
<1> QED
  BY <1>2, <1>3 DEF QueueInv

LEMMA WorkerFailsKeeps ==
  ASSUME IInv, NEW b \in Batches, WorkerFails(b)
  PROVE  IInv'
<1>1. TypeOK /\ QueueInv /\ WorkerInv /\ BatchInv(b)
  BY DEF IInv, WorkerInv
<1>2. /\ worker[b].pc # "idle" /\ Goes(b, Rest(worker[b]))
      /\ faults < MaxFaults /\ faults' = faults + 1
      /\ UNCHANGED <<subscribed, known, outbound, attempts, acked, dlq, audits, posts, shared,
                     caller, byHand, viaReplay>>
  BY DEF WorkerFails, Fault, storeVars, logVars, queueVars, handVars
<1>3. Rest(worker[b]) \in Workers
  BY <1>1, <1>2, CurrentItem
<1>4. /\ worker' \in [Batches -> Workers] /\ worker'[b] = Rest(worker[b])
      /\ \A d \in Batches \ {b} : worker'[d] = worker[d]
  BY <1>1, <1>2, <1>3, BatchWritten
<1>5. faults' \in 0..MaxFaults /\ faults <= faults'
  BY <1>1, <1>2, BoundsAssumption DEF TypeOK
<1>6. TypeOK'
  BY <1>1, <1>2, <1>4, <1>5 DEF TypeOK
<1>7. Grows /\ byHand <= byHand' /\ Logged' = Logged
  BY <1>1, <1>2, <1>5, Counts DEF Grows, TypeOK, Logged
<1>8. \A i \in Items : Holders(i)' \subseteq Holders(i) /\ Owing(i)' \subseteq Owing(i)
  BY <1>1, <1>2, <1>4, HandsLess
<1>9. QueueInv' /\ Eases
  BY <1>1, <1>2, <1>6, <1>8, FaultKeepsItems
<1>10. WorkerInv'
  <2>1. BatchInv(b)'
    BY <1>2, <1>4, <1>6, <1>9, RestKept
  <2> QED
    BY <1>4, <1>6, <1>7, <1>9, <2>1, OtherBatches
<1> QED
  BY <1>2, <1>6, <1>7, <1>9, <1>10, WorkerKeeps

\* After a crash nothing is under way; what was is excused by the fault.
LEMMA CrashKeeps ==
  ASSUME IInv, Crash
  PROVE  IInv'
<1>1. TypeOK /\ Tokens /\ QueueInv /\ WorkerInv /\ NothingForgotten /\ AttemptsLogged
      /\ ReplayedWasDelivered
  BY DEF IInv, DeliveryInv
<1>2. /\ faults < MaxFaults /\ faults' = faults + 1
      /\ subscribed' = FALSE /\ known' = {} /\ worker' = [b \in Batches |-> IdleWorker]
      /\ caller' = [c \in Callers |-> IdleCaller]
      /\ UNCHANGED <<outbound, attempts, acked, dlq, audits, posts, shared, byHand, viaReplay>>
  BY DEF Crash, Fault, logVars, queueVars, handVars
<1>3. faults' \in 0..MaxFaults /\ faults <= faults' /\ faults' # 0
  BY <1>1, <1>2, BoundsAssumption DEF TypeOK
<1>4. /\ worker' \in [Batches -> Workers]
      /\ \A b \in Batches : /\ worker'[b].pc = "idle" /\ worker'[b].batch = <<>>
                            /\ DOMAIN worker'[b].batch = {}
      /\ \A c \in Callers : caller'[c] = IdleCaller /\ caller'[c].pc = "idle"
  <2>1. IdleWorker \in Workers /\ IdleWorker.pc = "idle" /\ IdleWorker.batch = <<>>
    BY DEF IdleWorker, Workers
  <2> QED
    BY <1>2, <2>1 DEF IdleCaller
<1>5. TypeOK'
  BY <1>1, <1>2, <1>3, <1>4 DEF TypeOK
<1>6. Logged' = Logged
  BY <1>2 DEF Logged
<1>7. Grows /\ byHand <= byHand'
  BY <1>1, <1>2, <1>3, <1>6, Counts DEF Grows, TypeOK
<1>8. Tokens'
  <2>1. Pushers' \subseteq Pushers
    BY <1>4 DEF Pushers
  <2> QED
    BY <1>1, <1>2, <1>5, <1>6, <1>7, <2>1, TokensKept
<1>9. CallersInv'
  BY <1>4 DEF CallersInv, CallerInv
<1>10. QueueInv'
  <2>1. \A i \in Items : Holders(i)' = {} /\ Owing(i)' = {}
    BY <1>4 DEF Holders, Owing, Busy
  <2> QED
    BY <1>1, <1>2, <1>5, <2>1, FaultKeepsItems
<1>11. WorkerInv'
  BY <1>4 DEF WorkerInv, BatchInv, TriedInv
<1>12. NothingForgotten'
  BY <1>3 DEF NothingForgotten
<1>13. AttemptsLogged'
  BY <1>1, <1>2, <1>5, <1>7, AttemptsKept
<1>14. ReplayedWasDelivered'
  BY <1>1, <1>2, <1>5, <1>7, ReplayedKept
<1> QED
  BY <1>5, <1>8, <1>9, <1>10, <1>11, <1>12, <1>13, <1>14 DEF IInv, DeliveryInv

-----------------------------------------------------------------------------
(* The inductive invariant. *)

LEMMA InitHolds == Init => IInv
<1> SUFFICES ASSUME Init PROVE IInv
  OBVIOUS
<1>1. dlq = <<>> /\ Len(dlq) = 0 /\ DOMAIN dlq = {} /\ dlq \in Seq(QueueRows)
  BY DEF Init
<1>2. Cardinality(Events) \in Nat /\ MaxItems \in Nat
  BY FiniteAssumption, FS_CardinalityType, BoundsAssumption DEF MaxItems
<1>3. /\ worker \in [Batches -> Workers]
      /\ \A b \in Batches : /\ worker[b].pc = "idle" /\ worker[b].batch = <<>>
                            /\ DOMAIN worker[b].batch = {}
      /\ \A c \in Callers : caller[c] = IdleCaller /\ caller[c].pc = "idle"
  <2>1. IdleWorker \in Workers /\ IdleWorker.pc = "idle" /\ IdleWorker.batch = <<>>
    BY DEF IdleWorker, Workers
  <2> QED
    BY <2>1 DEF Init, IdleCaller
<1>4. TypeOK
  <2>1. /\ byHand \in 0..MaxByHand /\ faults \in 0..MaxFaults
        /\ subscribed \in BOOLEAN /\ known \subseteq Events /\ acked \subseteq Events
        /\ viaReplay \subseteq Items
    <3>1. byHand = 0 /\ faults = 0 /\ known = {} /\ acked = {} /\ viaReplay = {}
      BY DEF Init
    <3>2. subscribed \in BOOLEAN
      BY DEF Init
    <3> QED
      BY <3>1, <3>2, BoundsAssumption
  <2>2. /\ outbound \in [Events -> OutboundRows \cup {NoEvent}] /\ attempts \in [Events -> Nat]
        /\ audits \in [Items -> Nat] /\ posts \in [Items -> Nat] /\ shared \in [Items -> Nat]
        /\ caller \in [Callers -> BusyCallers \cup {IdleCaller}]
    BY DEF Init
  <2>3. Len(dlq) <= MaxItems
    BY <1>1, <1>2, BoundsAssumption, FiniteAssumption, FS_CardinalityType DEF MaxItems
  <2> QED
    BY <1>1, <1>3, <2>1, <2>2, <2>3 DEF TypeOK
<1>5. Logged = {} /\ Pushers = {}
  BY <1>3 DEF Init, Logged, Pushers
<1>6. Tokens
  <2>1. Cardinality({}) = 0
    BY FS_EmptySet
  <2>2. Cardinality(Logged) = 0 /\ Cardinality(Pushers) = 0
    BY <1>5, <2>1
  <2> QED
    BY <1>1, <2>2 DEF Tokens, Init
<1>7. CallersInv
  BY <1>3 DEF CallersInv, CallerInv
<1>8. QueueInv
  <2> SUFFICES ASSUME NEW i \in Items PROVE ItemInv(i)
    BY DEF QueueInv
  <2>1. Holders(i) = {}
    BY <1>3 DEF Holders, Busy
  <2>2. Cardinality(Holders(i)) = 0
    BY <2>1, FS_EmptySet
  <2>3. posts[i] = 0 /\ audits[i] = 0 /\ shared[i] = 0
    BY DEF Init
  <2> QED
    BY <1>1, <2>2, <2>3 DEF ItemInv
<1>9. WorkerInv
  BY <1>3 DEF WorkerInv, BatchInv, TriedInv
<1>10. DeliveryInv
  BY <1>1, <1>5 DEF DeliveryInv, NothingForgotten, AttemptsLogged, ReplayedWasDelivered
<1> QED
  BY <1>4, <1>6, <1>7, <1>8, <1>9, <1>10 DEF IInv

LEMMA StutterKeeps ==
  ASSUME IInv, UNCHANGED vars
  PROVE  IInv'
<1>1. UNCHANGED <<subscribed, known, outbound, attempts, acked, dlq, audits, posts, caller,
                  worker, shared, byHand, viaReplay, faults>>
  BY DEF vars
<1>2. TypeOK
  BY DEF IInv
<1>3. TypeOK'
  BY <1>1, <1>2 DEF TypeOK
<1>4. Grows /\ byHand <= byHand'
  BY <1>1, <1>2, Counts DEF Grows, TypeOK, Logged
<1> QED
  BY <1>1, <1>3, <1>4, SameRows, StoreKeeps

LEMMA NextKeeps ==
  ASSUME IInv, [Next]_vars
  PROVE  IInv'
<1>1. CASE Subscribe \/ Unsubscribe
  BY <1>1, SubscriptionKeeps
<1>2. ASSUME NEW c \in Callers, NEW e \in Events, Send(c, e) PROVE IInv'
  BY <1>2, SendKeeps
<1>3. ASSUME NEW c \in Callers, OwnerRetries(c) \/ AdminRetries(c) \/ AdminReplays(c) PROVE IInv'
  BY <1>3, OwnerRetriesKeeps, AdminRetriesKeeps, AdminReplaysKeeps
<1>4. ASSUME NEW c \in Callers, CallerStep(c) PROVE IInv'
  BY <1>4, RetryReadsKeeps, LogAttemptKeeps, UpdateEventKeeps, PushKeeps, MarkKeeps, PostKeeps
     DEF CallerStep
<1>5. ASSUME NEW c \in Callers, CallerFails(c) PROVE IInv'
  BY <1>5, CallerFailsKeeps
<1>6. ASSUME NEW i \in Items, Discard(i) PROVE IInv'
  BY <1>6, DiscardKeeps
<1>7. ASSUME NEW b \in Batches, WorkerStep(b) \/ WorkerFails(b) PROVE IInv'
  BY <1>7, WorkerListsKeeps, WorkerSettlesKeeps, WorkerPatchesKeeps, WorkerAuditsKeeps,
     WorkerPostsKeeps, WorkerFailsKeeps DEF WorkerStep
<1>8. CASE Crash
  BY <1>8, CrashKeeps
<1>9. CASE UNCHANGED vars
  BY <1>9, StutterKeeps
<1> QED
  BY <1>1, <1>2, <1>3, <1>4, <1>5, <1>6, <1>7, <1>8, <1>9 DEF Next

\* Requests, worker, queue and log always agree as above.
THEOREM InductiveInvariant == Spec => []IInv
<1>1. Init => IInv
  BY InitHolds
<1>2. IInv /\ [Next]_vars => IInv'
  BY NextKeeps
<1> QED
  BY <1>1, <1>2, PTL DEF Spec

\* Every variable keeps its type; in particular the queue never outgrows the
\* events and the calls by hand that can put an item there.
THEOREM TypeCorrect == Spec => []TypeOK
<1>1. IInv => TypeOK
  BY DEF IInv
<1> QED
  BY <1>1, InductiveInvariant, PTL

\* For any retry limit and any batches that overlap: the worker tries no item more
\* often than the limit, the faults and the second listings of the item allow, and
\* a waiting item has a try left.
THEOREM RetriesBounded == Spec => []RetryBudget
<1>1. IInv => RetryBudget
  <2> SUFFICES ASSUME IInv, NEW i \in DOMAIN dlq
               PROVE  /\ posts[i] <= MaxRetries + faults + shared[i]
                      /\ dlq[i].status = "pending" => dlq[i].retries < MaxRetries
    BY DEF RetryBudget
  <2>1. TypeOK /\ i \in Items
    BY RowType DEF IInv
  <2>2. Load(i) <= MaxRetries /\ (dlq[i].status = "pending" => dlq[i].retries < MaxRetries)
    BY <2>1 DEF IInv, QueueInv, ItemInv
  <2>3. /\ posts[i] \in Nat /\ Cardinality(Owing(i)) \in Nat /\ faults \in Nat
        /\ shared[i] \in Nat /\ MaxRetries \in Nat
    BY <2>1, LoadType
  <2>4. Load(i) = posts[i] + Cardinality(Owing(i)) - faults - shared[i]
    BY DEF Load
  <2> HIDE DEF Load, Owing
  <2> QED
    BY <2>2, <2>3, <2>4
<1> QED
  BY <1>1, InductiveInvariant, PTL

\* While nothing fails, no event is lost between the log, the requests and the
\* dead-letter queue.
THEOREM NoEventForgotten == Spec => []NothingForgotten
<1>1. IInv => NothingForgotten
  BY DEF IInv, DeliveryInv
<1> QED
  BY <1>1, InductiveInvariant, PTL

\* However retries of an event overlap, each attempt it counts was logged.
THEOREM EveryAttemptLogged == Spec => []AttemptsLogged
<1>1. IInv => AttemptsLogged
  BY DEF IInv, DeliveryInv
<1> QED
  BY <1>1, InductiveInvariant, PTL

\* Nothing but the replay route marks an item as replayed that was not delivered
\* and has no item in its place.
THEOREM ReplayedOnlyDelivered == Spec => []ReplayedWasDelivered
<1>1. IInv => ReplayedWasDelivered
  BY DEF IInv, DeliveryInv
<1> QED
  BY <1>1, InductiveInvariant, PTL

-----------------------------------------------------------------------------
(* The dead-letter queue implements DeadLetterPromise: a step of the system is *)
(* a step of the promise, or leaves what the promise is about alone.           *)

\* A status other than pending is written: the item is closed, or was.
LEMMA Closing ==
  ASSUME TypeOK, NEW i \in DOMAIN dlq, NEW x \in ItemStatus, x # "pending",
         dlq' = [dlq EXCEPT ![i].status = x]
  PROVE  \/ ItemStates' = ItemStates
         \/ ItemStates[i] = "waiting" /\ ItemStates' = [ItemStates EXCEPT ![i] = "closed"]
<1>1. /\ DOMAIN dlq' = DOMAIN dlq
      /\ \A j \in DOMAIN dlq : dlq'[j].status = IF j = i THEN x ELSE dlq[j].status
  BY StatusWritten
<1>2. i \in Items
  BY RowType
<1>3. CASE dlq[i].status = "pending"
  BY <1>1, <1>2, <1>3 DEF ItemStates
<1>4. CASE dlq[i].status # "pending"
  BY <1>1, <1>4 DEF ItemStates
<1> QED
  BY <1>3, <1>4

LEMMA Counting ==
  ASSUME TypeOK, NEW i \in DOMAIN dlq, NEW n \in 0..MaxRetries,
         dlq' = [dlq EXCEPT ![i].retries = n]
  PROVE  ItemStates' = ItemStates
<1>1. /\ DOMAIN dlq' = DOMAIN dlq /\ \A j \in DOMAIN dlq : dlq'[j].status = dlq[j].status
  BY RetriesWritten
<1> QED
  BY <1>1 DEF ItemStates

LEMMA PromiseInitial == Init => Promise!PromiseInit
BY DEF Init, Promise!PromiseInit, ItemStates

LEMMA PushEnters ==
  ASSUME IInv, IInv', NEW c \in Callers, Push(c)
  PROVE  \E i \in Items : Promise!Enters(i)
<1>1. TypeOK /\ TypeOK' /\ CallerInv(c) /\ caller[c].pc = "push"
  BY DEF IInv, CallersInv, Push
<1> DEFINE row == [event |-> caller[c].event, status |-> "pending", retries |-> 0]
           i == Len(dlq) + 1
<1>2. row \in QueueRows /\ row.status = "pending" /\ dlq' = Append(dlq, row)
  BY <1>1, BoundsAssumption DEF CallerInv, Logged, QueueRows, ItemStatus, Push
<1> HIDE DEF row
<1>3. /\ DOMAIN dlq' = DOMAIN dlq \cup {i} /\ i \notin DOMAIN dlq
      /\ dlq'[i] = row /\ \A j \in DOMAIN dlq : dlq'[j] = dlq[j]
  BY <1>1, <1>2, RowAppended DEF TypeOK
<1>4. DOMAIN dlq' \subseteq Items
  <2>1. Len(dlq') \in Nat /\ DOMAIN dlq' = 1..Len(dlq') /\ Len(dlq') <= MaxItems
    BY <1>1, LenProperties DEF TypeOK
  <2>2. MaxItems \in Nat
    BY <1>1, ItemsFinite
  <2> QED
    BY <2>1, <2>2 DEF Items
<1> HIDE DEF i
<1>5. i \in Items
  BY <1>3, <1>4
<1>6. ItemStates[i] = "absent" /\ ItemStates' = [ItemStates EXCEPT ![i] = "waiting"]
  BY <1>2, <1>3, <1>5 DEF ItemStates
<1>7. UNCHANGED <<posts, audits, shared, faults>>
  BY DEF Push, batchVars
<1> QED
  BY <1>5, <1>6, <1>7 DEF Promise!Enters

LEMMA PostTries ==
  ASSUME IInv, NEW b \in Batches, NEW ok \in BOOLEAN, WorkerPosts(b, ok)
  PROVE  \E i \in Items : Promise!IsTried(i)
<1>0. PICK i : i = Current(b).item
  OBVIOUS
<1>1. TypeOK /\ QueueInv /\ BatchInv(b) /\ worker[b].pc = "post"
  BY DEF IInv, WorkerInv, WorkerPosts
<1>2. /\ posts' = [posts EXCEPT ![i] = @ + 1]
      /\ UNCHANGED <<dlq, audits, shared, faults>>
  BY <1>0 DEF WorkerPosts
<1>3. /\ 1 \in DOMAIN worker[b].batch /\ i = worker[b].batch[1].item
      /\ i \in DOMAIN dlq /\ i \in Items
  BY <1>0, <1>1, CurrentItem
<1>4. Load(i) <= MaxRetries
  BY <1>1, <1>3 DEF QueueInv, ItemInv
<1>5. b \in Owing(i)
  BY <1>1, <1>3 DEF Owing, Holders, Busy, Tried
<1>6. Cardinality(Owing(i)) >= 1
  <2>1. Cardinality({b}) = 1 /\ {b} \subseteq Owing(i)
    BY <1>5, FS_Singleton
  <2> QED
    BY <1>1, <1>3, <2>1, LoadType, CountPart
<1>7. /\ posts[i] \in Nat /\ Cardinality(Owing(i)) \in Nat /\ faults \in Nat
      /\ shared[i] \in Nat /\ MaxRetries \in Nat
  BY <1>1, <1>3, LoadType
<1>8. Load(i) = posts[i] + Cardinality(Owing(i)) - faults - shared[i]
  BY DEF Load
<1>9. posts[i] < MaxRetries + faults + shared[i]
  <2> HIDE DEF Load, Owing
  <2> QED
    BY <1>4, <1>6, <1>7, <1>8
<1>10. ItemStates[i] # "absent" /\ ItemStates' = ItemStates
  BY <1>2, <1>3 DEF ItemStates
<1> QED
  BY <1>2, <1>3, <1>9, <1>10 DEF Promise!IsTried

LEMMA AuditBuries ==
  ASSUME IInv, NEW b \in Batches, WorkerAudits(b)
  PROVE  \E i \in Items : Promise!IsBuried(i)
<1>0. PICK i, r : i = Current(b).item /\ r = Current(b).retries
  OBVIOUS
<1>1. TypeOK /\ QueueInv /\ BatchInv(b) /\ worker[b].pc = "audit"
  BY DEF IInv, WorkerInv, WorkerAudits
<1>2. /\ audits' = [audits EXCEPT ![i] = @ + 1]
      /\ UNCHANGED <<dlq, posts, shared, faults>>
  BY <1>0 DEF WorkerAudits
<1>3. /\ 1 \in DOMAIN worker[b].batch /\ i = worker[b].batch[1].item
      /\ i \in DOMAIN dlq /\ i \in Items /\ r \in 0..MaxRetries - 1
  BY <1>0, <1>1, CurrentItem
<1>4. b \in Holders(i)
  BY <1>3 DEF Holders, Busy
<1>5. Cardinality(Holders(i)) >= 1
  <2>1. Cardinality({b}) = 1 /\ {b} \subseteq Holders(i)
    BY <1>4, FS_Singleton
  <2> QED
    BY <1>1, <1>3, <2>1, LoadType, CountPart
<1>6. /\ audits[i] \in Nat /\ shared[i] \in Nat /\ posts[i] \in Nat /\ MaxRetries \in Nat
      /\ Cardinality(Holders(i)) \in Nat
  BY <1>1, <1>3, LoadType
<1>7. audits[i] <= shared[i]
  <2>1. audits[i] + Cardinality(Holders(i)) <= 1 + shared[i]
    BY <1>1, <1>3 DEF QueueInv, ItemInv
  <2> QED
    BY <1>5, <1>6, <2>1
<1>8. /\ r + 1 <= posts[i] /\ r + 1 >= MaxRetries
      /\ dlq[i].status # "pending"
  BY <1>0, <1>1 DEF BatchInv, TriedInv
<1>9. posts[i] >= MaxRetries
  BY <1>3, <1>6, <1>8
<1>10. ItemStates[i] = "closed" /\ ItemStates' = ItemStates
  BY <1>2, <1>3, <1>8 DEF ItemStates
<1> QED
  BY <1>2, <1>3, <1>7, <1>9, <1>10 DEF Promise!IsBuried

\* A listing takes items up, some of them again.
LEMMA ListingTakes ==
  ASSUME IInv, NEW b \in Batches, WorkerLists(b)
  PROVE  \E S \in SUBSET Items : Promise!TakenAgain(S)
<1>1. PICK due \in SUBSET {i \in DOMAIN dlq : dlq[i].status = "pending"} :
        shared' = [i \in Items |-> shared[i] + (IF i \in due /\ Held(i) THEN 1 ELSE 0)]
  BY DEF WorkerLists, Lists
<1> DEFINE S == {i \in due : Held(i)}
<1>2. S \in SUBSET Items /\ \A i \in S : i \in DOMAIN dlq /\ dlq[i].status = "pending"
  BY <1>1, RowType DEF IInv
<1>3. \A i \in S : ItemStates[i] = "waiting"
  BY <1>2 DEF ItemStates
<1>4. UNCHANGED <<dlq, posts, audits, faults>>
  BY DEF WorkerLists, Lists, queueVars
<1>5. shared' = [i \in Items |-> shared[i] + (IF i \in S THEN 1 ELSE 0)]
  BY <1>1
<1>6. ItemStates' = ItemStates
  BY <1>4 DEF ItemStates
<1> HIDE DEF S
<1>7. Promise!TakenAgain(S)
  BY <1>3, <1>4, <1>5, <1>6 DEF Promise!TakenAgain
<1> QED
  BY <1>2, <1>7

\* Every other step closes an item or is a mishap or none of the queue's business.
LEMMA MarkCloses ==
  ASSUME IInv, NEW i \in DOMAIN dlq, NEW x \in {"replayed", "discarded"},
         dlq' = [dlq EXCEPT ![i].status = x], UNCHANGED <<audits, posts, shared, faults>>
  PROVE  [Promise!PromiseNext]_(Promise!promiseVars)
<1>1. TypeOK /\ x \in ItemStatus /\ x # "pending"
  BY DEF IInv, ItemStatus
<1>2. i \in Items
  BY <1>1, RowType
<1>3. CASE ItemStates' = ItemStates
  BY <1>3 DEF Promise!promiseVars
<1>4. CASE ItemStates[i] = "waiting" /\ ItemStates' = [ItemStates EXCEPT ![i] = "closed"]
  <2>1. Promise!Closes(i)
    BY <1>4 DEF Promise!Closes
  <2> QED
    BY <1>2, <2>1 DEF Promise!PromiseNext
<1> QED
  BY <1>1, <1>3, <1>4, Closing

LEMMA QuietStep ==
  ASSUME UNCHANGED <<dlq, audits, posts, shared>>, faults' = faults \/ faults' = faults + 1
  PROVE  [Promise!PromiseNext]_(Promise!promiseVars)
<1>1. ItemStates' = ItemStates
  BY DEF ItemStates
<1> QED
  BY <1>1 DEF Promise!PromiseNext, Promise!Mishap, Promise!promiseVars

LEMMA PromiseStep ==
  ASSUME IInv, IInv', [Next]_vars
  PROVE  [Promise!PromiseNext]_(Promise!promiseVars)
<1>1. ASSUME Subscribe \/ Unsubscribe \/ UNCHANGED vars
      PROVE  UNCHANGED <<dlq, audits, posts, shared, faults>>
  BY <1>1 DEF Subscribe, Unsubscribe, queueVars, batchVars, vars
<1>2. ASSUME NEW c \in Callers,
             \/ \E e \in Events : Send(c, e)
             \/ OwnerRetries(c) \/ AdminRetries(c) \/ AdminReplays(c)
             \/ RetryReads(c) \/ LogAttempt(c) \/ UpdateEvent(c) \/ CallerFails(c)
             \/ \E ok \in BOOLEAN : Post(c, ok)
      PROVE  UNCHANGED <<dlq, audits, posts, shared>> /\ (faults' = faults \/ faults' = faults + 1)
  <2>1. ASSUME NEW e \in Events, Send(c, e) PROVE UNCHANGED <<dlq, audits, posts, shared, faults>>
    BY <2>1 DEF Send, queueVars, batchVars
  <2>2. ASSUME OwnerRetries(c) \/ AdminRetries(c) PROVE UNCHANGED <<dlq, audits, posts, shared, faults>>
    <3>1. PICK e, item : RetryByHand(c, e, item)
      BY <2>2 DEF OwnerRetries, AdminRetries
    <3> QED
      BY <3>1 DEF RetryByHand, queueVars, batchVars
  <2>3. ASSUME AdminReplays(c)
        PROVE  UNCHANGED <<dlq, audits, posts, shared>> /\ (faults' = faults \/ faults' = faults + 1)
    BY <2>3 DEF AdminReplays, Fault, queueVars, batchVars
  <2>4. ASSUME RetryReads(c) \/ LogAttempt(c) \/ UpdateEvent(c)
        PROVE  UNCHANGED <<dlq, audits, posts, shared, faults>>
    BY <2>4 DEF RetryReads, LogAttempt, UpdateEvent, queueVars, batchVars
  <2>5. ASSUME CallerFails(c) PROVE UNCHANGED <<dlq, audits, posts, shared>> /\ faults' = faults + 1
    BY <2>5 DEF CallerFails, Fault, queueVars, batchVars
  <2>6. ASSUME NEW ok \in BOOLEAN, Post(c, ok) PROVE UNCHANGED <<dlq, audits, posts, shared, faults>>
    BY <2>6 DEF Post, queueVars, batchVars
  <2> QED
    BY <1>2, <2>1, <2>2, <2>3, <2>4, <2>5, <2>6
<1>3. ASSUME Crash \/ \E b \in Batches : WorkerFails(b)
      PROVE  UNCHANGED <<dlq, audits, posts, shared>> /\ faults' = faults + 1
  BY <1>3 DEF WorkerFails, Crash, Fault, queueVars, batchVars
<1>4. ASSUME NEW c \in Callers, Push(c)
      PROVE  [Promise!PromiseNext]_(Promise!promiseVars)
  BY <1>4, PushEnters DEF Promise!PromiseNext
<1>5. ASSUME NEW c \in Callers, Mark(c)
      PROVE  [Promise!PromiseNext]_(Promise!promiseVars)
  <2>1. PICK i : i = caller[c].item
    OBVIOUS
  <2>2. i \in DOMAIN dlq
    BY <1>5, <2>1 DEF IInv, CallersInv, CallerInv, Mark
  <2>3. dlq' = [dlq EXCEPT ![i].status = "replayed"] /\ UNCHANGED <<audits, posts, shared, faults>>
    BY <1>5, <2>1 DEF Mark, batchVars
  <2> QED
    BY <2>2, <2>3, MarkCloses
<1>6. ASSUME NEW i \in Items, Discard(i)
      PROVE  [Promise!PromiseNext]_(Promise!promiseVars)
  <2>1. i \in DOMAIN dlq /\ dlq' = [dlq EXCEPT ![i].status = "discarded"]
        /\ UNCHANGED <<audits, posts, shared, faults>>
    BY <1>6 DEF Discard, batchVars
  <2> QED
    BY <2>1, MarkCloses
<1>7. ASSUME NEW b \in Batches, NEW ok \in BOOLEAN, WorkerPosts(b, ok)
      PROVE  [Promise!PromiseNext]_(Promise!promiseVars)
  BY <1>7, PostTries DEF Promise!PromiseNext
<1>8. ASSUME NEW b \in Batches, WorkerSettles(b)
      PROVE  [Promise!PromiseNext]_(Promise!promiseVars)
  <2>1. PICK i, x : i = Current(b).item /\ x = worker[b].pc
    OBVIOUS
  <2>2. x \in {"replayed", "discarded"} /\ i \in DOMAIN dlq
    BY <1>8, <2>1, CurrentItem DEF WorkerSettles, IInv, WorkerInv
  <2>3. dlq' = [dlq EXCEPT ![i].status = x] /\ UNCHANGED <<audits, posts, shared, faults>>
    BY <1>8, <2>1 DEF WorkerSettles
  <2> QED
    BY <2>2, <2>3, MarkCloses
<1>9. ASSUME NEW b \in Batches, WorkerPatches(b)
      PROVE  [Promise!PromiseNext]_(Promise!promiseVars)
  <2>1. PICK i, n : i = Current(b).item
                    /\ n = Current(b).retries + (IF worker[b].pc = "close" THEN 0 ELSE 1)
    OBVIOUS
  <2>2. TypeOK /\ BatchInv(b) /\ worker[b].pc # "idle"
    BY <1>9 DEF WorkerPatches, IInv, WorkerInv
  <2>3. i \in DOMAIN dlq /\ n \in 0..MaxRetries
    BY <2>1, <2>2, CurrentItem, BoundsAssumption
  <2>4. dlq' = [dlq EXCEPT ![i].retries = n] /\ UNCHANGED <<audits, posts, shared, faults>>
    BY <1>9, <2>1 DEF WorkerPatches
  <2>5. ItemStates' = ItemStates
    BY <2>2, <2>3, <2>4, Counting
  <2> QED
    BY <2>4, <2>5 DEF Promise!promiseVars
<1>10. ASSUME NEW b \in Batches, WorkerAudits(b)
       PROVE  [Promise!PromiseNext]_(Promise!promiseVars)
  BY <1>10, AuditBuries DEF Promise!PromiseNext
<1>11. CASE Subscribe \/ Unsubscribe \/ UNCHANGED vars
  BY <1>1, <1>11, QuietStep
<1>12. CASE \E c \in Callers :
              \/ \E e \in Events : Send(c, e)
              \/ OwnerRetries(c) \/ AdminRetries(c) \/ AdminReplays(c)
              \/ RetryReads(c) \/ LogAttempt(c) \/ UpdateEvent(c) \/ CallerFails(c)
              \/ \E ok \in BOOLEAN : Post(c, ok)
  <2>1. UNCHANGED <<dlq, audits, posts, shared>> /\ (faults' = faults \/ faults' = faults + 1)
    BY <1>2, <1>12
  <2> QED
    BY <2>1, QuietStep
<1>13. CASE Crash \/ \E b \in Batches : WorkerFails(b)
  BY <1>3, <1>13, QuietStep
<1>14. ASSUME NEW b \in Batches, WorkerLists(b)
       PROVE  [Promise!PromiseNext]_(Promise!promiseVars)
  BY <1>14, ListingTakes DEF Promise!PromiseNext
<1> QED
  BY <1>4, <1>5, <1>6, <1>7, <1>8, <1>9, <1>10, <1>11, <1>12, <1>13, <1>14
     DEF Next, CallerStep, WorkerStep

\* For any number of events, requests, batches, faults and retries: no item comes
\* back once it is closed, none is tried more often than its retries allow, and a
\* permanent failure is audited once, after all of them, but for what a second
\* listing of an item in hand adds to its tries and its audit events.
THEOREM PromiseKept == Spec => KeepsPromise
<1>1. Init => Promise!PromiseInit
  BY PromiseInitial
<1>2. IInv /\ IInv' /\ [Next]_vars => [Promise!PromiseNext]_(Promise!promiseVars)
  BY PromiseStep
<1>3. Spec => []IInv
  BY InductiveInvariant
<1> QED
  BY <1>1, <1>2, <1>3, PTL DEF Spec, KeepsPromise, Promise!PromiseSpec

=============================================================================
