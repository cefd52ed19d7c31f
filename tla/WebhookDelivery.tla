---------------------------- MODULE WebhookDelivery ----------------------------
(* Outbound webhooks: the first delivery and its log (src/delivery.ts), the    *)
(* dead-letter queue (src/db/dlq.ts), the retry worker                         *)
(* (src/webhookDlqWorker.ts, run by the scheduler's cron) and the routes by    *)
(* which an owner or an admin retries, replays or discards (src/webhooks.ts,   *)
(* src/adminRouter.ts).  Every statement and every HTTP call is a step; a      *)
(* handler or the process may stop between any two.                            *)
(* Cron fires again while a batch still runs, and its advisory lock lets the   *)
(* tick pass whenever the pool hands out the session that holds it or that     *)
(* session is lost (module AdvisoryLock): batches overlap.                     *)
(* One subscription at a time: the fan-out to several runs the same steps.     *)
(* Backoff is abstracted to "some time later".                                 *)
EXTENDS Integers, Sequences, FiniteSets, SequencesExt

CONSTANTS
  Events,       \* ids of webhook_outbound_events (bound: as many as are sent)
  Callers,      \* requests and notifiers in flight
  Batches,      \* batches of the retry worker that may run at once
  MaxRetries,   \* WEBHOOK_DLQ_MAX_RETRIES
  BatchSize,    \* WEBHOOK_DLQ_RETRY_BATCH_SIZE
  MaxByHand,    \* bound on retries, replays and discards by hand
  MaxFaults,    \* bound on database errors and crashes
  MaxShared,    \* bound on how often an item is listed while a batch holds it
  NoEvent       \* no row of webhook_outbound_events has this id

ASSUME BoundsAssumption ==
  /\ MaxRetries \in Nat \ {0} /\ BatchSize \in Nat \ {0}
  /\ MaxByHand \in Nat /\ MaxFaults \in Nat /\ MaxShared \in Nat
ASSUME FiniteAssumption ==
  IsFiniteSet(Events) /\ IsFiniteSet(Callers) /\ IsFiniteSet(Batches)

VARIABLES
  subscribed,   \* webhookStore holds a subscription
  known,        \* events whose subscription is the one in webhookStore
  outbound,     \* webhook_outbound_events by id: status and attempt_count
  attempts,     \* webhook_outbound_attempts: rows per event
  acked,        \* history: events a receiver has answered with 2xx
  dlq,          \* webhook_delivery rows of dead_letter_queue, in order of id
  audits,       \* webhook.permanently_failed rows of audit_logs per DLQ item
  posts,        \* history: POSTs of the worker per DLQ item
  caller,       \* the requests and notifiers
  worker,       \* the batches of the retry worker
  shared,       \* history: per item, how often one batch listed it while another
                \* still had it in hand
  byHand,       \* retries, replays and discards by hand so far
  viaReplay,    \* history: items given to POST /admin/dlq/:id/replay
  faults

logVars == <<outbound, attempts, acked>>
queueVars == <<dlq, audits, posts>>
batchVars == <<worker, shared>>
storeVars == <<subscribed, known>>
handVars == <<byHand, viaReplay>>
vars == <<subscribed, known, outbound, attempts, acked, dlq, audits, posts,
          caller, worker, shared, byHand, viaReplay, faults>>

MaxItems == Cardinality(Events) + MaxByHand
Items == 1..MaxItems
ItemStatus == {"pending", "replayed", "discarded"}
QueueRows == [event : Events, status : ItemStatus, retries : 0..MaxRetries]

IdleCaller == [pc |-> "idle"]
OutboundRows == [status : {"pending", "success", "failed"}, count : Nat]
ASSUME NoEventAssumption == NoEvent \notin OutboundRows

\* item is the DLQ item to mark in the end, 0 for none.
BusyCallers ==
  [pc : {"retry", "post", "log", "update", "push", "mark"}, event : Events,
   attempt : Nat, ok : BOOLEAN, item : Items \cup {0}]

\* batch holds what listDueWebhookDLQItems returned, the head being processed.
IdleWorker == [pc |-> "idle", batch |-> <<>>]
BatchEntries == [item : Items, retries : 0..MaxRetries - 1]
Workers == [pc : {"idle", "post", "replayed", "discarded", "close", "patch", "bury", "audit"},
            batch : Seq(BatchEntries)]

TypeOK ==
  /\ subscribed \in BOOLEAN /\ known \subseteq Events
  /\ outbound \in [Events -> OutboundRows \cup {NoEvent}]
  /\ attempts \in [Events -> Nat] /\ acked \subseteq Events
  /\ dlq \in Seq(QueueRows) /\ Len(dlq) <= MaxItems
  /\ audits \in [Items -> Nat] /\ posts \in [Items -> Nat]
  /\ caller \in [Callers -> BusyCallers \cup {IdleCaller}]
  /\ worker \in [Batches -> Workers] /\ shared \in [Items -> Nat]
  /\ byHand \in 0..MaxByHand /\ viaReplay \subseteq Items /\ faults \in 0..MaxFaults

Init ==
  /\ subscribed = FALSE /\ known = {}
  /\ outbound = [e \in Events |-> NoEvent]
  /\ attempts = [e \in Events |-> 0] /\ acked = {}
  /\ dlq = <<>>
  /\ audits = [i \in Items |-> 0] /\ posts = [i \in Items |-> 0]
  /\ caller = [c \in Callers |-> IdleCaller]
  /\ worker = [b \in Batches |-> IdleWorker] /\ shared = [i \in Items |-> 0]
  /\ byHand = 0 /\ viaReplay = {} /\ faults = 0

Logged == {e \in Events : outbound[e] # NoEvent}
ByHand(replayed) ==
  /\ byHand < MaxByHand /\ byHand' = byHand + 1
  /\ viaReplay' = viaReplay \cup replayed
Fault == faults < MaxFaults /\ faults' = faults + 1

-----------------------------------------------------------------------------
(* webhookStore, a Map in memory. *)

\* POST /webhooks: a subscription with a new id.
Subscribe ==
  /\ ~subscribed
  /\ subscribed' = TRUE
  /\ UNCHANGED <<known, logVars, queueVars, caller, batchVars, handVars, faults>>

\* DELETE /webhooks/:id.
Unsubscribe ==
  /\ subscribed
  /\ subscribed' = FALSE /\ known' = {}
  /\ UNCHANGED <<logVars, queueVars, caller, batchVars, handVars, faults>>

-----------------------------------------------------------------------------
(* sendWebhookNotification, retryWebhookEvent and attemptDeliveryOnce. *)

Starts(c, e, attempt, item) ==
  caller' = [caller EXCEPT ![c] = [pc |-> "post", event |-> e, ok |-> FALSE,
                                   attempt |-> attempt, item |-> item]]

\* createWebhookOutboundEvent for the subscription.
Created(e) ==
  /\ outbound[e] = NoEvent
  /\ outbound' = [outbound EXCEPT ![e] = [status |-> "pending", count |-> 0]]
  /\ known' = known \cup {e}

\* A notification with a subscriber.
Send(c, e) ==
  /\ caller[c].pc = "idle" /\ subscribed
  /\ Created(e)
  /\ Starts(c, e, 1, 0)
  /\ UNCHANGED <<subscribed, attempts, acked, queueVars, batchVars, handVars, faults>>

\* POST /webhooks/outbound/events/:id/replay, by the event's owner, or POST
\* /admin/webhooks/dead-letter/:id/retry, which looks at the item's status first.
RetryByHand(c, e, item) ==
  /\ caller[c].pc = "idle" /\ e \in Logged
  /\ ByHand({})
  /\ caller' = [caller EXCEPT ![c] = [pc |-> "retry", event |-> e, ok |-> FALSE,
                                      attempt |-> 0, item |-> item]]
  /\ UNCHANGED <<storeVars, logVars, queueVars, batchVars, faults>>

OwnerRetries(c) == \E e \in Events : RetryByHand(c, e, 0)

AdminRetries(c) ==
  \E i \in DOMAIN dlq : dlq[i].status = "pending" /\ RetryByHand(c, dlq[i].event, i)

\* A request with the outcome of its POST, and one that has nobody to POST to.
Answered(request, ok) == [request EXCEPT !.pc = "log", !.ok = ok]
GivenUp(request, count) == [request EXCEPT !.pc = "update", !.attempt = count]

\* Mutation of RetryReads: an event without its subscription is passed over.
RetryReadsForgets(c) ==
  LET e == caller[c].event IN
  /\ caller[c].pc = "retry"
  /\ \/ e \in known /\ Starts(c, e, outbound[e].count + 1, caller[c].item)
     \/ /\ e \notin known
        /\ caller' = [caller EXCEPT ![c] =
             IF caller[c].item = 0 THEN IdleCaller ELSE [caller[c] EXCEPT !.pc = "mark"]]
  /\ UNCHANGED <<storeVars, logVars, queueVars, batchVars, handVars, faults>>

\* retryWebhookEvent: with its subscription the event is delivered once more,
\* without it marked failed and put in the queue again.
RetryReads(c) ==
  LET e == caller[c].event IN
  /\ caller[c].pc = "retry"
  /\ \/ e \in known /\ Starts(c, e, outbound[e].count + 1, caller[c].item)
     \/ /\ e \notin known
        /\ caller' = [caller EXCEPT ![c] =
             GivenUp(caller[c], outbound[e].count)]
  /\ UNCHANGED <<storeVars, logVars, queueVars, batchVars, handVars, faults>>

\* POST /admin/dlq/:id/replay sends payload.originalPayload, which no item has,
\* to the subscriber as an event of its own; without one, or when the event
\* cannot be stored, it sends nothing.
AdminReplays(c) ==
  /\ caller[c].pc = "idle"
  /\ \E i \in DOMAIN dlq :
       /\ dlq[i].status = "pending"
       /\ ByHand({i})
       /\ \/ /\ subscribed
             /\ \E e \in Events : Created(e) /\ Starts(c, e, 1, i)
             /\ UNCHANGED faults
          \/ /\ caller' = [caller EXCEPT ![c] = [pc |-> "mark", event |-> dlq[i].event,
                             ok |-> FALSE, attempt |-> 0, item |-> i]]
             /\ (~subscribed /\ UNCHANGED faults) \/ (subscribed /\ Fault)
             /\ UNCHANGED <<outbound, known>>
  /\ UNCHANGED <<subscribed, attempts, acked, queueVars, batchVars>>

\* Mutation of Post: an outcome without a status code is not logged.
PostUnlogged(c, ok) ==
  /\ caller[c].pc = "post"
  /\ acked' = IF ok THEN acked \cup {caller[c].event} ELSE acked
  /\ \E pc \in (IF ok THEN {"log"} ELSE {"log", "update"}) :
       caller' = [caller EXCEPT ![c].pc = pc, ![c].ok = ok]
  /\ UNCHANGED <<storeVars, outbound, attempts, queueVars, batchVars, handVars, faults>>

\* deliverWebhookRequest: a 2xx answer, or any other outcome (another status,
\* a timeout, an open circuit breaker).
Post(c, ok) ==
  /\ caller[c].pc = "post"
  /\ acked' = IF ok THEN acked \cup {caller[c].event} ELSE acked
  /\ caller' = [caller EXCEPT ![c] = Answered(caller[c], ok)]
  /\ UNCHANGED <<storeVars, outbound, attempts, queueVars, batchVars, handVars, faults>>

\* insertWebhookOutboundAttempt.
LogAttempt(c) ==
  /\ caller[c].pc = "log"
  /\ attempts' = [attempts EXCEPT ![caller[c].event] = @ + 1]
  /\ caller' = [caller EXCEPT ![c].pc = "update"]
  /\ UNCHANGED <<storeVars, outbound, acked, queueVars, batchVars, handVars, faults>>

\* The request returns, or marks the item it came from.
Returned(c) == IF caller[c].item = 0 THEN IdleCaller ELSE [caller[c] EXCEPT !.pc = "mark"]

\* Mutation of UpdateEvent: a failed delivery is not put in the queue.
UpdateEventOnly(c) ==
  /\ caller[c].pc = "update"
  /\ outbound' = [outbound EXCEPT ![caller[c].event] =
       [status |-> IF caller[c].ok THEN "success" ELSE "failed",
        count |-> caller[c].attempt]]
  /\ caller' = [caller EXCEPT ![c] = Returned(c)]
  /\ UNCHANGED <<storeVars, attempts, acked, queueVars, batchVars, handVars, faults>>

\* updateWebhookOutboundEventAfterAttempt, with the count computed when the
\* attempt began.
UpdateEvent(c) ==
  /\ caller[c].pc = "update"
  /\ outbound' = [outbound EXCEPT ![caller[c].event] =
       [status |-> IF caller[c].ok THEN "success" ELSE "failed",
        count |-> caller[c].attempt]]
  /\ caller' = [caller EXCEPT ![c] = IF caller[c].ok THEN Returned(c)
                                     ELSE [caller[c] EXCEPT !.pc = "push"]]
  /\ UNCHANGED <<storeVars, attempts, acked, queueVars, batchVars, handVars, faults>>

\* pushToDLQ, with a retry count of 0.
Push(c) ==
  /\ caller[c].pc = "push"
  /\ dlq' = Append(dlq, [event |-> caller[c].event, status |-> "pending", retries |-> 0])
  /\ caller' = [caller EXCEPT ![c] = Returned(c)]
  /\ UNCHANGED <<storeVars, logVars, audits, posts, batchVars, handVars, faults>>

\* updateDLQItemStatus(id, "replayed"), whatever the status is by now.
Mark(c) ==
  /\ caller[c].pc = "mark"
  /\ dlq' = [dlq EXCEPT ![caller[c].item].status = "replayed"]
  /\ caller' = [caller EXCEPT ![c] = IdleCaller]
  /\ UNCHANGED <<storeVars, logVars, audits, posts, batchVars, handVars, faults>>

\* The event was created by the replay of another event's item.
Replays(c) == caller[c].item # 0 /\ caller[c].event # dlq[caller[c].item].event

\* A statement throws.  attemptDeliveryOnce stops and the request ends with an
\* error, but sendWebhookNotification, and so a replay, goes on.
CallerFails(c) ==
  /\ caller[c].pc # "idle"
  /\ Fault
  /\ caller' = [caller EXCEPT ![c] = IF caller[c].pc # "mark" /\ Replays(c)
                                     THEN [caller[c] EXCEPT !.pc = "mark"] ELSE IdleCaller]
  /\ UNCHANGED <<storeVars, logVars, queueVars, batchVars, handVars>>

\* DELETE /admin/dlq/:id, whatever the status.
Discard(i) ==
  /\ i \in DOMAIN dlq
  /\ ByHand({})
  /\ dlq' = [dlq EXCEPT ![i].status = "discarded"]
  /\ UNCHANGED <<storeVars, logVars, audits, posts, caller, batchVars, faults>>

-----------------------------------------------------------------------------
(* A batch of the retry worker: runWebhookDLQRetryBatch. *)

Current(b) == worker[b].batch[1]
At(w, pc) == [w EXCEPT !.pc = pc]
Rest(w) == LET rest == Tail(w.batch) IN
           [pc |-> IF rest = <<>> THEN "idle" ELSE "post", batch |-> rest]
Goes(b, w) == worker' = [worker EXCEPT ![b] = w]

\* Some batch has not done with the item.
Held(i) == \E b \in Batches : \E n \in DOMAIN worker[b].batch : worker[b].batch[n].item = i

\* A batch starts on some of the items that are due.
Lists(b, dueItems) ==
  /\ worker[b].pc = "idle"
  /\ \E due \in SUBSET dueItems :
       /\ due # {} /\ Cardinality(due) <= BatchSize
       /\ \A i \in due : Held(i) => shared[i] < MaxShared
       /\ shared' = [i \in Items |-> shared[i] + (IF i \in due /\ Held(i) THEN 1 ELSE 0)]
       /\ Goes(b, [pc |-> "post",
            batch |-> SetToSeq({[item |-> i, retries |-> dlq[i].retries] : i \in due})])
  /\ UNCHANGED <<storeVars, logVars, queueVars, caller, handVars, faults>>

\* Mutation of WorkerLists: an item that has been retried gets no next time.
WorkerListsFresh(b) ==
  Lists(b, {i \in DOMAIN dlq : dlq[i].status = "pending" /\ dlq[i].retries = 0})

\* listDueWebhookDLQItems: pending items, each with its retry count at this
\* moment, whatever another batch is doing with them.  Which of them are due, and
\* in which order, is left open.
WorkerLists(b) == Lists(b, {i \in DOMAIN dlq : dlq[i].status = "pending"})

\* Mutation of WorkerPosts: one retry too many.
WorkerPostsMore(b, ok) ==
  LET i == Current(b).item IN
  /\ worker[b].pc = "post"
  /\ posts' = [posts EXCEPT ![i] = @ + 1]
  /\ acked' = IF ok THEN acked \cup {dlq[i].event} ELSE acked
  /\ Goes(b, At(worker[b], IF ok THEN "replayed"
                           ELSE IF Current(b).retries >= MaxRetries
                           THEN "discarded" ELSE "patch"))
  /\ UNCHANGED <<storeVars, outbound, attempts, dlq, audits, shared, caller, handVars, faults>>

\* processWebhookDLQItem delivers.  Its two early branches, for an item without
\* a target and for one whose retries are used up, do not occur: every item has
\* both fields and RetryBudget keeps a pending item below the limit.
WorkerPosts(b, ok) ==
  LET i == Current(b).item IN
  /\ worker[b].pc = "post"
  /\ posts' = [posts EXCEPT ![i] = @ + 1]
  /\ acked' = IF ok THEN acked \cup {dlq[i].event} ELSE acked
  /\ Goes(b, At(worker[b], IF ok THEN "replayed"
                           ELSE IF Current(b).retries + 1 >= MaxRetries
                           THEN "discarded" ELSE "patch"))
  /\ UNCHANGED <<storeVars, outbound, attempts, dlq, audits, shared, caller, handVars, faults>>

\* updateDLQItemStatus, whatever the status is by now.
WorkerSettles(b) ==
  /\ worker[b].pc \in {"replayed", "discarded"}
  /\ dlq' = [dlq EXCEPT ![Current(b).item].status = worker[b].pc]
  /\ Goes(b, At(worker[b], IF worker[b].pc = "replayed" THEN "close" ELSE "bury"))
  /\ UNCHANGED <<storeVars, logVars, audits, posts, shared, caller, handVars, faults>>

\* After the retry count the batch goes on: to the audit event or the next item.
Patched(b) == IF worker[b].pc = "bury" THEN At(worker[b], "audit") ELSE Rest(worker[b])

\* Mutation of WorkerPatches: the snapshot's count is written back.
WorkerPatchesBack(b) ==
  /\ worker[b].pc \in {"close", "patch", "bury"}
  /\ dlq' = [dlq EXCEPT ![Current(b).item].retries = Current(b).retries]
  /\ Goes(b, Patched(b))
  /\ UNCHANGED <<storeVars, logVars, audits, posts, shared, caller, handVars, faults>>

\* patchDLQItemContext: the count of the snapshot, plus one after a failure.
WorkerPatches(b) ==
  /\ worker[b].pc \in {"close", "patch", "bury"}
  /\ dlq' = [dlq EXCEPT ![Current(b).item].retries =
               Current(b).retries + (IF worker[b].pc = "close" THEN 0 ELSE 1)]
  /\ Goes(b, Patched(b))
  /\ UNCHANGED <<storeVars, logVars, audits, posts, shared, caller, handVars, faults>>

\* insertPermanentFailureAuditEvent.
WorkerAudits(b) ==
  /\ worker[b].pc = "audit"
  /\ audits' = [audits EXCEPT ![Current(b).item] = @ + 1]
  /\ Goes(b, Rest(worker[b]))
  /\ UNCHANGED <<storeVars, logVars, dlq, posts, shared, caller, handVars, faults>>

\* A statement throws: the error is logged and the next item's turn comes.
WorkerFails(b) ==
  /\ worker[b].pc # "idle"
  /\ Fault
  /\ Goes(b, Rest(worker[b]))
  /\ UNCHANGED <<storeVars, logVars, queueVars, shared, caller, handVars>>

-----------------------------------------------------------------------------
\* The process dies and comes back with an empty store.
Crash ==
  /\ Fault
  /\ subscribed' = FALSE /\ known' = {}
  /\ caller' = [c \in Callers |-> IdleCaller]
  /\ worker' = [b \in Batches |-> IdleWorker]
  /\ UNCHANGED <<logVars, queueVars, shared, handVars>>

CallerStep(c) ==
  \/ RetryReads(c) \/ LogAttempt(c) \/ UpdateEvent(c) \/ Push(c) \/ Mark(c)
  \/ \E ok \in BOOLEAN : Post(c, ok)

WorkerStep(b) ==
  \/ WorkerLists(b) \/ WorkerSettles(b) \/ WorkerPatches(b) \/ WorkerAudits(b)
  \/ \E ok \in BOOLEAN : WorkerPosts(b, ok)

Next ==
  \/ Subscribe \/ Unsubscribe
  \/ \E c \in Callers :
       \/ \E e \in Events : Send(c, e)
       \/ OwnerRetries(c) \/ AdminRetries(c) \/ AdminReplays(c)
       \/ CallerStep(c) \/ CallerFails(c)
  \/ \E i \in Items : Discard(i)
  \/ \E b \in Batches : WorkerStep(b) \/ WorkerFails(b)
  \/ Crash

Spec == Init /\ [][Next]_vars

\* Calls answer or time out, and the cron job goes on firing: nothing else is
\* obliged to happen.
FairSpec ==
  /\ Spec
  /\ \A c \in Callers : WF_vars(CallerStep(c))
  /\ \A b \in Batches : WF_vars(WorkerStep(b))

-----------------------------------------------------------------------------
ItemsOf(e) == {i \in DOMAIN dlq : dlq[i].event = e}

\* The worker tries an item no more often than WEBHOOK_DLQ_MAX_RETRIES, plus once
\* for every fault that kept it from writing down a try and once for every batch
\* that listed the item while another still had it, and an item that is still
\* pending has a try left (webhookDlqWorker.ts:122-202): although batches write
\* back counts they read long before, and requests by hand change the status
\* under them.
RetryBudget ==
  \A i \in DOMAIN dlq :
    /\ posts[i] <= MaxRetries + faults + shared[i]
    /\ dlq[i].status = "pending" => dlq[i].retries < MaxRetries

\* An item of the queue as DeadLetterPromise sees it.
ItemStates ==
  [i \in Items |-> IF i \notin DOMAIN dlq THEN "absent"
                   ELSE IF dlq[i].status = "pending" THEN "waiting" ELSE "closed"]

\* DeadLetterPromise of this queue: posts are its tries, audit rows its burials.
Promise == INSTANCE DeadLetterPromise WITH
  DeadLetters <- Items, TryLimit <- MaxRetries,
  tries <- posts, buried <- audits, mishaps <- faults, again <- shared,
  item <- ItemStates

\* The items of dead_letter_queue keep the promise of DeadLetterPromise: none
\* comes back once it is closed, none is tried more often than its retries allow,
\* and a permanent failure is audited once, after all of them
\* (webhookDlqWorker.ts:122-202), although a batch works from a snapshot and
\* retries, replays and discards by hand change the items under it.  Batches that
\* overlap may do more, by one try and one audit event for each listing of an
\* item that another batch had not done with (scheduler.ts:488-508), never more.
KeepsPromise == Promise!PromiseSpec

\* While nothing fails, an event of which the log exists is delivered, in
\* somebody's hands or in the dead-letter queue (delivery.ts:190-260, 307-354).
NothingForgotten ==
  \A e \in Logged :
    faults = 0 =>
      \/ e \in acked \/ ItemsOf(e) # {}
      \/ \E c \in Callers : caller[c].pc # "idle" /\ caller[c].event = e

\* Every delivery attempt an event's row counts has its row in
\* webhook_outbound_attempts, however retries of it overlap (delivery.ts:208-226,
\* 346): a count is computed from one that is already covered.
AttemptsLogged == \A e \in Logged : outbound[e].count <= attempts[e]

\* Every item leaves the queue: delivered, or given up after its retries.
ItemsSettle ==
  \A i \in Items : (i \in DOMAIN dlq /\ dlq[i].status = "pending")
                     ~> (i \in DOMAIN dlq /\ dlq[i].status # "pending")

\* An item leaves the queue as replayed only when its event was delivered or has
\* another item in its place, however the worker, retries by hand and discards
\* overlap: marking comes after the outcome (adminRouter.ts:325-346,
\* webhookDlqWorker.ts:155-170).  The replay route (adminRouter.ts:247-297), which
\* marks whatever came of it, is the one exception.
ReplayedWasDelivered ==
  \A i \in DOMAIN dlq :
    dlq[i].status = "replayed" /\ i \notin viaReplay =>
      dlq[i].event \in acked \/ ItemsOf(dlq[i].event) # {i}
=============================================================================
