---------------------------- MODULE PayrollScheduler ----------------------------
(* The payroll scheduler (src/scheduler/scheduler.ts) in several replicas: the *)
(* job map that refreshJobs reconciles with payroll_schedules, the execution   *)
(* of a schedule when its cron job fires, and the queue of admin overrides     *)
(* (src/db/queries.ts, scheduler_overrides) that every refresh drains.         *)
(* The advisory lock of an execution is ideal here (AdvisoryLock has the real  *)
(* one).  last_run_at and next_run_at guide nothing and are left out.          *)
(* A replica without the addresses of the contracts, which .env.example leaves *)
(* empty, simulates: it makes up a stream id, pays nothing, and goes on as     *)
(* after a payment.                                                            *)
EXTENDS Integers, Sequences, FiniteSets, SequencesExt

CONSTANTS
  Replicas, Schedules,
  Overrides,       \* rows of scheduler_overrides (bound: as many as are queued)
  Crons,           \* cron expressions, of which
  ValidCrons,      \* these pass cron.validate
  NoJob,           \* no enabled row, no cron job
  Unconfigured,    \* replicas without AUTOMATION_GATEWAY_ADDRESS or PAYROLL_STREAM_ADDRESS
  Slots,           \* refreshes of one replica that may overlap
  OverrideBatch,   \* overrides taken by one refresh (10)
  MaxTicks,        \* bound on the times a schedule comes due
  MaxEdits,        \* bound on changes of payroll_schedules
  MaxFaults        \* bound on database and RPC failures, crashes, shutdowns

ASSUME BoundsAssumption ==
  /\ ValidCrons \subseteq Crons /\ NoJob \notin Crons
  /\ OverrideBatch \in Nat \ {0}
  /\ MaxTicks \in Nat /\ MaxEdits \in Nat /\ MaxFaults \in Nat
ASSUME FiniteAssumption == IsFiniteSet(Replicas) /\ IsFiniteSet(Overrides)

VARIABLES
  rows,        \* payroll_schedules: the cron expression of an enabled schedule
  ticks,       \* how often a schedule has come due
  jobs,        \* jobs[r]: activeJobs, the cron expression of each job
  due,         \* due[r][s]: the tick for which a job is about to fire, or 0
  run,         \* run[r][s]: executeScheduledPayroll
  refresh,     \* refresh[r][k]: refreshJobs
  up,          \* up[r]: the scheduler of the replica is started
  paid,        \* streams created on chain per schedule and tick
  simulated,   \* history: stream ids made up for them, likewise
  succeeded,   \* scheduler_logs: rows with status 'success', likewise
  override,    \* scheduler_overrides.status
  made,        \* streams created on chain per override
  simulatedFor,\* history: stream ids made up for it
  edits, faults

jobVars == <<jobs, due, run>>
bookVars == <<paid, simulated, succeeded>>
overrideVars == <<override, made, simulatedFor>>
vars == <<rows, ticks, jobs, due, run, refresh, up, paid, simulated, succeeded,
          override, made, simulatedFor, edits, faults>>

Ticks == 1..MaxTicks
Runs == [pc : {"idle", "create", "update", "log"}, tick : 0..MaxTicks, ok : BOOLEAN]
Refreshes == [pc : {"idle", "create", "complete", "fail", "apply"}, todo : Seq(Overrides),
              list : [Schedules -> Crons \cup {NoJob}]]
NoRun == [pc |-> "idle", tick |-> 0, ok |-> FALSE]
NoRefresh == [pc |-> "idle", todo |-> <<>>, list |-> [s \in Schedules |-> NoJob]]

TypeOK ==
  /\ rows \in [Schedules -> Crons \cup {NoJob}]
  /\ ticks \in [Schedules -> 0..MaxTicks]
  /\ jobs \in [Replicas -> [Schedules -> ValidCrons \cup {NoJob}]]
  /\ due \in [Replicas -> [Schedules -> 0..MaxTicks]]
  /\ run \in [Replicas -> [Schedules -> Runs]]
  /\ refresh \in [Replicas -> [Slots -> Refreshes]]
  /\ up \in [Replicas -> BOOLEAN]
  /\ paid \in [Schedules -> [Ticks -> Nat]] /\ simulated \in [Schedules -> [Ticks -> Nat]]
  /\ succeeded \in [Schedules -> [Ticks -> Nat]]
  /\ override \in [Overrides -> {"none", "pending", "processing", "completed", "failed"}]
  /\ made \in [Overrides -> Nat] /\ simulatedFor \in [Overrides -> Nat]
  /\ edits \in 0..MaxEdits /\ faults \in 0..MaxFaults

Init ==
  /\ rows \in [Schedules -> Crons \cup {NoJob}]
  /\ ticks = [s \in Schedules |-> 0]
  /\ jobs = [r \in Replicas |-> [s \in Schedules |-> NoJob]]
  /\ due = [r \in Replicas |-> [s \in Schedules |-> 0]]
  /\ run = [r \in Replicas |-> [s \in Schedules |-> NoRun]]
  /\ refresh = [r \in Replicas |-> [k \in Slots |-> NoRefresh]]
  /\ up = [r \in Replicas |-> TRUE]
  /\ paid = [s \in Schedules |-> [t \in Ticks |-> 0]]
  /\ simulated = paid /\ succeeded = paid
  /\ override = [o \in Overrides |-> "none"]
  /\ made = [o \in Overrides |-> 0] /\ simulatedFor = made
  /\ edits = 0 /\ faults = 0

Fault == faults < MaxFaults /\ faults' = faults + 1

-----------------------------------------------------------------------------
(* Outside the scheduler. *)

\* A schedule is created, enabled, disabled, deleted, or gets another cron
\* expression.
EditSchedule(s, cron) ==
  /\ rows[s] # cron
  /\ edits < MaxEdits /\ edits' = edits + 1
  /\ rows' = [rows EXCEPT ![s] = cron]
  /\ UNCHANGED <<ticks, jobVars, refresh, up, bookVars, overrideVars, faults>>

\* POST of the admin: enqueueOverride.
QueueOverride(o) ==
  /\ override[o] = "none"
  /\ override' = [override EXCEPT ![o] = "pending"]
  /\ UNCHANGED <<rows, ticks, jobVars, refresh, up, bookVars, made, simulatedFor, edits, faults>>

\* The schedule comes due: every replica that has a job for it will fire, each
\* when its clock and its event loop let it.
Tick(s) ==
  /\ ticks[s] < MaxTicks
  /\ \E r \in Replicas : jobs[r][s] # NoJob
  /\ ticks' = [ticks EXCEPT ![s] = @ + 1]
  /\ due' = [r \in Replicas |->
       IF jobs[r][s] # NoJob THEN [due[r] EXCEPT ![s] = ticks[s] + 1] ELSE due[r]]
  /\ UNCHANGED <<rows, jobs, run, refresh, up, bookVars, overrideVars, edits, faults>>

-----------------------------------------------------------------------------
(* executeScheduledPayroll. *)

SetRun(r, s, rec) == run' = [run EXCEPT ![r][s] = rec]

\* The job fires.  Whoever finds the lock taken skips the execution.
Fire(r, s) ==
  /\ due[r][s] # 0
  /\ due' = [due EXCEPT ![r][s] = 0]
  /\ \/ /\ \A q \in Replicas : run[q][s].pc = "idle"
        /\ SetRun(r, s, [pc |-> "create", tick |-> due[r][s], ok |-> FALSE])
     \/ /\ \E q \in Replicas : run[q][s].pc # "idle"
        /\ UNCHANGED run
  /\ UNCHANGED <<rows, ticks, jobs, refresh, up, bookVars, overrideVars, edits, faults>>

\* Mutation of CreateStream: a submission that returns no error counts as done.
CreateStreamSubmitted(r, s) ==
  LET t == run[r][s].tick IN
  /\ run[r][s].pc = "create" /\ r \notin Unconfigured
  /\ \E created \in {0, 1} : paid' = [paid EXCEPT ![s][t] = @ + created]
  /\ SetRun(r, s, [run[r][s] EXCEPT !.pc = "update", !.ok = TRUE])
  /\ UNCHANGED <<rows, ticks, jobs, due, refresh, up, simulated, succeeded,
                 overrideVars, edits, faults>>

\* triggerStreamCreation.  Without the addresses it returns a random number and
\* submits nothing.  With them it returns the id of the stream, or is refused, or
\* it throws although the transaction was, or will be, applied (the polls of its
\* result ran out, the answer could not be parsed).  An error skips to the log.
CreateStream(r, s) ==
  LET t == run[r][s].tick IN
  /\ run[r][s].pc = "create"
  /\ \/ /\ r \in Unconfigured
        /\ simulated' = [simulated EXCEPT ![s][t] = @ + 1]
        /\ SetRun(r, s, [run[r][s] EXCEPT !.pc = "update", !.ok = TRUE])
        /\ UNCHANGED <<paid, faults>>
     \/ /\ r \notin Unconfigured
        /\ paid' = [paid EXCEPT ![s][t] = @ + 1]
        /\ SetRun(r, s, [run[r][s] EXCEPT !.pc = "update", !.ok = TRUE])
        /\ UNCHANGED <<simulated, faults>>
     \/ /\ r \notin Unconfigured
        /\ SetRun(r, s, [run[r][s] EXCEPT !.pc = "log"])
        /\ UNCHANGED <<paid, simulated, faults>>
     \/ /\ r \notin Unconfigured
        /\ Fault
        /\ paid' = [paid EXCEPT ![s][t] = @ + 1]
        /\ SetRun(r, s, [run[r][s] EXCEPT !.pc = "log"])
        /\ UNCHANGED simulated
  /\ UNCHANGED <<rows, ticks, jobs, due, refresh, up, succeeded, overrideVars, edits>>

\* updatePayrollSchedule; when it throws, the execution becomes a failed one.
UpdateSchedule(r, s) ==
  /\ run[r][s].pc = "update"
  /\ \/ SetRun(r, s, [run[r][s] EXCEPT !.pc = "log"]) /\ UNCHANGED faults
     \/ SetRun(r, s, [run[r][s] EXCEPT !.pc = "log", !.ok = FALSE]) /\ Fault
  /\ UNCHANGED <<rows, ticks, jobs, due, refresh, up, bookVars, overrideVars, edits>>

\* logSchedulerAction, unless it throws too; the lock is released.
LogRun(r, s) ==
  LET t == run[r][s].tick IN
  /\ run[r][s].pc = "log"
  /\ \/ /\ succeeded' = [succeeded EXCEPT ![s][t] = @ + (IF run[r][s].ok THEN 1 ELSE 0)]
        /\ UNCHANGED faults
     \/ Fault /\ UNCHANGED succeeded
  /\ SetRun(r, s, NoRun)
  /\ UNCHANGED <<rows, ticks, jobs, due, refresh, up, paid, simulated, overrideVars, edits>>

-----------------------------------------------------------------------------
(* refreshJobs and, in it, executeSchedulerOverrides. *)

SetRefresh(r, k, rec) == refresh' = [refresh EXCEPT ![r][k] = rec]
Todo(r, k) == refresh[r][k].todo
OverrideDone(r, k) ==
  SetRefresh(r, k, [refresh[r][k] EXCEPT !.pc = "create", !.todo = Tail(@)])

\* Mutation of Dequeue: what is left in 'processing' is taken up again.
DequeueAgain(r, k) ==
  /\ up[r] /\ refresh[r][k].pc = "idle"
  /\ \E batch \in SUBSET {o \in Overrides : override[o] \in {"pending", "processing"}} :
       /\ Cardinality(batch) <= OverrideBatch
       /\ override' = [o \in Overrides |-> IF o \in batch THEN "processing" ELSE override[o]]
       /\ SetRefresh(r, k, [NoRefresh EXCEPT !.pc = "create", !.todo = SetToSeq(batch)])
  /\ UNCHANGED <<rows, ticks, jobVars, up, bookVars, made, simulatedFor, edits, faults>>

\* A refresh starts: dequeuePendingOverrides takes pending rows and marks them,
\* or throws, which is logged.  Rows another refresh is taking are skipped.
Dequeue(r, k) ==
  /\ up[r] /\ refresh[r][k].pc = "idle"
  /\ \E batch \in SUBSET {o \in Overrides : override[o] = "pending"} :
       /\ Cardinality(batch) <= OverrideBatch
       /\ override' = [o \in Overrides |-> IF o \in batch THEN "processing" ELSE override[o]]
       /\ SetRefresh(r, k, [NoRefresh EXCEPT !.pc = "create", !.todo = SetToSeq(batch)])
  /\ UNCHANGED <<rows, ticks, jobVars, up, bookVars, made, simulatedFor, edits, faults>>

\* The next override: a stream is created, or its id is made up; or the override
\* is refused (an action not implemented, no rate, a failed transaction); or the
\* stream is created and the call throws all the same.
ExecuteOverride(r, k) ==
  LET o == Head(Todo(r, k)) IN
  /\ refresh[r][k].pc = "create" /\ Todo(r, k) # <<>>
  /\ \/ /\ r \in Unconfigured
        /\ simulatedFor' = [simulatedFor EXCEPT ![o] = @ + 1]
        /\ SetRefresh(r, k, [refresh[r][k] EXCEPT !.pc = "complete"])
        /\ UNCHANGED <<made, faults>>
     \/ /\ r \notin Unconfigured
        /\ made' = [made EXCEPT ![o] = @ + 1]
        /\ SetRefresh(r, k, [refresh[r][k] EXCEPT !.pc = "complete"])
        /\ UNCHANGED <<simulatedFor, faults>>
     \/ /\ SetRefresh(r, k, [refresh[r][k] EXCEPT !.pc = "fail"])
        /\ UNCHANGED <<made, simulatedFor, faults>>
     \/ /\ r \notin Unconfigured
        /\ Fault
        /\ made' = [made EXCEPT ![o] = @ + 1]
        /\ SetRefresh(r, k, [refresh[r][k] EXCEPT !.pc = "fail"])
        /\ UNCHANGED simulatedFor
  /\ UNCHANGED <<rows, ticks, jobVars, up, bookVars, override, edits>>

\* markOverrideCompleted; when it throws, the override is marked failed.
CompleteOverride(r, k) ==
  /\ refresh[r][k].pc = "complete"
  /\ \/ /\ override' = [override EXCEPT ![Head(Todo(r, k))] = "completed"]
        /\ OverrideDone(r, k)
        /\ UNCHANGED faults
     \/ /\ Fault
        /\ SetRefresh(r, k, [refresh[r][k] EXCEPT !.pc = "fail"])
        /\ UNCHANGED override
  /\ UNCHANGED <<rows, ticks, jobVars, up, bookVars, made, simulatedFor, edits>>

\* Mutation of FailOverride: the first failure ends the batch.
FailOverrideBatch(r, k) ==
  /\ refresh[r][k].pc = "fail"
  /\ override' = [override EXCEPT ![Head(Todo(r, k))] = "failed"]
  /\ SetRefresh(r, k, [NoRefresh EXCEPT !.pc = "create"])
  /\ UNCHANGED <<rows, ticks, jobVars, up, bookVars, made, simulatedFor, edits, faults>>

\* markOverrideFailed; when it throws, the loop ends and the rest of the batch
\* is left as it is.
FailOverride(r, k) ==
  /\ refresh[r][k].pc = "fail"
  /\ \/ /\ override' = [override EXCEPT ![Head(Todo(r, k))] = "failed"]
        /\ OverrideDone(r, k)
        /\ UNCHANGED faults
     \/ /\ Fault
        /\ SetRefresh(r, k, [NoRefresh EXCEPT !.pc = "create"])
        /\ UNCHANGED override
  /\ UNCHANGED <<rows, ticks, jobVars, up, bookVars, made, simulatedFor, edits>>

\* getActivePayrollSchedules, after the overrides; an error ends the refresh.
ReadSchedules(r, k) ==
  /\ refresh[r][k].pc = "create" /\ Todo(r, k) = <<>>
  /\ \/ SetRefresh(r, k, [NoRefresh EXCEPT !.pc = "apply", !.list = rows]) /\ UNCHANGED faults
     \/ SetRefresh(r, k, NoRefresh) /\ Fault
  /\ UNCHANGED <<rows, ticks, jobVars, up, bookVars, overrideVars, edits>>

\* Mutation of Reconciled: jobs are added and removed, never rescheduled.
ReconciledByName(r, list) ==
  [s \in Schedules |->
     IF list[s] = NoJob THEN NoJob
     ELSE IF jobs[r][s] # NoJob THEN jobs[r][s]
     ELSE IF list[s] \in ValidCrons THEN list[s] ELSE NoJob]

\* Mutation of Reconciled: the cron expression is not validated.
ReconciledBlindly(r, list) == [s \in Schedules |-> list[s]]

\* unscheduleJob and scheduleJob over the rows that were read: a job whose row
\* is gone is stopped, one whose cron expression differs is replaced, and no job
\* runs on an invalid expression.
Reconciled(r, list) ==
  [s \in Schedules |-> IF list[s] \in ValidCrons THEN list[s] ELSE NoJob]

\* The loops of refreshJobs; nothing is awaited between them.  A job that is
\* stopped or replaced no longer fires for an earlier tick.
ApplySchedules(r, k) ==
  LET new == Reconciled(r, refresh[r][k].list) IN
  /\ refresh[r][k].pc = "apply"
  /\ jobs' = [jobs EXCEPT ![r] = new]
  /\ due' = [due EXCEPT ![r] =
       [s \in Schedules |-> IF new[s] = jobs[r][s] THEN due[r][s] ELSE 0]]
  /\ SetRefresh(r, k, NoRefresh)
  /\ UNCHANGED <<rows, ticks, run, up, bookVars, overrideVars, edits, faults>>

-----------------------------------------------------------------------------
\* stopScheduler: the timers and the jobs go, executions and refreshes in
\* flight go on.
Stop(r) ==
  /\ up[r]
  /\ Fault
  /\ up' = [up EXCEPT ![r] = FALSE]
  /\ jobs' = [jobs EXCEPT ![r] = [s \in Schedules |-> NoJob]]
  /\ due' = [due EXCEPT ![r] = [s \in Schedules |-> 0]]
  /\ UNCHANGED <<rows, ticks, run, refresh, bookVars, overrideVars, edits>>

\* The process ends, after stopScheduler or out of the blue, and a new one starts.
Restart(r) ==
  /\ \/ ~up[r] /\ UNCHANGED faults
     \/ up[r] /\ Fault
  /\ up' = [up EXCEPT ![r] = TRUE]
  /\ jobs' = [jobs EXCEPT ![r] = [s \in Schedules |-> NoJob]]
  /\ due' = [due EXCEPT ![r] = [s \in Schedules |-> 0]]
  /\ run' = [run EXCEPT ![r] = [s \in Schedules |-> NoRun]]
  /\ refresh' = [refresh EXCEPT ![r] = [k \in Slots |-> NoRefresh]]
  /\ UNCHANGED <<rows, ticks, bookVars, overrideVars, edits>>

RefreshStep(r, k) ==
  \/ Dequeue(r, k) \/ ExecuteOverride(r, k) \/ CompleteOverride(r, k)
  \/ FailOverride(r, k) \/ ReadSchedules(r, k) \/ ApplySchedules(r, k)

RunStep(r, s) ==
  Fire(r, s) \/ CreateStream(r, s) \/ UpdateSchedule(r, s) \/ LogRun(r, s)

Next ==
  \/ \E s \in Schedules, cron \in Crons \cup {NoJob} : EditSchedule(s, cron)
  \/ \E o \in Overrides : QueueOverride(o)
  \/ \E s \in Schedules : Tick(s)
  \/ \E r \in Replicas :
       \/ \E k \in Slots : RefreshStep(r, k)
       \/ \E s \in Schedules : RunStep(r, s)
       \/ Stop(r) \/ Restart(r)

Spec == Init /\ [][Next]_vars

\* Timers fire and calls return; a process that was stopped ends.
FairSpec ==
  /\ Spec
  /\ \A r \in Replicas :
       /\ \A k \in Slots : WF_vars(RefreshStep(r, k))
       /\ \A s \in Schedules : WF_vars(RunStep(r, s))
       /\ WF_vars(~up[r] /\ Restart(r))

-----------------------------------------------------------------------------
\* Payments of a tick that an execution has made and not yet logged.
InFlight(s, t) ==
  {r \in Replicas : run[r][s].tick = t /\ run[r][s].ok /\ run[r][s].pc \in {"update", "log"}}

\* Streams on record for a tick and for an override: created, or made up.
Streams(s, t) == paid[s][t] + simulated[s][t]
StreamsFor(o) == made[o] + simulatedFor[o]

\* scheduler_logs claims no payment that was not made, but for the stream ids that
\* a replica without the addresses has made up, which it logs as successes too
\* (scheduler.ts:153-156, 366-375); and every payment missing from it cost a
\* fault: a lost answer, a failed statement, a crash or a shutdown
\* (scheduler.ts:256-378).  Where every replica has the addresses, all that is
\* logged was paid.
RunsAccounted ==
  \A s \in Schedules, t \in Ticks :
    LET known == succeeded[s][t] + Cardinality(InFlight(s, t)) IN
    /\ known <= Streams(s, t) /\ Streams(s, t) <= known + faults
    /\ Unconfigured = {} => known <= paid[s][t]

\* Overlapping refreshes, several replicas, crashes: no override creates two
\* streams ("to prevent duplicate execution", queries.ts:1985) and a completed
\* one has created its stream, unless a replica without the addresses has made
\* up its id (scheduler.ts:153-156).
OverrideOnce ==
  \A o \in Overrides :
    /\ StreamsFor(o) <= 1
    /\ override[o] = "completed" => StreamsFor(o) = 1
    /\ override[o] \in {"none", "pending"} => StreamsFor(o) = 0
    /\ Unconfigured = {} => simulatedFor[o] = 0

\* README.md:146: once edits and faults are over, every replica's jobs agree
\* with the enabled schedules, whatever overlapping refreshes, failed reads and
\* restarts went before (scheduler.ts:446-477).
JobsReconciled ==
  \A r \in Replicas, s \in Schedules :
    <>[]( /\ up[r]
          /\ jobs[r][s] = IF rows[s] \in ValidCrons THEN rows[s] ELSE NoJob )

\* README.md:151: advisory locks "prevent duplicate processing across horizontal
\* replicas": a tick of a schedule creates one stream.
PaidOncePerTick == \A s \in Schedules, t \in Ticks : paid[s][t] <= 1

\* migrations/012_add_scheduler_overrides.sql:30: 'processing' is the status of an
\* override "being executed": some refresh still has it in its batch, unless a
\* fault (a crash, a markOverrideFailed that throws, scheduler.ts:695-711) has
\* stranded it.  Refreshes that merely overlap strand nothing.
StrandedByFault ==
  faults = 0 => \A o \in Overrides : override[o] = "processing" =>
    \E r \in Replicas, k \in Slots : \E n \in DOMAIN Todo(r, k) : Todo(r, k)[n] = o

-----------------------------------------------------------------------------
Ordered == INSTANCE OverridePromise
  WITH Orders <- Overrides, BatchLimit <- OverrideBatch,
       MayPretend <- Unconfigured # {},
       order <- override, payments <- made, pretences <- simulatedFor

\* scheduler_overrides keeps what OverridePromise says of an order: no refresh,
\* retry or restart takes one twice, reopens a closed one, or pays for one that is
\* not being executed, and one that is completed was paid, or pretended to be by
\* a replica without the addresses (queries.ts:1982-2043, scheduler.ts:153-156,
\* 634-711).
KeepsOrders == Ordered!OrderSpec
================================================================================
