------------------------------ MODULE MCSettling -------------------------------
(* What must happen in the end, for the services that promise it: as in module *)
(* MCServices a behaviour runs one of them, here under the fairness its code   *)
(* justifies.                                                                  *)
EXTENDS NonceManager, CrossChain, KeyRotation, Migrations, ReportScheduler, TLC

CONSTANTS
  k1, k2, s1,
  \* of WebhookDelivery
  Events, Callers, Batches, MaxShared, MaxRetries, BatchSize, MaxByHand, MaxFaults, NoEvent,
  \* of PayrollScheduler
  Replicas, Overrides, Crons, ValidCrons, NoJob, Unconfigured, Slots, OverrideBatch, MaxTicks,
  MaxEdits

VARIABLES
  part,    \* the one that runs
  subscribed, known, outbound, attempts, acked, dlq, audits, posts, caller, worker,
  shared, byHand, viaReplay,
  rows, ticks, jobs, due, run, refresh, up, paid, simulated, succeeded, override, made,
  simulatedFor, edits,
  faults   \* of the one of these two that runs

W == INSTANCE WebhookDelivery
P == INSTANCE PayrollScheduler

webhookVars == <<subscribed, known, outbound, attempts, acked, dlq, audits, posts, caller,
                 worker, shared, byHand, viaReplay>>
payrollVars == <<rows, ticks, jobs, due, run, refresh, up, paid, simulated, succeeded,
                 override, made, simulatedFor, edits>>
settlingVars == <<part, nonceVars, cctVars, keyVars, migVars, repVars, webhookVars,
                  payrollVars, faults>>

MCVaultOrder == <<k1, k2>>
MCReportDay == s1 :> 1
MCFrequency == s1 :> "weekly"
MCMonthStart == [m \in 0..LastMonth |-> (5 * m) \div 2]

\* The other parts than p stand still.
Others(p) ==
  /\ part = p /\ part' = part
  /\ IF p = "nonce" THEN TRUE ELSE UNCHANGED nonceVars
  /\ IF p = "cct" THEN TRUE ELSE UNCHANGED cctVars
  /\ IF p = "key" THEN TRUE ELSE UNCHANGED keyVars
  /\ IF p = "migrations" THEN TRUE ELSE UNCHANGED migVars
  /\ IF p = "report" THEN TRUE ELSE UNCHANGED repVars
  /\ IF p = "webhook" THEN TRUE ELSE UNCHANGED webhookVars
  /\ IF p = "payroll" THEN TRUE ELSE UNCHANGED payrollVars
  /\ IF p \in {"webhook", "payroll"} THEN TRUE ELSE UNCHANGED faults

SettlingInit ==
  /\ part \in {"nonce", "cct", "key", "migrations", "report", "webhook", "payroll"}
  /\ NonceInit /\ CctInit /\ KeyInit /\ MigInit /\ ReportInit /\ W!Init /\ P!Init
  /\ part # "cct" => cctColumn = "text"
  /\ part # "migrations" => migApplied = {} /\ ~migProduction
  /\ part # "payroll" => rows = [s \in Schedules |-> NoJob]

SettlingNext ==
  \/ Others("nonce") /\ NonceNext
  \/ Others("cct") /\ CctNext
  \/ Others("key") /\ KeyNext
  \/ Others("migrations") /\ MigNext
  \/ Others("report") /\ ReportNext
  \/ Others("webhook") /\ W!Next
  \/ Others("payroll") /\ P!Next

\* The steps that calls which answer or time out, timers and cron go on making.
Progress ==
  \/ Others("nonce") /\ NonceJob
  \/ \E p \in CctReplicas : Others("cct") /\ (PollStep(p) \/ IndexStep(p))
  \/ \E p \in KeyReplicas : Others("key") /\ (RotatorStep(p) \/ BootFromVault(p))
  \/ \E p \in MigReplicas : Others("migrations") /\ MigStep(p)
  \/ Others("report") /\ (NightPasses \/ \E p \in ReportReplicas : ReportStep(p))
  \/ Others("webhook") /\ ((\E b \in Batches : W!WorkerStep(b)) \/ \E c \in Callers : W!CallerStep(c))
  \/ \E r \in Replicas : Others("payroll") /\
       \/ \E k \in Slots : P!RefreshStep(r, k)
       \/ \E s \in Schedules : P!RunStep(r, s)
       \/ ~up[r] /\ P!Restart(r)

\* One of them is taken as long as there is one, which is less than the fairness
\* the modules state for each task by itself, and enough.
SettlingSpec ==
  SettlingInit /\ [][SettlingNext]_settlingVars /\ WF_settlingVars(Progress)

\* The bound of this instance: batches of the retry worker overlap, or somebody
\* retries, replays or discards by hand, not both.
OverlapsApart ==
  \/ \A i \in W!Items : shared[i] = 0 /\ \E b \in Batches : worker[b].pc = "idle"
  \/ byHand = 0

-----------------------------------------------------------------------------
\* Every item leaves the dead-letter queue: delivered, or given up after its
\* retries.
ItemsSettle == W!ItemsSettle

\* The jobs end up in agreement with payroll_schedules.
JobsReconciled == part = "payroll" => P!JobsReconciled

\* Every request for a number is answered, a secret whose period is over is
\* rotated, a report that is due is sent, and every start of a process ends.
ServicesSettle ==
  /\ part = "nonce" => NonceAnswered
  /\ part = "key" => KeyRotated
  /\ part = "report" => ReportSent
  /\ part = "migrations" => InitEnds
=============================================================================
