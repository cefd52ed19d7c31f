---------------------------- MODULE ReportScheduler ----------------------------
(* Payroll reports (src/scheduler/reportScheduler.ts,                          *)
(* src/db/payrollReportSchedule.ts, src/routes/reports.ts).  Every process     *)
(* looks at midnight for schedules whose time, nine o'clock on a day, has      *)
(* passed, and sends each of them the report of the days since, with a few     *)
(* attempts.  Weeks have WeekDays days here, and the months of the calendar    *)
(* begin on the days of MonthStart.                                            *)
EXTENDS Integers, Sequences

CONSTANTS
  ReportReplicas,    \* processes
  Schedules,         \* schedules of an employer
  Frequency,         \* of a schedule: weekly, monthly or quarterly
  ReportDay,         \* day of the week or of the month of a schedule, from 0
  WeekDays,          \* days of a week
  MonthStart,        \* first day of a month, the months counted from 0
  LastDay,           \* bound on days
  LastMonth,         \* last month of the calendar, which outlasts the days
  MaxAttempts,       \* MAX_RETRIES
  MaxReportFaults    \* bound on failed mails and statements, crashes and idle nights

MonthDays(m) == MonthStart[m + 1] - MonthStart[m]
InMonth(d, m) == MonthStart[m] <= d /\ d < MonthStart[m + 1]
MonthOf(d) == CHOOSE m \in 0..LastMonth - 1 : InMonth(d, m)

\* Months follow one another, and every one has the day of every schedule: the
\* code takes a day of the month between 1 and 28.
ASSUME ReportAssumption ==
  /\ WeekDays \in Nat \ {0, 1} /\ MaxAttempts \in Nat \ {0}
  /\ Frequency \in [Schedules -> {"weekly", "monthly", "quarterly"}]
  /\ ReportDay \in [Schedules -> Nat]
  /\ ReportReplicas # {} /\ LastDay \in Nat /\ MaxReportFaults \in Nat
  /\ \A s \in Schedules : Frequency[s] = "weekly" => ReportDay[s] < WeekDays

ASSUME CalendarAssumption ==
  /\ LastMonth \in Nat /\ MonthStart \in [0..LastMonth -> Nat]
  /\ \A m, n \in 0..LastMonth : m < n => MonthStart[m] < MonthStart[n]
  /\ \A d \in 0..LastDay : \E m \in 0..LastMonth - 4 : InMonth(d, m)
  /\ \A s \in Schedules : Frequency[s] # "weekly" =>
       \A m \in 0..LastMonth - 1 : ReportDay[s] < MonthDays(m)

VARIABLES
  repDay,       \* the day whose midnight has passed
  repDue,       \* next_send_at, a day, at nine o'clock
  repOn,        \* schedules that exist and are enabled
  repRan,       \* the last night of a process's cron job
  repRun,       \* a process's run: step, schedule, those to go, attempts made
  repMailed,    \* history: a schedule's mails, by the last day they cover
  repRows,      \* generated_reports: rows of a schedule
  repMissed,    \* history: schedules whose report was late or whose row was changed
  repCrossed,   \* history: schedules that two runs had at once
  repFaults

repVars == <<repDay, repDue, repOn, repRan, repRun, repMailed, repRows, repMissed,
             repCrossed, repFaults>>

RunIdle == [pc |-> "idle"]
ReportRuns ==
  [pc : {"send", "record", "update"}, now : Schedules, todo : SUBSET Schedules,
   tries : 0..MaxAttempts, sent : BOOLEAN]

ReportTypeOK ==
  /\ repDay \in 0..LastDay /\ repDue \in [Schedules -> Nat]
  /\ repOn \subseteq Schedules /\ repRan \in [ReportReplicas -> 0..LastDay]
  /\ repRun \in [ReportReplicas -> ReportRuns \cup {RunIdle}]
  /\ repMailed \in [Schedules -> Seq(0..LastDay)]
  /\ repRows \in [Schedules -> Nat]
  /\ repMissed \subseteq Schedules /\ repCrossed \subseteq Schedules
  /\ repFaults \in 0..MaxReportFaults

Months(s) == IF Frequency[s] = "quarterly" THEN 3 ELSE 1

\* calculateNextSendDate: the next such day of the week after today; or the day
\* of the month that many months after the month of today.
NextSend(s, today) ==
  LET diff == (ReportDay[s] - (today % WeekDays) + WeekDays) % WeekDays IN
  IF Frequency[s] = "weekly" THEN today + (IF diff = 0 THEN WeekDays ELSE diff)
  ELSE MonthStart[MonthOf(today) + Months(s)] + ReportDay[s]

\* generateAndSendReport: the day on which the period of a report begins that
\* is sent on a day, setDate or setMonth; a day too many for the earlier month
\* is one of the next.
PeriodStart(s, d) ==
  IF Frequency[s] = "weekly" THEN d - WeekDays
  ELSE MonthStart[MonthOf(d) - Months(s)] + (d - MonthStart[MonthOf(d)])

ReportInit ==
  /\ repDay = 0 /\ repOn = Schedules
  /\ repDue = [s \in Schedules |-> NextSend(s, 0)]
  /\ repRan = [p \in ReportReplicas |-> 0]
  /\ repRun = [p \in ReportReplicas |-> RunIdle]
  /\ repMailed = [s \in Schedules |-> <<>>] /\ repRows = [s \in Schedules |-> 0]
  /\ repMissed = {} /\ repCrossed = {} /\ repFaults = 0

ReportFault == repFaults < MaxReportFaults /\ repFaults' = repFaults + 1

\* Nine o'clock of the day has passed when the next night comes.
Overdue(s) == s \in repOn /\ repDue[s] < repDay
ReportOf(p) == repRun[p].now
Batch(p) == {ReportOf(p)} \cup repRun[p].todo
AtWork(s) == {p \in ReportReplicas : repRun[p].pc # "idle" /\ s \in Batch(p)}

\* A run turns to one schedule of a batch.
RunOf(s, batch) ==
  [pc |-> "send", now |-> s, todo |-> batch \ {s}, tries |-> 0, sent |-> FALSE]

\* A night passes.  A run is over long before the next one.
NightPasses ==
  /\ repDay < LastDay
  /\ \A p \in ReportReplicas : repRun[p].pc = "idle" /\ repRan[p] = repDay
  /\ repDay' = repDay + 1
  /\ UNCHANGED <<repDue, repOn, repRan, repRun, repMailed, repRows, repMissed,
                 repCrossed, repFaults>>

\* getEnabledSchedulesDue; several that are due come in any order.
ReportRunStarts(p) ==
  /\ repRun[p].pc = "idle" /\ repRan[p] < repDay
  /\ repRan' = [repRan EXCEPT ![p] = repDay]
  /\ LET due == {s \in Schedules : Overdue(s)} IN
     /\ \/ due = {} /\ UNCHANGED repRun
        \/ \E s \in due : repRun' = [repRun EXCEPT ![p] = RunOf(s, due)]
     /\ repCrossed' = repCrossed \cup {s \in due : AtWork(s) # {}}
  /\ UNCHANGED <<repDay, repDue, repOn, repMailed, repRows, repMissed, repFaults>>

\* The process is down at midnight, or its query fails: no run.
NightMissed(p) ==
  /\ repRun[p].pc = "idle" /\ repRan[p] < repDay /\ ReportFault
  /\ repRan' = [repRan EXCEPT ![p] = repDay]
  /\ repMissed' = repMissed \cup {s \in Schedules : Overdue(s)}
  /\ UNCHANGED <<repDay, repDue, repOn, repRun, repMailed, repRows, repCrossed>>

\* generateAndSendReport: an attempt that SendGrid accepts.
Sent(rec) == [rec EXCEPT !.pc = "record", !.sent = TRUE]
ReportMailed(p) ==
  /\ repRun[p].pc = "send"
  /\ repMailed' = [repMailed EXCEPT ![ReportOf(p)] = Append(@, repDay)]
  /\ repRun' = [repRun EXCEPT ![p] = Sent(repRun[p])]
  /\ UNCHANGED <<repDay, repDue, repOn, repRan, repRows, repMissed, repCrossed, repFaults>>

\* An attempt fails; after the last one the report counts as not sent.
MailFails(p) ==
  /\ repRun[p].pc = "send" /\ ReportFault
  /\ \/ /\ repRun[p].tries + 1 < MaxAttempts
        /\ repRun' = [repRun EXCEPT ![p].tries = @ + 1]
        /\ UNCHANGED repMissed
     \/ /\ repRun[p].tries + 1 = MaxAttempts
        /\ repRun' = [repRun EXCEPT ![p].pc = "record"]
        /\ repMissed' = repMissed \cup {ReportOf(p)}
  /\ UNCHANGED <<repDay, repDue, repOn, repRan, repMailed, repRows, repCrossed>>

\* On to the next schedule of the run.
NextReport(p) ==
  \/ repRun[p].todo = {} /\ repRun' = [repRun EXCEPT ![p] = RunIdle]
  \/ \E s \in repRun[p].todo : repRun' = [repRun EXCEPT ![p] = RunOf(s, repRun[p].todo)]

\* recordGeneratedReport, which logs its own errors and goes on.
ReportRecorded(p) ==
  /\ repRun[p].pc = "record"
  /\ \/ repRows' = [repRows EXCEPT ![ReportOf(p)] = @ + 1] /\ UNCHANGED repFaults
     \/ ReportFault /\ UNCHANGED repRows
  /\ IF repRun[p].sent
     THEN repRun' = [repRun EXCEPT ![p].pc = "update"] ELSE NextReport(p)
  /\ UNCHANGED <<repDay, repDue, repOn, repRan, repMailed, repMissed, repCrossed>>

\* Mutation of ReportUpdated: only last_sent_at is set.
ReportUpdatedLast(p) ==
  /\ repRun[p].pc = "update"
  /\ NextReport(p)
  /\ UNCHANGED <<repDay, repDue, repOn, repRan, repMailed, repRows, repMissed, repCrossed,
                 repFaults>>

\* updateReportScheduleLastSent, counted from today.
ReportUpdated(p) ==
  /\ repRun[p].pc = "update"
  /\ repDue' = [repDue EXCEPT ![ReportOf(p)] = NextSend(ReportOf(p), repDay)]
  /\ NextReport(p)
  /\ UNCHANGED <<repDay, repOn, repRan, repMailed, repRows, repMissed, repCrossed, repFaults>>

\* Something throws, and the next schedule follows; or the process dies, and
\* those to go wait for another night.
ReportFails(p) ==
  /\ repRun[p].pc # "idle" /\ ReportFault
  /\ \/ NextReport(p) /\ repMissed' = repMissed \cup {ReportOf(p)}
     \/ /\ repRun' = [repRun EXCEPT ![p] = RunIdle]
        /\ repMissed' = repMissed \cup Batch(p)
  /\ UNCHANGED <<repDay, repDue, repOn, repRan, repMailed, repRows, repCrossed>>

\* PUT /schedule/:id counts the next time from today; so does a schedule that
\* is deleted, or switched off, and comes back.  What else it may change, the
\* frequency and the day, stays as it is here.
ScheduleChanged(s) ==
  /\ ReportFault
  /\ repMissed' = repMissed \cup {s}
  /\ \/ repDue' = [repDue EXCEPT ![s] = NextSend(s, repDay)] /\ repOn' = repOn \cup {s}
     \/ repOn' = repOn \ {s} /\ UNCHANGED repDue
  /\ UNCHANGED <<repDay, repRan, repRun, repMailed, repRows, repCrossed>>

ReportStep(p) ==
  ReportRunStarts(p) \/ ReportMailed(p) \/ ReportRecorded(p) \/ ReportUpdated(p)

ReportNext ==
  \/ NightPasses
  \/ \E p \in ReportReplicas :
       ReportStep(p) \/ NightMissed(p) \/ MailFails(p) \/ ReportFails(p)
  \/ \E s \in Schedules : ScheduleChanged(s)

ReportFairness == WF_repVars(NightPasses) /\ \A p \in ReportReplicas : WF_repVars(ReportStep(p))
ReportSpec == ReportInit /\ [][ReportNext]_repVars /\ ReportFairness

-----------------------------------------------------------------------------
\* The night after the schedule's day is in the same month, whatever the month.
\* calculateNextSendDate counts from the day of sending, so a schedule on the
\* 28th whose report goes out on the night to the 1st of March is due again on
\* the 28th of April, and the days between are in no report.
NightInMonth(s) ==
  Frequency[s] # "weekly" => \A m \in 0..LastMonth - 1 : ReportDay[s] + 1 < MonthDays(m)

\* Every day is in exactly one report of a schedule: the period that a report
\* covers begins where the last one ended, the day that was sent, unless the
\* schedule is on the last day of a month, a report was late or refused, its
\* schedule changed, or two processes sent it at once (reportScheduler.ts:36-62,
\* 177-251, payrollReportSchedule.ts:58-105).
ReportsTile ==
  \A s \in Schedules \ (repMissed \cup repCrossed) : NightInMonth(s) =>
    \A i \in 1..Len(repMailed[s]) - 1 :
      PeriodStart(s, repMailed[s][i + 1]) = repMailed[s][i]

\* A report that is due is sent in the end: what one night fails at, another
\* night repeats, unless the schedule goes first (reportScheduler.ts:216-246).
ReportSent ==
  \A s \in Schedules :
    (Overdue(s) /\ repDay + MaxReportFaults < LastDay) ~> ~Overdue(s)
=============================================================================
