---------------------------- MODULE TreasuryMonitor ----------------------------
(* The treasury monitor (src/monitor/monitor.ts): every process runs a cycle   *)
(* every five minutes, and GET /monitor/status runs one by hand.  A cycle      *)
(* reads all balances, then the streams of one employer after the other, and   *)
(* then alerts and logs each of them (src/notifier/notifier.ts).  The advisory *)
(* lock around it can be lost or shared (module AdvisoryLock), so that cycles  *)
(* may overlap.  Balances and burn rates are small numbers, and a runway is    *)
(* low when the balance is below the burn rate.                                *)
EXTENDS Integers, FiniteSets

CONSTANTS
  MonCycles,       \* cycles that may be under way at once, of all processes
  MonEmployers,
  FirstAmount,     \* every employer's balance and burn rate at the start
  MaxAmount,       \* bound on balances and burn rates
  MaxMonChanges,   \* bound on changes of the tables
  MaxMonFaults     \* bound on failed statements and crashes

ASSUME MonAssumption ==
  /\ MaxAmount \in Nat /\ FirstAmount \in 0..MaxAmount
  /\ MaxMonChanges \in Nat /\ MaxMonFaults \in Nat

VARIABLES
  monBalance,      \* treasury_balances
  monBurn,         \* the daily burn of an employer's active streams
  monRun,          \* a cycle: step, employers to go, the one it is at, and what it has read
  monTrue,         \* history: balance and burn of each moment since a cycle's read
  monChanged,      \* history: tables changed between the two reads
  monRows,         \* treasury_monitor_log: rows of an employer
  monChanges, monFaults

monVars == <<monBalance, monBurn, monRun, monTrue, monChanged, monRows, monChanges, monFaults>>
monTables == <<monBalance, monBurn>>
monHistory == <<monTrue, monChanged>>

MonAmounts == 0..MaxAmount
NotRead == MaxAmount + 1
NothingRead == [e \in MonEmployers |-> NotRead]
IdleMonitor == [pc |-> "idle", todo |-> {}, at |-> {}, balance |-> NothingRead,
              burn |-> NothingRead, alert_sent |-> FALSE]

MonTypeOK ==
  /\ monBalance \in [MonEmployers -> MonAmounts] /\ monBurn \in [MonEmployers -> MonAmounts]
  /\ monRun \in [MonCycles ->
       [pc : {"idle", "read", "streams", "alert", "persist"}, todo : SUBSET MonEmployers,
        at : SUBSET MonEmployers, balance : [MonEmployers -> MonAmounts \cup {NotRead}],
        burn : [MonEmployers -> MonAmounts \cup {NotRead}], alert_sent : BOOLEAN]]
  /\ monTrue \in [MonCycles -> [MonEmployers -> SUBSET (MonAmounts \X MonAmounts)]]
  /\ monChanged \in [MonCycles -> [MonEmployers -> SUBSET {"balance", "burn"}]]
  /\ monRows \in [MonEmployers -> SUBSET [low : BOOLEAN, alert_sent : BOOLEAN]]
  /\ monChanges \in 0..MaxMonChanges /\ monFaults \in 0..MaxMonFaults

MonInit ==
  /\ monBalance = [e \in MonEmployers |-> FirstAmount] /\ monBurn = monBalance
  /\ monRun = [c \in MonCycles |-> IdleMonitor]
  /\ monTrue = [c \in MonCycles |-> [e \in MonEmployers |-> {}]]
  /\ monChanged = [c \in MonCycles |-> [e \in MonEmployers |-> {}]]
  /\ monRows = [e \in MonEmployers |-> {}]
  /\ monChanges = 0 /\ monFaults = 0

MonFault == monFaults < MaxMonFaults /\ monFaults' = monFaults + 1

\* A cycle ends, and with it what it has read.
MonitorOver(c) ==
  /\ monRun' = [monRun EXCEPT ![c] = IdleMonitor]
  /\ monTrue' = [monTrue EXCEPT ![c] = [e \in MonEmployers |-> {}]]
  /\ monChanged' = [monChanged EXCEPT ![c] = [e \in MonEmployers |-> {}]]

-----------------------------------------------------------------------------
\* The tables that a change of an employer's rows is about.
Tables(e, balance, burn) ==
  {t \in {"balance", "burn"} :
     IF t = "balance" THEN balance # monBalance[e] ELSE burn # monBurn[e]}

\* One transaction: a deposit changes the balance, the end of a stream the burn,
\* and upsertStream and softDeleteStream may change both at once.
TableChanges(e, balance, burn) ==
  /\ monChanges < MaxMonChanges /\ monChanges' = monChanges + 1
  /\ Tables(e, balance, burn) # {}
  /\ monBalance' = [monBalance EXCEPT ![e] = balance]
  /\ monBurn' = [monBurn EXCEPT ![e] = burn]
  /\ monTrue' = [c \in MonCycles |-> [monTrue[c] EXCEPT ![e] =
       IF monRun[c].pc \in {"idle", "read"} THEN @
       ELSE @ \cup {<<monBalance'[e], monBurn'[e]>>}]]
  /\ monChanged' = [c \in MonCycles |-> [monChanged[c] EXCEPT ![e] =
       IF monRun[c].pc = "streams" /\ e \in monRun[c].todo
       THEN @ \cup Tables(e, balance, burn) ELSE @]]
  /\ UNCHANGED <<monRun, monRows, monFaults>>

-----------------------------------------------------------------------------
(* A cycle. *)

\* tick or GET /monitor/status, let in by withAdvisoryLock.
MonitorRuns(c) ==
  /\ monRun[c].pc = "idle" /\ monRun' = [monRun EXCEPT ![c].pc = "read"]
  /\ UNCHANGED <<monTables, monHistory, monRows, monChanges, monFaults>>

\* computeTreasuryStatus: the balances of all employers, before any streams.
BalancesRead(c) ==
  /\ monRun[c].pc = "read"
  /\ monRun' = [monRun EXCEPT ![c] =
       [@ EXCEPT !.pc = "streams", !.todo = MonEmployers, !.balance = monBalance]]
  /\ monTrue' = [monTrue EXCEPT ![c] = [e \in MonEmployers |-> {<<monBalance[e], monBurn[e]>>}]]
  /\ UNCHANGED <<monTables, monChanged, monRows, monChanges, monFaults>>

\* getStreamsByEmployer and the burn rate, one employer after the other.
StreamsRead(c, e) ==
  /\ monRun[c].pc = "streams" /\ e \in monRun[c].todo
  /\ LET todo == monRun[c].todo \ {e} IN
     monRun' = [monRun EXCEPT ![c] =
       [@ EXCEPT !.burn[e] = monBurn[e],
                 !.todo = IF todo = {} THEN MonEmployers ELSE todo,
                 !.pc = IF todo = {} THEN "alert" ELSE "streams"]]
  /\ UNCHANGED <<monTables, monHistory, monRows, monChanges, monFaults>>

\* No runway without burn.
IsLow(c, e) == monRun[c].burn[e] > 0 /\ monRun[c].balance[e] < monRun[c].burn[e]

\* Mutation of EmployerAlerted: the burn rate is computed again for the alert.
EmployerAlertedAfresh(c, e) ==
  /\ monRun[c].pc = "alert" /\ e \in monRun[c].todo
  /\ monRun' = [monRun EXCEPT ![c] =
       [@ EXCEPT !.pc = "persist", !.at = {e}, !.alert_sent = IsLow(c, e), !.burn[e] = monBurn[e]]]
  /\ UNCHANGED <<monTables, monHistory, monRows, monChanges, monFaults>>

\* sendTreasuryAlert goes to every channel by itself, and whatever they answer
\* the alert counts as sent.
EmployerAlerted(c, e) ==
  /\ monRun[c].pc = "alert" /\ e \in monRun[c].todo
  /\ monRun' = [monRun EXCEPT ![c] =
       [@ EXCEPT !.pc = "persist", !.at = {e}, !.alert_sent = IsLow(c, e)]]
  /\ UNCHANGED <<monTables, monHistory, monRows, monChanges, monFaults>>

\* logMonitorEvent: a row of treasury_monitor_log, or an error that is only
\* logged; then the next employer, in whatever order the balances came.
EmployerLogged(c, e) ==
  /\ monRun[c].pc = "persist" /\ monRun[c].at = {e}
  /\ \/ /\ monRows' = [monRows EXCEPT ![e] = @ \cup
             {[low |-> IsLow(c, e), alert_sent |-> monRun[c].alert_sent]}]
        /\ UNCHANGED monFaults
     \/ MonFault /\ UNCHANGED monRows
  /\ IF monRun[c].todo = {e} THEN MonitorOver(c)
     ELSE /\ monRun' = [monRun EXCEPT ![c] =
               [@ EXCEPT !.pc = "alert", !.todo = monRun[c].todo \ {e}, !.at = {},
                         !.alert_sent = FALSE]]
          /\ UNCHANGED monHistory
  /\ UNCHANGED <<monTables, monChanges>>

\* A statement of the reads fails, or the process dies: no more rows.
MonitorFails(c) ==
  /\ monRun[c].pc # "idle" /\ MonFault /\ MonitorOver(c)
  /\ UNCHANGED <<monTables, monRows, monChanges>>

MonNext ==
  \/ \E e \in MonEmployers, balance, burn \in MonAmounts : TableChanges(e, balance, burn)
  \/ \E c \in MonCycles :
       \/ MonitorRuns(c) \/ BalancesRead(c) \/ MonitorFails(c)
       \/ \E e \in MonEmployers :
            StreamsRead(c, e) \/ EmployerAlerted(c, e) \/ EmployerLogged(c, e)

MonSpec == MonInit /\ [][MonNext]_monVars

-----------------------------------------------------------------------------
\* The balance and the burn an employer is alerted and logged with were both
\* true at one moment of the cycle, unless both tables changed between the two
\* reads: one new stream, which takes its total from the balance and adds to the
\* burn in one transaction, and likewise one cancellation, can raise an alert about
\* a treasury that never was, and the exception takes in every such change
\* (monitor.ts:132-190, queries.ts:216-287 and 1221-1300).
RunwayOfAMoment ==
  \A c \in MonCycles, e \in MonEmployers :
    monRun[c].pc \in {"alert", "persist"} =>
      \/ <<monRun[c].balance[e], monRun[c].burn[e]>> \in monTrue[c][e]
      \/ monChanged[c][e] = {"balance", "burn"}
=============================================================================
