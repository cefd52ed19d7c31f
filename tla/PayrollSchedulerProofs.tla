------------------------ MODULE PayrollSchedulerProofs ------------------------
(* For any replicas, schedules, overrides and overlapping refreshes: the       *)
(* scheduler keeps its types, executes no override twice, accounts for every   *)
(* payment, made or simulated, up to the number of faults, and strands no      *)
(* override without one.                                                       *)
EXTENDS PayrollScheduler, SequenceLemmas

\* The places where an override may be waiting: the n-th of the batch of a
\* refresh of r in slot k.
Holds(r, k, n, o) == n \in DOMAIN Todo(r, k) /\ Todo(r, k)[n] = o

\* What makes OverrideOnce inductive.  An override a refresh has taken is in
\* 'processing', in one place of one batch, and has not been executed, unless it
\* is the first of its batch and has just been.
ClaimedOnce ==
  \A r, q \in Replicas, k, j \in Slots, m, n \in Nat, o \in Overrides :
    Holds(r, k, m, o) /\ Holds(q, j, n, o) => r = q /\ k = j /\ m = n

Claimed(r, k) ==
  /\ refresh[r][k].pc \in {"complete", "fail"} => Todo(r, k) # <<>>
  /\ \A n \in Nat, o \in Overrides : Holds(r, k, n, o) =>
       /\ override[o] = "processing"
       /\ n > 1 \/ refresh[r][k].pc \notin {"complete", "fail"} => StreamsFor(o) = 0
       /\ n = 1 /\ refresh[r][k].pc = "complete" => StreamsFor(o) = 1

OverrideInv ==
  /\ OverrideOnce
  /\ ClaimedOnce
  /\ \A r \in Replicas, k \in Slots : Claimed(r, k)

IInv == TypeOK /\ OverrideInv

-----------------------------------------------------------------------------
\* A refresh writes its own record and no other.
LEMMA SetRefreshEffect ==
  ASSUME TypeOK, NEW r \in Replicas, NEW k \in Slots, NEW rec \in Refreshes,
         SetRefresh(r, k, rec)
  PROVE  /\ refresh' \in [Replicas -> [Slots -> Refreshes]]
         /\ refresh'[r][k] = rec
         /\ \A q \in Replicas, j \in Slots :
              q # r \/ j # k => refresh'[q][j] = refresh[q][j]
BY DEF TypeOK, SetRefresh

\* So does an execution.
LEMMA SetRunEffect ==
  ASSUME TypeOK, NEW r \in Replicas, NEW s \in Schedules, NEW rec \in Runs,
         SetRun(r, s, rec)
  PROVE  /\ run' \in [Replicas -> [Schedules -> Runs]]
         /\ run'[r][s] = rec
         /\ \A q \in Replicas, z \in Schedules :
              q # r \/ z # s => run'[q][z] = run[q][z]
BY DEF TypeOK, SetRun

\* The records that stand for nothing in progress.
LEMMA IdleRecords == NoRun \in Runs /\ NoRefresh \in Refreshes
<1>1. <<>> \in Seq(Overrides)
  BY EmptySeq
<1> QED
  BY <1>1, BoundsAssumption DEF NoRun, NoRefresh, Runs, Refreshes

\* One more entry in a book of payments, for a tick or for none.
LEMMA BookEntry ==
  ASSUME NEW b \in [Schedules -> [Ticks -> Nat]], NEW s \in Schedules,
         NEW t \in 0..MaxTicks, NEW d \in Nat
  PROVE  /\ [b EXCEPT ![s][t] = @ + d] \in [Schedules -> [Ticks -> Nat]]
         /\ \A z \in Schedules, u \in Ticks :
              [b EXCEPT ![s][t] = @ + d][z][u] =
                IF z = s /\ u = t THEN b[z][u] + d ELSE b[z][u]
<1> DEFINE c == [b EXCEPT ![s][t] = @ + d]
<1>1. \A z \in Schedules : z # s => c[z] = b[z]
  OBVIOUS
<1>2. c[s] = [b[s] EXCEPT ![t] = @ + d]
  OBVIOUS
<1>3. b[s] \in [Ticks -> Nat]
  OBVIOUS
<1>4. \A u \in Ticks : c[s][u] = IF u = t THEN b[s][u] + d ELSE b[s][u]
  BY <1>2, <1>3
<1>5. c[s] \in [Ticks -> Nat]
  <2>1. CASE t \in Ticks
    BY <1>2, <1>3, <2>1
  <2>2. CASE t \notin Ticks
    <3>1. c[s] = b[s]
      BY <1>2, <1>3, <2>2
    <3> QED
      BY <1>3, <3>1
  <2> QED
    BY <2>1, <2>2
<1> QED
  BY <1>1, <1>4, <1>5

\* The records an execution passes through.
LEMMA RunRecords ==
  ASSUME NEW a \in Runs
  PROVE  /\ [a EXCEPT !.pc = "update", !.ok = TRUE] \in Runs
         /\ [a EXCEPT !.pc = "log"] \in Runs
         /\ [a EXCEPT !.pc = "log", !.ok = FALSE] \in Runs
BY DEF Runs

\* The records a refresh passes through.
LEMMA RefreshRecords ==
  ASSUME NEW a \in Refreshes
  PROVE  /\ \A p \in {"complete", "fail"} : [a EXCEPT !.pc = p] \in Refreshes
         /\ a.todo # <<>> =>
              [a EXCEPT !.pc = "create", !.todo = Tail(@)] \in Refreshes
         /\ [NoRefresh EXCEPT !.pc = "create"] \in Refreshes
<1>1. a.todo # <<>> => Tail(a.todo) \in Seq(Overrides)
  BY RestOfBatch DEF Refreshes
<1> QED
  BY <1>1, IdleRecords DEF Refreshes

-----------------------------------------------------------------------------
(* Type correctness. *)

\* The initial state is well typed.
LEMMA TypeInit == Init => TypeOK
BY IdleRecords, BoundsAssumption DEF Init, TypeOK, Ticks

\* The actions on schedules, ticks and executions.
LEMMA TypeRunStep ==
  ASSUME TypeOK, NEW r \in Replicas, NEW s \in Schedules, RunStep(r, s)
  PROVE  TypeOK'
<1>1. CASE Fire(r, s)
  <2>1. due' \in [Replicas -> [Schedules -> 0..MaxTicks]]
    BY <1>1, BoundsAssumption DEF TypeOK, Fire
  <2>2. run' \in [Replicas -> [Schedules -> Runs]]
    <3>1. [pc |-> "create", tick |-> due[r][s], ok |-> FALSE] \in Runs
      BY DEF TypeOK, Runs
    <3> QED
      BY <1>1, <3>1, SetRunEffect DEF Fire, TypeOK
  <2> QED
    BY <1>1, <2>1, <2>2 DEF TypeOK, Fire, bookVars, overrideVars
<1>2. CASE CreateStream(r, s)
  <2>1. run' \in [Replicas -> [Schedules -> Runs]]
    <3>1. run[r][s] \in Runs
      BY DEF TypeOK
    <3> QED
      BY <1>2, <3>1, RunRecords, SetRunEffect DEF CreateStream
  <2>2. run[r][s].tick \in 0..MaxTicks
    BY DEF TypeOK, Runs
  <2>3. /\ paid' \in [Schedules -> [Ticks -> Nat]]
        /\ simulated' \in [Schedules -> [Ticks -> Nat]]
    <3>1. [paid EXCEPT ![s][run[r][s].tick] = @ + 1] \in [Schedules -> [Ticks -> Nat]]
      BY <2>2, BookEntry DEF TypeOK
    <3>2. [simulated EXCEPT ![s][run[r][s].tick] = @ + 1] \in [Schedules -> [Ticks -> Nat]]
      BY <2>2, BookEntry DEF TypeOK
    <3> QED
      BY <1>2, <3>1, <3>2 DEF TypeOK, CreateStream
  <2>4. faults' \in 0..MaxFaults
    BY <1>2, BoundsAssumption DEF TypeOK, CreateStream, Fault
  <2> QED
    BY <1>2, <2>1, <2>3, <2>4 DEF TypeOK, CreateStream, overrideVars
<1>3. CASE UpdateSchedule(r, s)
  <2>1. run' \in [Replicas -> [Schedules -> Runs]]
    <3>1. run[r][s] \in Runs
      BY DEF TypeOK
    <3> QED
      BY <1>3, <3>1, RunRecords, SetRunEffect DEF UpdateSchedule
  <2>2. faults' \in 0..MaxFaults
    BY <1>3, BoundsAssumption DEF TypeOK, UpdateSchedule, Fault
  <2> QED
    BY <1>3, <2>1, <2>2 DEF TypeOK, UpdateSchedule, bookVars, overrideVars
<1>4. CASE LogRun(r, s)
  <2>1. run' \in [Replicas -> [Schedules -> Runs]]
    BY <1>4, IdleRecords, SetRunEffect DEF LogRun
  <2>2. run[r][s].tick \in 0..MaxTicks
    BY DEF TypeOK, Runs
  <2>3. succeeded' \in [Schedules -> [Ticks -> Nat]]
    <3> DEFINE d == IF run[r][s].ok THEN 1 ELSE 0
    <3>1. [succeeded EXCEPT ![s][run[r][s].tick] = @ + d] \in [Schedules -> [Ticks -> Nat]]
      <4>1. d \in Nat
        OBVIOUS
      <4> HIDE DEF d
      <4> QED
        BY <2>2, <4>1, BookEntry DEF TypeOK
    <3> QED
      BY <1>4, <3>1 DEF TypeOK, LogRun
  <2>4. faults' \in 0..MaxFaults
    BY <1>4, BoundsAssumption DEF TypeOK, LogRun, Fault
  <2> QED
    BY <1>4, <2>1, <2>3, <2>4 DEF TypeOK, LogRun, overrideVars
<1> QED
  BY <1>1, <1>2, <1>3, <1>4 DEF RunStep

\* The actions of a refresh.
LEMMA TypeRefreshStep ==
  ASSUME TypeOK, NEW r \in Replicas, NEW k \in Slots, RefreshStep(r, k),
         refresh[r][k].pc \in {"complete", "fail"} => Todo(r, k) # <<>>
  PROVE  TypeOK'
<1>0. /\ refresh[r][k] \in Refreshes
      /\ Todo(r, k) \in Seq(Overrides)
  BY DEF TypeOK, Refreshes, Todo
<1>1. CASE Dequeue(r, k)
  <2>1. PICK batch \in SUBSET {o \in Overrides : override[o] = "pending"} :
          /\ override' = [o \in Overrides |->
                            IF o \in batch THEN "processing" ELSE override[o]]
          /\ SetRefresh(r, k, [NoRefresh EXCEPT !.pc = "create", !.todo = SetToSeq(batch)])
    BY <1>1 DEF Dequeue
  <2>2. IsFiniteSet(batch)
    BY FiniteAssumption, FS_Subset
  <2>3. SetToSeq(batch) \in Seq(Overrides)
    BY <2>2, SetToSeqIsListing, SeqMonotonic
  <2>4. [NoRefresh EXCEPT !.pc = "create", !.todo = SetToSeq(batch)] \in Refreshes
    BY <2>3 DEF NoRefresh, Refreshes
  <2>5. refresh' \in [Replicas -> [Slots -> Refreshes]]
    BY <2>1, <2>4, SetRefreshEffect
  <2>6. override' \in [Overrides -> {"none", "pending", "processing", "completed", "failed"}]
    BY <2>1 DEF TypeOK
  <2> QED
    BY <1>1, <2>5, <2>6 DEF TypeOK, Dequeue, jobVars, bookVars
<1>2. CASE ExecuteOverride(r, k)
  <2>1. refresh' \in [Replicas -> [Slots -> Refreshes]]
    BY <1>0, <1>2, RefreshRecords, SetRefreshEffect DEF ExecuteOverride
  <2>2. /\ made' \in [Overrides -> Nat] /\ simulatedFor' \in [Overrides -> Nat]
        /\ faults' \in 0..MaxFaults
    <3>1. made' \in [Overrides -> Nat]
      <4>1. PICK h : made' = made \/ made' = [made EXCEPT ![h] = made[h] + 1]
        BY <1>2 DEF ExecuteOverride
      <4>2. made \in [Overrides -> Nat]
        BY DEF TypeOK
      <4> QED
        BY <4>1, <4>2
    <3>2. simulatedFor' \in [Overrides -> Nat]
      <4>1. PICK h : simulatedFor' = simulatedFor \/ simulatedFor' = [simulatedFor EXCEPT ![h] = simulatedFor[h] + 1]
        BY <1>2 DEF ExecuteOverride
      <4>2. simulatedFor \in [Overrides -> Nat]
        BY DEF TypeOK
      <4> QED
        BY <4>1, <4>2
    <3>3. faults' \in 0..MaxFaults
      BY <1>2, BoundsAssumption DEF TypeOK, ExecuteOverride, Fault
    <3> QED
      BY <3>1, <3>2, <3>3
  <2> QED
    BY <1>2, <2>1, <2>2 DEF TypeOK, ExecuteOverride, jobVars, bookVars
<1>3. CASE CompleteOverride(r, k)
  <2>1. refresh' \in [Replicas -> [Slots -> Refreshes]]
    BY <1>0, <1>3, RefreshRecords, SetRefreshEffect DEF CompleteOverride, OverrideDone, Todo
  <2>2. override' \in [Overrides -> {"none", "pending", "processing", "completed", "failed"}]
    BY <1>3 DEF TypeOK, CompleteOverride
  <2>3. faults' \in 0..MaxFaults
    BY <1>3, BoundsAssumption DEF TypeOK, CompleteOverride, Fault
  <2> QED
    BY <1>3, <2>1, <2>2, <2>3 DEF TypeOK, CompleteOverride, jobVars, bookVars
<1>4. CASE FailOverride(r, k)
  <2>1. refresh' \in [Replicas -> [Slots -> Refreshes]]
    BY <1>0, <1>4, RefreshRecords, SetRefreshEffect DEF FailOverride, OverrideDone, Todo
  <2>2. override' \in [Overrides -> {"none", "pending", "processing", "completed", "failed"}]
    BY <1>4 DEF TypeOK, FailOverride
  <2>3. faults' \in 0..MaxFaults
    BY <1>4, BoundsAssumption DEF TypeOK, FailOverride, Fault
  <2> QED
    BY <1>4, <2>1, <2>2, <2>3 DEF TypeOK, FailOverride, jobVars, bookVars
<1>5. CASE ReadSchedules(r, k)
  <2>1. refresh' \in [Replicas -> [Slots -> Refreshes]]
    <3>1. rows \in [Schedules -> Crons \cup {NoJob}]
      BY DEF TypeOK
    <3>2. [NoRefresh EXCEPT !.pc = "apply", !.list = rows] \in Refreshes
      BY <3>1, IdleRecords DEF Refreshes
    <3> QED
      BY <1>5, <3>2, IdleRecords, SetRefreshEffect DEF ReadSchedules
  <2>2. faults' \in 0..MaxFaults
    BY <1>5, BoundsAssumption DEF TypeOK, ReadSchedules, Fault
  <2> QED
    BY <1>5, <2>1, <2>2 DEF TypeOK, ReadSchedules, jobVars, bookVars, overrideVars
<1>6. CASE ApplySchedules(r, k)
  <2>1. refresh' \in [Replicas -> [Slots -> Refreshes]]
    BY <1>6, IdleRecords, SetRefreshEffect DEF ApplySchedules
  <2> DEFINE new == Reconciled(r, refresh[r][k].list)
  <2>2. new \in [Schedules -> ValidCrons \cup {NoJob}]
    BY DEF Reconciled
  <2>3. /\ jobs' \in [Replicas -> [Schedules -> ValidCrons \cup {NoJob}]]
        /\ due' \in [Replicas -> [Schedules -> 0..MaxTicks]]
    BY <1>6, <2>2, BoundsAssumption DEF TypeOK, ApplySchedules
  <2> QED
    BY <1>6, <2>1, <2>3 DEF TypeOK, ApplySchedules, bookVars, overrideVars
<1> QED
  BY <1>1, <1>2, <1>3, <1>4, <1>5, <1>6 DEF RefreshStep

\* The rest of Next.
LEMMA TypeOtherStep ==
  ASSUME TypeOK,
         \/ \E s \in Schedules, cron \in Crons \cup {NoJob} : EditSchedule(s, cron)
         \/ \E o \in Overrides : QueueOverride(o)
         \/ \E s \in Schedules : Tick(s)
         \/ \E r \in Replicas : Stop(r) \/ Restart(r)
  PROVE  TypeOK'
<1>1. ASSUME NEW s \in Schedules, NEW cron \in Crons \cup {NoJob}, EditSchedule(s, cron)
      PROVE  TypeOK'
  BY <1>1, BoundsAssumption DEF TypeOK, EditSchedule, jobVars, bookVars, overrideVars
<1>2. ASSUME NEW o \in Overrides, QueueOverride(o)
      PROVE  TypeOK'
  BY <1>2 DEF TypeOK, QueueOverride, jobVars, bookVars
<1>3. ASSUME NEW s \in Schedules, Tick(s)
      PROVE  TypeOK'
  <2>1. ticks' \in [Schedules -> 0..MaxTicks] /\ ticks[s] + 1 \in 0..MaxTicks
    BY <1>3, BoundsAssumption DEF TypeOK, Tick
  <2>2. due' \in [Replicas -> [Schedules -> 0..MaxTicks]]
    BY <1>3, <2>1 DEF TypeOK, Tick
  <2> QED
    BY <1>3, <2>1, <2>2 DEF TypeOK, Tick, bookVars, overrideVars
<1>4. ASSUME NEW r \in Replicas, Stop(r)
      PROVE  TypeOK'
  <2>1. jobs' \in [Replicas -> [Schedules -> ValidCrons \cup {NoJob}]]
    BY <1>4 DEF TypeOK, Stop
  <2>2. due' \in [Replicas -> [Schedules -> 0..MaxTicks]]
    BY <1>4, BoundsAssumption DEF TypeOK, Stop
  <2>3. up' \in [Replicas -> BOOLEAN] /\ faults' \in 0..MaxFaults
    BY <1>4, BoundsAssumption DEF TypeOK, Stop, Fault
  <2> QED
    BY <1>4, <2>1, <2>2, <2>3 DEF TypeOK, Stop, bookVars, overrideVars
<1>5. ASSUME NEW r \in Replicas, Restart(r)
      PROVE  TypeOK'
  <2>1. jobs' \in [Replicas -> [Schedules -> ValidCrons \cup {NoJob}]]
    BY <1>5 DEF TypeOK, Restart
  <2>2. due' \in [Replicas -> [Schedules -> 0..MaxTicks]]
    BY <1>5, BoundsAssumption DEF TypeOK, Restart
  <2>3. up' \in [Replicas -> BOOLEAN] /\ faults' \in 0..MaxFaults
    BY <1>5, BoundsAssumption DEF TypeOK, Restart, Fault
  <2>4. run' \in [Replicas -> [Schedules -> Runs]]
    BY <1>5, IdleRecords DEF TypeOK, Restart
  <2>5. refresh' \in [Replicas -> [Slots -> Refreshes]]
    BY <1>5, IdleRecords DEF TypeOK, Restart
  <2> QED
    BY <1>5, <2>1, <2>2, <2>3, <2>4, <2>5 DEF TypeOK, Restart, bookVars, overrideVars
<1> QED
  BY <1>1, <1>2, <1>3, <1>4, <1>5

-----------------------------------------------------------------------------
(* No override twice. *)

\* Nothing is queued, so nothing is taken.
LEMMA OverrideInit == Init => OverrideInv
BY DEF Init, OverrideInv, OverrideOnce, StreamsFor, ClaimedOnce, Claimed, Holds, Todo, NoRefresh

\* A step that leaves the table alone and only lets go of batches.
LEMMA LettingGo ==
  ASSUME IInv, UNCHANGED overrideVars,
         \A r \in Replicas, k \in Slots :
           refresh'[r][k] = refresh[r][k] \/ Todo(r, k)' = <<>>,
         \A r \in Replicas, k \in Slots :
           refresh'[r][k] # refresh[r][k] =>
             refresh'[r][k].pc \notin {"complete", "fail"}
  PROVE  OverrideInv'
<1>1. \A r \in Replicas, k \in Slots, n \in Nat, o \in Overrides :
        Holds(r, k, n, o)' => Holds(r, k, n, o) /\ refresh'[r][k] = refresh[r][k]
  BY DEF Holds, Todo
<1>2. OverrideOnce'
  BY DEF IInv, OverrideInv, OverrideOnce, StreamsFor, overrideVars
<1>3. ClaimedOnce'
  <2>1. ClaimedOnce
    BY DEF IInv, OverrideInv
  <2> SUFFICES ASSUME NEW r \in Replicas, NEW q \in Replicas,
                      NEW k \in Slots, NEW j \in Slots,
                      NEW m \in Nat, NEW n \in Nat, NEW o \in Overrides,
                      Holds(r, k, m, o)', Holds(q, j, n, o)'
               PROVE  r = q /\ k = j /\ m = n
    BY DEF ClaimedOnce
  <2>2. Holds(r, k, m, o) /\ Holds(q, j, n, o)
    BY <1>1
  <2> QED
    BY <2>1, <2>2 DEF ClaimedOnce
<1>4. \A r \in Replicas, k \in Slots : Claimed(r, k)'
  <2>1. \A o \in Overrides : StreamsFor(o)' = StreamsFor(o) /\ override'[o] = override[o]
    BY DEF StreamsFor, overrideVars
  <2> SUFFICES ASSUME NEW r \in Replicas, NEW k \in Slots PROVE Claimed(r, k)'
    OBVIOUS
  <2>2. Claimed(r, k)
    BY DEF IInv, OverrideInv
  <2> QED
    BY <1>1, <2>1, <2>2 DEF Claimed, Todo
<1> QED
  BY <1>2, <1>3, <1>4 DEF OverrideInv

\* What the invariant says of the override at the head of a batch, and of the
\* others in all the batches.
LEMMA HeadOfBatch ==
  ASSUME IInv, NEW r \in Replicas, NEW k \in Slots, Todo(r, k) # <<>>
  PROVE  LET h == Head(Todo(r, k)) IN
         /\ h \in Overrides /\ Holds(r, k, 1, h) /\ override[h] = "processing"
         /\ \A q \in Replicas, j \in Slots, n \in Nat :
              Holds(q, j, n, h) => q = r /\ j = k /\ n = 1
<1> DEFINE h == Head(Todo(r, k))
<1>1. Todo(r, k) \in Seq(Overrides)
  BY DEF IInv, TypeOK, Refreshes, Todo
<1>2. h \in Overrides /\ Holds(r, k, 1, h)
  BY <1>1, RestOfBatch DEF Holds
<1>3. override[h] = "processing"
  BY <1>2 DEF IInv, OverrideInv, Claimed
<1>4. \A q \in Replicas, j \in Slots, n \in Nat :
        Holds(q, j, n, h) => q = r /\ j = k /\ n = 1
  BY <1>2 DEF IInv, OverrideInv, ClaimedOnce
<1> QED
  BY <1>2, <1>3, <1>4

\* A refresh takes rows that are pending, so in no batch yet, and marks them.
LEMMA DequeueStep ==
  ASSUME IInv, NEW r \in Replicas, NEW k \in Slots, Dequeue(r, k)
  PROVE  OverrideInv'
<1> DEFINE rec(batch) == [NoRefresh EXCEPT !.pc = "create", !.todo = SetToSeq(batch)]
<1>1. PICK batch \in SUBSET {o \in Overrides : override[o] = "pending"} :
        /\ override' = [o \in Overrides |->
                          IF o \in batch THEN "processing" ELSE override[o]]
        /\ SetRefresh(r, k, rec(batch))
  BY DEF Dequeue
<1>2. IsFiniteSet(batch)
  BY FiniteAssumption, FS_Subset
<1>3. /\ SetToSeq(batch) \in Seq(batch) /\ SetToSeq(batch) \in Seq(Overrides)
      /\ \A m, n \in DOMAIN SetToSeq(batch) : SetToSeq(batch)[m] = SetToSeq(batch)[n] => m = n
  BY <1>2, SetToSeqIsListing, SeqMonotonic
<1>4. /\ rec(batch) \in Refreshes
      /\ rec(batch).pc = "create" /\ rec(batch).todo = SetToSeq(batch)
  BY <1>3 DEF NoRefresh, Refreshes
<1>5. /\ refresh'[r][k].pc = "create" /\ Todo(r, k)' = SetToSeq(batch)
      /\ \A q \in Replicas, j \in Slots :
           q # r \/ j # k => refresh'[q][j] = refresh[q][j]
  <2> HIDE DEF rec
  <2>1. TypeOK /\ SetRefresh(r, k, rec(batch))
    BY <1>1 DEF IInv
  <2>2. /\ refresh'[r][k] = rec(batch)
        /\ \A q \in Replicas, j \in Slots :
             q # r \/ j # k => refresh'[q][j] = refresh[q][j]
    BY <1>4, <2>1, SetRefreshEffect
  <2> QED
    BY <1>4, <2>2 DEF Todo
<1>6. \A n \in Nat, o \in Overrides : Holds(r, k, n, o)' => o \in batch
  BY <1>3, <1>5, ElementOfSeq, LenProperties DEF Holds
<1>7. \A q \in Replicas, j \in Slots, n \in Nat, o \in Overrides :
        (q # r \/ j # k) /\ Holds(q, j, n, o)' => Holds(q, j, n, o) /\ o \notin batch
  <2>1. \A q \in Replicas, j \in Slots, n \in Nat, o \in Overrides :
          Holds(q, j, n, o) => override[o] = "processing"
    BY DEF IInv, OverrideInv, Claimed
  <2> QED
    BY <1>5, <2>1 DEF Holds, Todo
<1>8. /\ UNCHANGED simulatedFor /\ \A o \in Overrides : StreamsFor(o)' = StreamsFor(o)
      /\ \A o \in batch : override[o] = "pending" /\ StreamsFor(o) = 0
  BY DEF Dequeue, IInv, OverrideInv, OverrideOnce, StreamsFor
<1>9. \A o \in Overrides : override'[o] = IF o \in batch THEN "processing" ELSE override[o]
  BY <1>1
<1>10. OverrideOnce'
  BY <1>8, <1>9 DEF IInv, OverrideInv, OverrideOnce
<1>11. ClaimedOnce'
  <2>1. ClaimedOnce
    BY DEF IInv, OverrideInv
  <2> SUFFICES ASSUME NEW q \in Replicas, NEW p \in Replicas,
                      NEW j \in Slots, NEW l \in Slots,
                      NEW m \in Nat, NEW n \in Nat, NEW o \in Overrides,
                      Holds(q, j, m, o)', Holds(p, l, n, o)'
               PROVE  q = p /\ j = l /\ m = n
    BY DEF ClaimedOnce
  <2>2. CASE o \in batch
    <3>1. q = r /\ j = k /\ p = r /\ l = k
      BY <1>7, <2>2
    <3> QED
      BY <1>3, <1>5, <3>1 DEF Holds
  <2>3. CASE o \notin batch
    BY <1>6, <1>7, <2>1, <2>3 DEF ClaimedOnce
  <2> QED
    BY <2>2, <2>3
<1>12. Claimed(r, k)'
  BY <1>5, <1>6, <1>8, <1>9 DEF Claimed
<1>13. \A q \in Replicas, j \in Slots : (q # r \/ j # k) => Claimed(q, j)'
  <2> SUFFICES ASSUME NEW q \in Replicas, NEW j \in Slots, q # r \/ j # k
               PROVE  Claimed(q, j)'
    OBVIOUS
  <2>1. Claimed(q, j) /\ refresh'[q][j] = refresh[q][j] /\ Todo(q, j)' = Todo(q, j)
    BY <1>5 DEF IInv, OverrideInv, Todo
  <2> QED
    BY <1>7, <1>8, <1>9, <2>1 DEF Claimed
<1> QED
  BY <1>10, <1>11, <1>12, <1>13 DEF OverrideInv

\* The head of a batch is executed, once, and stays where it is.
LEMMA ExecuteStep ==
  ASSUME IInv, NEW r \in Replicas, NEW k \in Slots, ExecuteOverride(r, k)
  PROVE  OverrideInv'
<1> DEFINE h == Head(Todo(r, k))
<1>1. /\ h \in Overrides /\ Holds(r, k, 1, h) /\ override[h] = "processing"
      /\ \A q \in Replicas, j \in Slots, n \in Nat :
           Holds(q, j, n, h) => q = r /\ j = k /\ n = 1
  BY HeadOfBatch DEF ExecuteOverride
<1>2. StreamsFor(h) = 0
  BY <1>1 DEF IInv, OverrideInv, Claimed, ExecuteOverride
<1>3. PICK p \in {"complete", "fail"} :
        /\ SetRefresh(r, k, [refresh[r][k] EXCEPT !.pc = p])
        /\ \/ made' = [made EXCEPT ![h] = @ + 1] /\ simulatedFor' = simulatedFor
           \/ /\ made' = made /\ simulatedFor' = [simulatedFor EXCEPT ![h] = @ + 1]
              /\ Unconfigured # {}
           \/ UNCHANGED <<made, simulatedFor>> /\ p = "fail"
        /\ override' = override
  BY DEF ExecuteOverride
<1>4. /\ refresh'[r][k].pc = p /\ refresh'[r][k].todo = refresh[r][k].todo
      /\ \A q \in Replicas, j \in Slots :
           q # r \/ j # k => refresh'[q][j] = refresh[q][j]
  <2>1. refresh[r][k] \in Refreshes /\ TypeOK
    BY DEF IInv, TypeOK
  <2> DEFINE rec == [refresh[r][k] EXCEPT !.pc = p]
  <2>2. rec \in Refreshes /\ rec.pc = p /\ rec.todo = refresh[r][k].todo
    BY <2>1, RefreshRecords DEF Refreshes
  <2>3. SetRefresh(r, k, rec)
    BY <1>3
  <2> HIDE DEF rec
  <2> QED
    BY <2>1, <2>2, <2>3, SetRefreshEffect
<1>5. \A q \in Replicas, j \in Slots : Todo(q, j)' = Todo(q, j)
  BY <1>4 DEF Todo
<1>6. \A q \in Replicas, j \in Slots, n \in Nat, o \in Overrides :
        Holds(q, j, n, o)' <=> Holds(q, j, n, o)
  BY <1>5 DEF Holds
<1>7. \A o \in Overrides :
        /\ StreamsFor(o)' = StreamsFor(o) \/ (o = h /\ StreamsFor(o)' = 1)
        /\ o = h /\ p = "complete" => StreamsFor(o)' = 1
        /\ Unconfigured = {} => simulatedFor'[o] = simulatedFor[o]
  <2>1. /\ made \in [Overrides -> Nat] /\ simulatedFor \in [Overrides -> Nat]
        /\ made[h] + simulatedFor[h] = 0
    BY <1>2 DEF IInv, TypeOK, StreamsFor
  <2> HIDE DEF h
  <2> QED
    BY <1>1, <1>3, <2>1 DEF StreamsFor
<1>8. OverrideOnce'
  BY <1>1, <1>3, <1>7 DEF IInv, OverrideInv, OverrideOnce
<1>9. ClaimedOnce'
  BY <1>6 DEF IInv, OverrideInv, ClaimedOnce
<1>10. Claimed(r, k)'
  <2>1. Claimed(r, k) /\ refresh[r][k].pc = "create" /\ Todo(r, k) # <<>>
    BY DEF IInv, OverrideInv, ExecuteOverride
  <2>2. \A o \in Overrides : o = h /\ p = "complete" => StreamsFor(o)' = 1
    BY <1>7
  <2>3. \A o \in Overrides : Holds(r, k, 1, o) => o = h
    BY <1>1 DEF Holds
  <2>4. \A n \in Nat, o \in Overrides : Holds(r, k, n, o) /\ n > 1 => StreamsFor(o)' = 0
    BY <1>1, <1>7, <2>1 DEF Claimed
  <2> QED
    BY <1>3, <1>4, <1>5, <1>6, <2>1, <2>2, <2>3, <2>4 DEF Claimed
<1>11. \A q \in Replicas, j \in Slots : (q # r \/ j # k) => Claimed(q, j)'
  <2> SUFFICES ASSUME NEW q \in Replicas, NEW j \in Slots, q # r \/ j # k
               PROVE  Claimed(q, j)'
    OBVIOUS
  <2>1. Claimed(q, j) /\ refresh'[q][j] = refresh[q][j]
    BY <1>4 DEF IInv, OverrideInv
  <2>2. \A n \in Nat, o \in Overrides : Holds(q, j, n, o) => StreamsFor(o)' = StreamsFor(o)
    BY <1>1, <1>7
  <2> QED
    BY <1>3, <1>5, <1>6, <2>1, <2>2 DEF Claimed
<1> QED
  BY <1>8, <1>9, <1>10, <1>11 DEF OverrideInv

\* The head of a batch is settled and the batch goes on with the rest.
LEMMA HeadSettled ==
  ASSUME IInv, NEW r \in Replicas, NEW k \in Slots,
         NEW st \in {"completed", "failed"},
         refresh[r][k].pc \in {"complete", "fail"},
         st = "completed" => refresh[r][k].pc = "complete",
         override' = [override EXCEPT ![Head(Todo(r, k))] = st],
         OverrideDone(r, k), UNCHANGED <<made, simulatedFor>>
  PROVE  OverrideInv'
<1> DEFINE rec == [refresh[r][k] EXCEPT !.pc = "create", !.todo = Tail(@)]
<1>1. Todo(r, k) # <<>> /\ Todo(r, k) \in Seq(Overrides)
  BY DEF IInv, OverrideInv, Claimed, TypeOK, Refreshes, Todo
<1>2. PICK h \in Overrides :
        /\ h = Head(Todo(r, k)) /\ Holds(r, k, 1, h) /\ override[h] = "processing"
        /\ \A q \in Replicas, j \in Slots, n \in Nat :
             Holds(q, j, n, h) => q = r /\ j = k /\ n = 1
  BY <1>1, HeadOfBatch
<1>3. /\ refresh'[r][k].pc = "create" /\ Todo(r, k)' = Tail(Todo(r, k))
      /\ \A q \in Replicas, j \in Slots :
           q # r \/ j # k => refresh'[q][j] = refresh[q][j]
  <2>1. refresh[r][k] \in Refreshes /\ TypeOK
    BY DEF IInv, TypeOK
  <2>2. rec \in Refreshes /\ rec.pc = "create" /\ rec.todo = Tail(Todo(r, k))
    BY <1>1, <2>1, RefreshRecords DEF Refreshes, Todo
  <2>3. SetRefresh(r, k, rec)
    BY DEF OverrideDone
  <2> HIDE DEF rec
  <2>4. refresh'[r][k] = rec
    BY <2>1, <2>2, <2>3, SetRefreshEffect
  <2>5. \A q \in Replicas, j \in Slots :
          q # r \/ j # k => refresh'[q][j] = refresh[q][j]
    BY <2>1, <2>2, <2>3, SetRefreshEffect
  <2> QED
    BY <2>2, <2>4, <2>5 DEF Todo
<1>4. \A n \in Nat, o \in Overrides : Holds(r, k, n, o)' => n + 1 > 1 /\ Holds(r, k, n + 1, o)
  BY <1>1, <1>3, RestOfBatch DEF Holds
<1>5. \A q \in Replicas, j \in Slots, n \in Nat, o \in Overrides :
        (q # r \/ j # k) => (Holds(q, j, n, o)' <=> Holds(q, j, n, o))
  BY <1>3 DEF Holds, Todo
<1>6. \A q \in Replicas, j \in Slots, n \in Nat : ~Holds(q, j, n, h)'
  <2>1. \A n \in Nat : ~Holds(r, k, n, h)'
    BY <1>2, <1>4
  <2> QED
    BY <1>2, <1>5, <2>1
<1>7. override'[h] = st /\ \A o \in Overrides \ {h} : override'[o] = override[o]
  BY <1>2 DEF IInv, TypeOK
<1>0. \A o \in Overrides : StreamsFor(o)' = StreamsFor(o)
  BY DEF StreamsFor
<1>8. OverrideOnce'
  <2>1. st = "completed" => StreamsFor(h) = 1
    BY <1>2 DEF IInv, OverrideInv, Claimed
  <2> QED
    BY <1>0, <1>7, <2>1 DEF IInv, OverrideInv, OverrideOnce
<1>9. ClaimedOnce'
  <2>1. ClaimedOnce
    BY DEF IInv, OverrideInv
  <2> SUFFICES ASSUME NEW q \in Replicas, NEW p \in Replicas,
                      NEW j \in Slots, NEW l \in Slots,
                      NEW m \in Nat, NEW n \in Nat, NEW o \in Overrides,
                      Holds(q, j, m, o)', Holds(p, l, n, o)'
               PROVE  q = p /\ j = l /\ m = n
    BY DEF ClaimedOnce
  <2>2. PICK x \in {m, m + 1} : Holds(q, j, x, o) /\ (x = m + 1 <=> q = r /\ j = k)
    BY <1>4, <1>5
  <2>3. PICK y \in {n, n + 1} : Holds(p, l, y, o) /\ (y = n + 1 <=> p = r /\ l = k)
    BY <1>4, <1>5
  <2>4. q = p /\ j = l /\ x = y
    BY <2>1, <2>2, <2>3 DEF ClaimedOnce
  <2> QED
    BY <2>2, <2>3, <2>4
<1>10. Claimed(r, k)'
  <2>1. Claimed(r, k)
    BY DEF IInv, OverrideInv
  <2> SUFFICES ASSUME NEW n \in Nat, NEW o \in Overrides, Holds(r, k, n, o)'
               PROVE  override'[o] = "processing" /\ StreamsFor(o)' = 0
    BY <1>3 DEF Claimed
  <2>2. Holds(r, k, n + 1, o) /\ n + 1 > 1 /\ n + 1 \in Nat /\ o # h
    BY <1>4, <1>6
  <2> QED
    BY <1>0, <1>7, <2>1, <2>2 DEF Claimed
<1>11. \A q \in Replicas, j \in Slots : (q # r \/ j # k) => Claimed(q, j)'
  <2> SUFFICES ASSUME NEW q \in Replicas, NEW j \in Slots, q # r \/ j # k
               PROVE  Claimed(q, j)'
    OBVIOUS
  <2>1. Claimed(q, j) /\ refresh'[q][j] = refresh[q][j] /\ Todo(q, j)' = Todo(q, j)
    BY <1>3 DEF IInv, OverrideInv, Todo
  <2> QED
    BY <1>0, <1>5, <1>6, <1>7, <2>1 DEF Claimed
<1> QED
  BY <1>8, <1>9, <1>10, <1>11 DEF OverrideInv

\* markOverrideCompleted threw: the head of the batch is to be marked failed.
LEMMA FailNext ==
  ASSUME IInv, NEW r \in Replicas, NEW k \in Slots, refresh[r][k].pc = "complete",
         SetRefresh(r, k, [refresh[r][k] EXCEPT !.pc = "fail"]),
         UNCHANGED overrideVars
  PROVE  OverrideInv'
<1>1. /\ refresh'[r][k].pc = "fail" /\ refresh'[r][k].todo = refresh[r][k].todo
      /\ \A q \in Replicas, j \in Slots :
           q # r \/ j # k => refresh'[q][j] = refresh[q][j]
  <2> DEFINE rec == [refresh[r][k] EXCEPT !.pc = "fail"]
  <2>1. refresh[r][k] \in Refreshes /\ TypeOK
    BY DEF IInv, TypeOK
  <2>2. rec \in Refreshes /\ rec.pc = "fail" /\ rec.todo = refresh[r][k].todo
    BY <2>1, RefreshRecords DEF Refreshes
  <2>3. SetRefresh(r, k, rec)
    OBVIOUS
  <2> HIDE DEF rec
  <2> QED
    BY <2>1, <2>2, <2>3, SetRefreshEffect
<1>2. \A q \in Replicas, j \in Slots : Todo(q, j)' = Todo(q, j)
  BY <1>1 DEF Todo
<1>3. \A q \in Replicas, j \in Slots, n \in Nat, o \in Overrides :
        Holds(q, j, n, o)' <=> Holds(q, j, n, o)
  BY <1>2 DEF Holds
<1>4. OverrideOnce' /\ ClaimedOnce'
  BY <1>3 DEF IInv, OverrideInv, OverrideOnce, ClaimedOnce, StreamsFor, overrideVars
<1>5. Claimed(r, k)'
  <2>1. Claimed(r, k)
    BY DEF IInv, OverrideInv
  <2> QED
    BY <1>1, <1>2, <1>3, <2>1 DEF Claimed, StreamsFor, overrideVars
<1>6. \A q \in Replicas, j \in Slots : (q # r \/ j # k) => Claimed(q, j)'
  <2> SUFFICES ASSUME NEW q \in Replicas, NEW j \in Slots, q # r \/ j # k
               PROVE  Claimed(q, j)'
    OBVIOUS
  <2>1. Claimed(q, j) /\ refresh'[q][j] = refresh[q][j]
    BY <1>1 DEF IInv, OverrideInv
  <2> QED
    BY <1>2, <1>3, <2>1 DEF Claimed, StreamsFor, overrideVars
<1> QED
  BY <1>4, <1>5, <1>6 DEF OverrideInv

\* A refresh keeps the invariant.
LEMMA OverrideRefreshStep ==
  ASSUME IInv, NEW r \in Replicas, NEW k \in Slots, RefreshStep(r, k)
  PROVE  OverrideInv'
<1>0. ASSUME NEW rec \in Refreshes, SetRefresh(r, k, rec), UNCHANGED overrideVars,
             rec.todo = <<>>, rec.pc \notin {"complete", "fail"}
      PROVE  OverrideInv'
  <2>1. /\ refresh'[r][k] = rec
        /\ \A q \in Replicas, j \in Slots :
             q # r \/ j # k => refresh'[q][j] = refresh[q][j]
    BY <1>0, SetRefreshEffect DEF IInv
  <2>2. \A q \in Replicas, j \in Slots :
          refresh'[q][j] = refresh[q][j] \/ Todo(q, j)' = <<>>
    BY <1>0, <2>1 DEF Todo
  <2>3. \A q \in Replicas, j \in Slots : refresh'[q][j] # refresh[q][j] =>
          refresh'[q][j].pc \notin {"complete", "fail"}
    BY <1>0, <2>1
  <2> QED
    BY <1>0, <2>2, <2>3, LettingGo
<1>1. CASE Dequeue(r, k)
  BY <1>1, DequeueStep
<1>2. CASE ExecuteOverride(r, k)
  BY <1>2, ExecuteStep
<1>3. CASE CompleteOverride(r, k)
  <2>1. CASE override' = [override EXCEPT ![Head(Todo(r, k))] = "completed"] /\ OverrideDone(r, k)
    BY <1>3, <2>1, HeadSettled DEF CompleteOverride
  <2>2. CASE SetRefresh(r, k, [refresh[r][k] EXCEPT !.pc = "fail"]) /\ override' = override
    BY <1>3, <2>2, FailNext DEF CompleteOverride, overrideVars
  <2> QED
    BY <1>3, <2>1, <2>2 DEF CompleteOverride
<1>4. CASE FailOverride(r, k)
  <2>1. CASE override' = [override EXCEPT ![Head(Todo(r, k))] = "failed"] /\ OverrideDone(r, k)
    BY <1>4, <2>1, HeadSettled DEF FailOverride
  <2>2. CASE SetRefresh(r, k, [NoRefresh EXCEPT !.pc = "create"]) /\ override' = override
    <3> DEFINE rec == [NoRefresh EXCEPT !.pc = "create"]
    <3>1. /\ rec \in Refreshes /\ rec.todo = <<>> /\ rec.pc \notin {"complete", "fail"}
      BY IdleRecords DEF Refreshes, NoRefresh
    <3>2. UNCHANGED overrideVars /\ SetRefresh(r, k, rec)
      BY <1>4, <2>2 DEF FailOverride, overrideVars
    <3> HIDE DEF rec
    <3> QED
      BY <1>0, <3>1, <3>2
  <2> QED
    BY <1>4, <2>1, <2>2 DEF FailOverride
<1>5. CASE ReadSchedules(r, k)
  <2> DEFINE rec == [NoRefresh EXCEPT !.pc = "apply", !.list = rows]
  <2>1. /\ rec \in Refreshes /\ rec.todo = <<>> /\ rec.pc \notin {"complete", "fail"}
    BY IdleRecords DEF Refreshes, NoRefresh, IInv, TypeOK
  <2>2. /\ NoRefresh \in Refreshes /\ NoRefresh.todo = <<>>
        /\ NoRefresh.pc \notin {"complete", "fail"}
    BY IdleRecords DEF NoRefresh
  <2>3. UNCHANGED overrideVars /\ (SetRefresh(r, k, rec) \/ SetRefresh(r, k, NoRefresh))
    BY <1>5 DEF ReadSchedules, overrideVars
  <2> HIDE DEF rec
  <2> QED
    BY <1>0, <2>1, <2>2, <2>3
<1>6. CASE ApplySchedules(r, k)
  <2>1. /\ NoRefresh \in Refreshes /\ NoRefresh.todo = <<>>
        /\ NoRefresh.pc \notin {"complete", "fail"}
    BY IdleRecords DEF NoRefresh
  <2>2. UNCHANGED overrideVars /\ SetRefresh(r, k, NoRefresh)
    BY <1>6 DEF ApplySchedules
  <2> QED
    BY <1>0, <2>1, <2>2
<1> QED
  BY <1>1, <1>2, <1>3, <1>4, <1>5, <1>6 DEF RefreshStep

\* So does everything else.
LEMMA OverrideOtherStep ==
  ASSUME IInv,
         \/ UNCHANGED <<refresh, overrideVars>>
         \/ \E o \in Overrides : QueueOverride(o)
         \/ \E r \in Replicas : Restart(r)
  PROVE  OverrideInv'
<1>1. CASE UNCHANGED <<refresh, overrideVars>>
  BY <1>1, LettingGo
<1>2. ASSUME NEW o \in Overrides, QueueOverride(o)
      PROVE  OverrideInv'
  <2>1. /\ refresh' = refresh /\ simulatedFor' = simulatedFor /\ override[o] = "none"
        /\ \A p \in Overrides : StreamsFor(p)' = StreamsFor(p)
        /\ override'[o] = "pending" /\ \A p \in Overrides \ {o} : override'[p] = override[p]
    BY <1>2 DEF QueueOverride, IInv, TypeOK, StreamsFor
  <2>2. \A q \in Replicas, j \in Slots, n \in Nat, p \in Overrides :
          Holds(q, j, n, p)' <=> Holds(q, j, n, p)
    BY <2>1 DEF Holds, Todo
  <2>3. OverrideOnce' /\ ClaimedOnce'
    <3>1. OverrideOnce /\ ClaimedOnce
      BY DEF IInv, OverrideInv
    <3>2. OverrideOnce'
      BY <2>1, <3>1 DEF OverrideOnce
    <3>3. ClaimedOnce'
      BY <2>2, <3>1 DEF ClaimedOnce
    <3> QED
      BY <3>2, <3>3
  <2>4. \A q \in Replicas, j \in Slots : Claimed(q, j)'
    BY <2>1, <2>2 DEF IInv, OverrideInv, Claimed, Todo
  <2> QED
    BY <2>3, <2>4 DEF OverrideInv
<1>3. ASSUME NEW r \in Replicas, Restart(r)
      PROVE  OverrideInv'
  <2>1. /\ UNCHANGED overrideVars
        /\ \A q \in Replicas, j \in Slots :
             refresh'[q][j] = IF q = r THEN NoRefresh ELSE refresh[q][j]
    BY <1>3 DEF Restart, IInv, TypeOK
  <2>2. NoRefresh.todo = <<>> /\ NoRefresh.pc \notin {"complete", "fail"}
    BY DEF NoRefresh
  <2> QED
    BY <2>1, <2>2, LettingGo DEF Todo
<1> QED
  BY <1>1, <1>2, <1>3

-----------------------------------------------------------------------------
\* Every step of the specification keeps the invariant.
LEMMA Step ==
  ASSUME IInv, [Next]_vars
  PROVE  IInv'
<1>0. TypeOK
  BY DEF IInv
<1>1. CASE UNCHANGED vars
  <2>1. TypeOK'
    BY <1>0, <1>1 DEF TypeOK, vars
  <2>2. UNCHANGED <<refresh, overrideVars>>
    BY <1>1 DEF vars, overrideVars
  <2> QED
    BY <2>1, <2>2, OverrideOtherStep DEF IInv
<1>2. ASSUME NEW r \in Replicas, NEW k \in Slots, RefreshStep(r, k)
      PROVE  IInv'
  <2>1. refresh[r][k].pc \in {"complete", "fail"} => Todo(r, k) # <<>>
    BY DEF IInv, OverrideInv, Claimed
  <2> QED
    BY <1>0, <1>2, <2>1, TypeRefreshStep, OverrideRefreshStep DEF IInv
<1>3. ASSUME NEW r \in Replicas, NEW s \in Schedules, RunStep(r, s)
      PROVE  IInv'
  <2>1. UNCHANGED <<refresh, overrideVars>>
    BY <1>3 DEF RunStep, Fire, CreateStream, UpdateSchedule, LogRun
  <2> QED
    BY <1>0, <1>3, <2>1, TypeRunStep, OverrideOtherStep DEF IInv
<1>4. CASE \/ \E s \in Schedules, cron \in Crons \cup {NoJob} : EditSchedule(s, cron)
           \/ \E s \in Schedules : Tick(s)
           \/ \E r \in Replicas : Stop(r)
  <2>1. UNCHANGED <<refresh, overrideVars>>
    BY <1>4 DEF EditSchedule, Tick, Stop
  <2> QED
    BY <1>0, <1>4, <2>1, TypeOtherStep, OverrideOtherStep DEF IInv
<1>5. CASE (\E o \in Overrides : QueueOverride(o)) \/ (\E r \in Replicas : Restart(r))
  BY <1>0, <1>5, TypeOtherStep, OverrideOtherStep DEF IInv
<1> QED
  BY <1>1, <1>2, <1>3, <1>4, <1>5 DEF Next

\* The inductive invariant: the tables and maps are well typed, and every override
\* a refresh has taken is in one place, in 'processing', and not yet executed.
THEOREM InductiveInvariant == Spec => []IInv
<1>1. Init => IInv
  BY TypeInit, OverrideInit DEF IInv
<1>2. IInv /\ [Next]_vars => IInv'
  BY Step
<1> QED
  BY <1>1, <1>2, PTL DEF Spec

\* The scheduler's state keeps its types (scheduler.ts:86-96, 446-477), with any
\* number of replicas, schedules and overrides.
THEOREM TypeCorrect == Spec => []TypeOK
<1>1. IInv => TypeOK
  BY DEF IInv
<1> QED
  BY <1>1, InductiveInvariant, PTL

\* Whatever refreshes overlap, in whatever replicas, and whatever crashes or
\* fails: no override creates two streams (queries.ts:1982-2003,
\* scheduler.ts:634-711).
THEOREM OverrideOnceTheorem == Spec => []OverrideOnce
<1>1. IInv => OverrideOnce
  BY DEF IInv, OverrideInv
<1> QED
  BY <1>1, InductiveInvariant, PTL

-----------------------------------------------------------------------------
(* The books of the executions. *)

\* Where an execution stands says whether its payment succeeded.
Coherent(e) ==
  /\ e.pc # "idle" => e.tick \in Ticks
  /\ e.pc \in {"idle", "create"} => ~e.ok
  /\ e.pc = "update" => e.ok

\* The execution e has made the payment of the tick t and not yet logged it.
Carries(e, t) == e.tick = t /\ e.ok /\ e.pc \in {"update", "log"}

\* The lock lets one replica execute a schedule at a time.
OneRun ==
  \A s \in Schedules, r, q \in Replicas :
    run[r][s].pc # "idle" /\ run[q][s].pc # "idle" => r = q

Down == {r \in Replicas : ~up[r]}

\* What makes RunsAccounted inductive.  Restarting a replica that is stopped loses
\* the payment it carries and costs no fault: the fault of its stop must still be
\* to spend, on every schedule and tick.
Known(s, t) == succeeded[s][t] + Cardinality(InFlight(s, t))

Balanced(s, t) ==
  /\ Known(s, t) <= Streams(s, t)
  /\ Streams(s, t) + Cardinality(Down) <= Known(s, t) + faults

RunsInv ==
  /\ OneRun
  /\ \A r \in Replicas, s \in Schedules : Coherent(run[r][s])
  /\ \A s \in Schedules, t \in Ticks : Balanced(s, t)

\* The sets that are counted are finite.
LEMMA CountsAreNumbers ==
  ASSUME TypeOK, NEW s \in Schedules, NEW t \in Ticks
  PROVE  /\ IsFiniteSet(InFlight(s, t)) /\ Cardinality(InFlight(s, t)) \in Nat
         /\ IsFiniteSet(Down) /\ Cardinality(Down) \in Nat
         /\ succeeded[s][t] \in Nat /\ Streams(s, t) \in Nat /\ faults \in Nat
<1>1. InFlight(s, t) \subseteq Replicas /\ Down \subseteq Replicas
  BY DEF InFlight, Down
<1>2. succeeded[s][t] \in Nat /\ Streams(s, t) \in Nat /\ faults \in Nat
  BY BoundsAssumption DEF TypeOK, Streams
<1> QED
  BY <1>1, <1>2, FiniteAssumption, CountPart

\* What a step of an execution does to the lock and to the payments in flight.
LEMMA RunMoves ==
  ASSUME TypeOK, RunsInv, NEW r \in Replicas, NEW s \in Schedules, NEW rec \in Runs,
         SetRun(r, s, rec), Coherent(rec),
         \/ rec.pc = "idle" \/ run[r][s].pc # "idle"
         \/ \A q \in Replicas : run[q][s].pc = "idle"
  PROVE  /\ OneRun'
         /\ \A q \in Replicas, z \in Schedules : Coherent(run'[q][z])
         /\ \A z \in Schedules, u \in Ticks :
              z # s \/ (Carries(rec, u) <=> Carries(run[r][s], u)) =>
                Cardinality(InFlight(z, u))' = Cardinality(InFlight(z, u))
         /\ \A u \in Ticks : Carries(rec, u) /\ ~Carries(run[r][s], u) =>
              Cardinality(InFlight(s, u))' = Cardinality(InFlight(s, u)) + 1
         /\ \A u \in Ticks : ~Carries(rec, u) /\ Carries(run[r][s], u) =>
              Cardinality(InFlight(s, u))' = Cardinality(InFlight(s, u)) - 1
<1>1. /\ run'[r][s] = rec
      /\ \A q \in Replicas, z \in Schedules : q # r \/ z # s => run'[q][z] = run[q][z]
  BY SetRunEffect
<1>2. OneRun'
  BY <1>1 DEF RunsInv, OneRun
<1>3. \A q \in Replicas, z \in Schedules : Coherent(run'[q][z])
  BY <1>1 DEF RunsInv
<1>4. \A q \in Replicas, z \in Schedules, u \in Ticks :
        /\ q \in InFlight(z, u) <=> Carries(run[q][z], u)
        /\ q \in InFlight(z, u)' <=> Carries(run'[q][z], u)
  BY DEF InFlight, Carries
<1>5. \A z \in Schedules, u \in Ticks :
        InFlight(z, u) \subseteq Replicas /\ InFlight(z, u)' \subseteq Replicas
  BY DEF InFlight
<1>6. ASSUME NEW z \in Schedules, NEW u \in Ticks,
             z # s \/ (Carries(rec, u) <=> Carries(run[r][s], u))
      PROVE  Cardinality(InFlight(z, u))' = Cardinality(InFlight(z, u))
  <2>0. \A q \in Replicas : Carries(run'[q][z], u) <=> Carries(run[q][z], u)
    BY <1>1, <1>6
  <2>1. InFlight(z, u)' = InFlight(z, u)
    BY <1>4, <1>5, <2>0
  <2> QED
    BY <2>1
<1>7. ASSUME NEW u \in Ticks, Carries(rec, u), ~Carries(run[r][s], u)
      PROVE  Cardinality(InFlight(s, u))' = Cardinality(InFlight(s, u)) + 1
  <2>1. InFlight(s, u)' = InFlight(s, u) \cup {r} /\ r \notin InFlight(s, u)
    BY <1>1, <1>4, <1>5, <1>7
  <2> QED
    BY <2>1, CountsAreNumbers, CountMore
<1>8. ASSUME NEW u \in Ticks, ~Carries(rec, u), Carries(run[r][s], u)
      PROVE  Cardinality(InFlight(s, u))' = Cardinality(InFlight(s, u)) - 1
  <2>1. InFlight(s, u)' = InFlight(s, u) \ {r} /\ r \in InFlight(s, u)
    BY <1>1, <1>4, <1>5, <1>8
  <2> QED
    BY <2>1, CountsAreNumbers, CountLess
<1> QED
  BY <1>2, <1>3, <1>6, <1>7, <1>8

\* A step that leaves executions and their books alone.
LEMMA RunsStill ==
  ASSUME TypeOK, RunsInv, UNCHANGED <<run, up, bookVars>>,
         faults' = faults \/ faults' = faults + 1
  PROVE  RunsInv'
<1>1. OneRun' /\ \A r \in Replicas, s \in Schedules : Coherent(run'[r][s])
  BY DEF RunsInv, OneRun
<1>2. ASSUME NEW s \in Schedules, NEW t \in Ticks
      PROVE  Balanced(s, t)'
  <2>1. Cardinality(InFlight(s, t))' = Cardinality(InFlight(s, t))
    BY DEF InFlight
  <2>2. Cardinality(Down)' = Cardinality(Down)
    BY DEF Down
  <2>3. Balanced(s, t)
    BY DEF RunsInv
  <2> QED
    BY <2>1, <2>2, <2>3, CountsAreNumbers DEF Balanced, Known, Streams, bookVars
<1> QED
  BY <1>1, <1>2 DEF RunsInv

\* The job fires, or finds the lock taken.
LEMMA FireStep ==
  ASSUME TypeOK, RunsInv, NEW r \in Replicas, NEW s \in Schedules, Fire(r, s)
  PROVE  RunsInv'
<1> DEFINE rec == [pc |-> "create", tick |-> due[r][s], ok |-> FALSE]
<1>1. CASE SetRun(r, s, rec) /\ \A q \in Replicas : run[q][s].pc = "idle"
  <2>1. due[r][s] \in Ticks
    BY BoundsAssumption DEF Fire, TypeOK, Ticks
  <2>2. rec \in Runs /\ rec.pc = "create" /\ ~rec.ok /\ rec.tick \in Ticks
    BY <2>1 DEF TypeOK, Runs
  <2>3. Coherent(rec) /\ \A u \in Ticks : ~Carries(rec, u) /\ ~Carries(run[r][s], u)
    BY <1>1, <2>2 DEF Coherent, Carries
  <2>4. SetRun(r, s, rec)
    BY <1>1
  <2> HIDE DEF rec
  <2>5. /\ OneRun' /\ \A q \in Replicas, z \in Schedules : Coherent(run'[q][z])
        /\ \A z \in Schedules, u \in Ticks :
             Cardinality(InFlight(z, u))' = Cardinality(InFlight(z, u))
    BY <1>1, <2>2, <2>3, <2>4, RunMoves
  <2>6. UNCHANGED <<up, bookVars, faults>>
    BY DEF Fire
  <2> QED
    BY <2>5, <2>6 DEF RunsInv, Balanced, Known, Streams, Down, bookVars
<1>2. CASE UNCHANGED run
  BY <1>2, RunsStill DEF Fire
<1> QED
  BY <1>1, <1>2 DEF Fire

\* A step that adds to the books no more than was paid, and leaves out no more
\* than it has cost faults.
LEMMA BooksMove ==
  ASSUME TypeOK, TypeOK', RunsInv, UNCHANGED up,
         OneRun', \A q \in Replicas, z \in Schedules : Coherent(run'[q][z]),
         \A z \in Schedules, u \in Ticks :
           /\ Known(z, u)' - Known(z, u) <= Streams(z, u)' - Streams(z, u)
           /\ Streams(z, u)' - Streams(z, u) <= Known(z, u)' - Known(z, u) + (faults' - faults)
  PROVE  RunsInv'
<1>1. ASSUME NEW z \in Schedules, NEW u \in Ticks
      PROVE  Balanced(z, u)'
  <2>1. Cardinality(Down)' = Cardinality(Down)
    BY DEF Down
  <2>2. Balanced(z, u)
    BY DEF RunsInv
  <2>3. /\ Known(z, u) \in Nat /\ Cardinality(Down) \in Nat
        /\ Streams(z, u) \in Nat /\ faults \in Nat
    BY CountsAreNumbers DEF Known
  <2>4. Known(z, u)' \in Nat /\ Streams(z, u)' \in Nat /\ faults' \in Nat
    <3>1. InFlight(z, u)' \subseteq Replicas
      BY DEF InFlight
    <3>2. Cardinality(InFlight(z, u))' \in Nat
      BY <3>1, FiniteAssumption, CountPart
    <3>3. succeeded'[z][u] \in Nat /\ Streams(z, u)' \in Nat /\ faults' \in Nat
      BY BoundsAssumption DEF TypeOK, Streams
    <3> QED
      BY <3>2, <3>3 DEF Known
  <2> QED
    BY <2>1, <2>2, <2>3, <2>4 DEF Balanced
<1> QED
  BY <1>1 DEF RunsInv

\* The records of an execution: what they carry and that they are coherent.
LEMMA RunStages ==
  ASSUME NEW a \in Runs, Coherent(a), a.pc # "idle", NEW rec,
         \/ rec = [a EXCEPT !.pc = "update", !.ok = TRUE]
         \/ rec = [a EXCEPT !.pc = "log"]
         \/ rec = [a EXCEPT !.pc = "log", !.ok = FALSE]
  PROVE  /\ rec \in Runs /\ Coherent(rec) /\ rec.pc \in {"update", "log"}
         /\ \A u \in Ticks : Carries(rec, u) <=> u = a.tick /\ rec.ok
<1>1. rec \in Runs /\ rec.tick = a.tick /\ rec.pc \in {"update", "log"}
  BY DEF Runs
<1>2. rec.pc = "update" => rec.ok
  BY DEF Runs
<1> QED
  BY <1>1, <1>2 DEF Coherent, Carries

\* The stream is created, or refused, or created and the call throws.
LEMMA CreateStep ==
  ASSUME TypeOK, TypeOK', RunsInv, NEW r \in Replicas, NEW s \in Schedules,
         CreateStream(r, s)
  PROVE  RunsInv'
<1>1. PICK a \in Runs : a = run[r][s]
  BY DEF TypeOK
<1>2. Coherent(a) /\ a.pc = "create" /\ ~a.ok /\ a.tick \in Ticks
  BY <1>1 DEF RunsInv, Coherent, CreateStream
<1>3. UNCHANGED up /\ succeeded' = succeeded
  BY DEF CreateStream
<1>4. PICK d \in {0, 1}, e \in {0, 1}, g \in {0, 1}, rec \in
             {[a EXCEPT !.pc = "update", !.ok = TRUE], [a EXCEPT !.pc = "log"]} :
        /\ paid' = [paid EXCEPT ![s][a.tick] = @ + d]
        /\ simulated' = [simulated EXCEPT ![s][a.tick] = @ + e]
        /\ faults' = faults + g
        /\ SetRun(r, s, rec)
        /\ rec = [a EXCEPT !.pc = "update", !.ok = TRUE] => d + e = 1 /\ g = 0
        /\ rec = [a EXCEPT !.pc = "log"] => d + e = g
  <2>0. /\ [a EXCEPT !.pc = "update", !.ok = TRUE] # [a EXCEPT !.pc = "log"]
        /\ paid = [paid EXCEPT ![s][a.tick] = @ + 0]
        /\ simulated = [simulated EXCEPT ![s][a.tick] = @ + 0]
        /\ faults + 0 = faults
    <3>1. [a EXCEPT !.pc = "update", !.ok = TRUE] # [a EXCEPT !.pc = "log"]
      BY <1>2 DEF Runs
    <3>2. paid = [paid EXCEPT ![s][a.tick] = @ + 0]
      BY <1>2 DEF TypeOK
    <3>3. simulated = [simulated EXCEPT ![s][a.tick] = @ + 0]
      BY <1>2 DEF TypeOK
    <3>4. faults + 0 = faults
      BY BoundsAssumption DEF TypeOK
    <3> QED
      BY <3>1, <3>2, <3>3, <3>4
  <2> DEFINE done == [a EXCEPT !.pc = "update", !.ok = TRUE]
             given == [a EXCEPT !.pc = "log"]
             more == [paid EXCEPT ![s][a.tick] = @ + 1]
             made_up == [simulated EXCEPT ![s][a.tick] = @ + 1]
  <2>1. \/ UNCHANGED <<paid, faults>> /\ simulated' = made_up /\ SetRun(r, s, done)
        \/ UNCHANGED <<simulated, faults>> /\ paid' = more /\ SetRun(r, s, done)
        \/ UNCHANGED <<paid, simulated, faults>> /\ SetRun(r, s, given)
        \/ /\ UNCHANGED simulated /\ paid' = more /\ faults' = faults + 1
           /\ SetRun(r, s, given)
    BY <1>1 DEF CreateStream, Fault
  <2> QED
    BY <2>0, <2>1
<1>5. /\ rec \in Runs /\ Coherent(rec)
      /\ \A u \in Ticks : Carries(rec, u) <=> u = a.tick /\ rec.ok
  BY <1>2, <1>4, RunStages
<1>6. \A u \in Ticks : ~Carries(a, u)
  BY <1>2 DEF Carries
<1>7. /\ rec = [a EXCEPT !.pc = "update", !.ok = TRUE] => rec.ok
      /\ rec = [a EXCEPT !.pc = "log"] => ~rec.ok
  BY <1>2 DEF Runs
<1>8. \A z \in Schedules, u \in Ticks : Streams(z, u)' =
        IF z = s /\ u = a.tick THEN Streams(z, u) + (d + e) ELSE Streams(z, u)
  <2>1. /\ paid \in [Schedules -> [Ticks -> Nat]] /\ simulated \in [Schedules -> [Ticks -> Nat]]
        /\ a.tick \in 0..MaxTicks /\ d \in Nat /\ e \in Nat
    BY DEF TypeOK, Runs
  <2>2. \A z \in Schedules, u \in Ticks : paid'[z][u] =
          IF z = s /\ u = a.tick THEN paid[z][u] + d ELSE paid[z][u]
    BY <1>4, <2>1, BookEntry
  <2>3. \A z \in Schedules, u \in Ticks : simulated'[z][u] =
          IF z = s /\ u = a.tick THEN simulated[z][u] + e ELSE simulated[z][u]
    BY <1>4, <2>1, BookEntry
  <2> SUFFICES ASSUME NEW z \in Schedules, NEW u \in Ticks
               PROVE  Streams(z, u)' = IF z = s /\ u = a.tick THEN Streams(z, u) + (d + e)
                                       ELSE Streams(z, u)
    OBVIOUS
  <2>4. paid[z][u] \in Nat /\ simulated[z][u] \in Nat
    BY <2>1
  <2> QED
    BY <2>2, <2>3, <2>4 DEF Streams
<1>9. /\ OneRun' /\ \A q \in Replicas, z \in Schedules : Coherent(run'[q][z])
      /\ \A z \in Schedules, u \in Ticks :
            z # s \/ ~Carries(rec, u) =>
              Cardinality(InFlight(z, u))' = Cardinality(InFlight(z, u))
      /\ \A u \in Ticks : Carries(rec, u) =>
            Cardinality(InFlight(s, u))' = Cardinality(InFlight(s, u)) + 1
  <2> HIDE DEF Carries, Coherent, OneRun, RunsInv, TypeOK, SetRun, InFlight
  <2>1. run[r][s].pc # "idle"
    BY <1>1, <1>2
  <2> QED
    BY <1>1, <1>4, <1>5, <1>6, <2>1, RunMoves
<1>10. ASSUME NEW z \in Schedules, NEW u \in Ticks
       PROVE  /\ Known(z, u)' - Known(z, u) <= Streams(z, u)' - Streams(z, u)
              /\ Streams(z, u)' - Streams(z, u) <=
                   Known(z, u)' - Known(z, u) + (faults' - faults)
  <2>1. /\ Cardinality(InFlight(z, u)) \in Nat /\ succeeded[z][u] \in Nat
        /\ Streams(z, u) \in Nat /\ faults \in Nat
    BY CountsAreNumbers
  <2>2. CASE z = s /\ u = a.tick /\ rec.ok
    <3>1. Cardinality(InFlight(z, u))' = Cardinality(InFlight(z, u)) + 1
      BY <1>5, <1>9, <2>2
    <3>2. Streams(z, u)' = Streams(z, u) + 1 /\ faults' = faults
      BY <1>4, <1>7, <1>8, <2>1, <2>2
    <3> QED
      BY <1>3, <2>1, <3>1, <3>2 DEF Known
  <2>3. CASE ~(z = s /\ u = a.tick /\ rec.ok)
    <3>1. Cardinality(InFlight(z, u))' = Cardinality(InFlight(z, u))
      BY <1>5, <1>9, <2>3
    <3>2. Streams(z, u)' \in {Streams(z, u), Streams(z, u) + g} /\ faults' = faults + g
      BY <1>4, <1>7, <1>8, <2>3
    <3> QED
      BY <1>3, <2>1, <3>1, <3>2 DEF Known
  <2> QED
    BY <2>2, <2>3
<1> QED
  BY <1>3, <1>9, <1>10, BooksMove

\* The schedule is written back, or an execution that has paid becomes a failed one.
LEMMA UpdateStep ==
  ASSUME TypeOK, TypeOK', RunsInv, NEW r \in Replicas, NEW s \in Schedules,
         UpdateSchedule(r, s)
  PROVE  RunsInv'
<1>1. PICK a \in Runs : a = run[r][s]
  BY DEF TypeOK
<1>2. Coherent(a) /\ a.pc = "update" /\ a.ok
  BY <1>1 DEF RunsInv, Coherent, UpdateSchedule
<1>3. UNCHANGED <<up, succeeded>> /\ \A z \in Schedules, u \in Ticks : Streams(z, u)' = Streams(z, u)
  BY DEF UpdateSchedule, bookVars, Streams
<1>4. PICK rec \in {[a EXCEPT !.pc = "log"], [a EXCEPT !.pc = "log", !.ok = FALSE]} :
        /\ SetRun(r, s, rec)
        /\ rec.ok => faults' = faults
        /\ ~rec.ok => faults' = faults + 1
  <2>1. [a EXCEPT !.pc = "log"].ok /\ ~[a EXCEPT !.pc = "log", !.ok = FALSE].ok
    BY <1>2 DEF Runs
  <2>2. \/ SetRun(r, s, [a EXCEPT !.pc = "log"]) /\ faults' = faults
        \/ SetRun(r, s, [a EXCEPT !.pc = "log", !.ok = FALSE]) /\ faults' = faults + 1
    BY <1>1 DEF UpdateSchedule, Fault
  <2> QED
    BY <2>1, <2>2
<1>5. /\ rec \in Runs /\ Coherent(rec)
      /\ \A u \in Ticks : Carries(rec, u) <=> u = a.tick /\ rec.ok
  BY <1>2, <1>4, RunStages
<1>6. \A u \in Ticks : Carries(a, u) <=> u = a.tick
  BY <1>2 DEF Carries
<1>7. /\ OneRun' /\ \A q \in Replicas, z \in Schedules : Coherent(run'[q][z])
      /\ \A z \in Schedules, u \in Ticks : z # s \/ (Carries(rec, u) <=> Carries(a, u)) =>
           Cardinality(InFlight(z, u))' = Cardinality(InFlight(z, u))
      /\ \A u \in Ticks : ~Carries(rec, u) /\ Carries(a, u) =>
           Cardinality(InFlight(s, u))' = Cardinality(InFlight(s, u)) - 1
  <2> HIDE DEF Carries, Coherent, OneRun, RunsInv, TypeOK, SetRun, InFlight
  <2>1. run[r][s].pc # "idle"
    BY <1>1, <1>2
  <2> QED
    BY <1>1, <1>4, <1>5, <2>1, RunMoves
<1>8. ASSUME NEW z \in Schedules, NEW u \in Ticks
      PROVE  /\ Known(z, u)' - Known(z, u) <= Streams(z, u)' - Streams(z, u)
             /\ Streams(z, u)' - Streams(z, u) <=
                  Known(z, u)' - Known(z, u) + (faults' - faults)
  <2>1. /\ Cardinality(InFlight(z, u)) \in Nat /\ succeeded[z][u] \in Nat
        /\ Streams(z, u) \in Nat /\ faults \in Nat
    BY CountsAreNumbers
  <2>2. CASE z = s /\ u = a.tick /\ ~rec.ok
    <3>1. Cardinality(InFlight(z, u))' = Cardinality(InFlight(z, u)) - 1
      BY <1>5, <1>6, <1>7, <2>2
    <3>2. faults' = faults + 1
      BY <1>4, <2>2
    <3> QED
      BY <1>3, <2>1, <3>1, <3>2 DEF Known
  <2>3. CASE ~(z = s /\ u = a.tick /\ ~rec.ok)
    <3>1. Cardinality(InFlight(z, u))' = Cardinality(InFlight(z, u))
      BY <1>5, <1>6, <1>7, <2>3
    <3>2. faults' = faults \/ faults' = faults + 1
      BY <1>4, <1>2
    <3> QED
      BY <1>3, <2>1, <3>1, <3>2 DEF Known
  <2> QED
    BY <2>2, <2>3
<1> QED
  BY <1>3, <1>7, <1>8, BooksMove

\* The execution is logged, or the log is lost, and the lock is released.
LEMMA LogStep ==
  ASSUME TypeOK, TypeOK', RunsInv, NEW r \in Replicas, NEW s \in Schedules,
         LogRun(r, s)
  PROVE  RunsInv'
<1>1. PICK a \in Runs : a = run[r][s]
  BY DEF TypeOK
<1>2. Coherent(a) /\ a.pc = "log" /\ a.tick \in Ticks
  BY <1>1 DEF RunsInv, Coherent, LogRun
<1>3. /\ UNCHANGED up /\ SetRun(r, s, NoRun)
      /\ \A z \in Schedules, u \in Ticks : Streams(z, u)' = Streams(z, u)
  BY DEF LogRun, Streams
<1>4. /\ NoRun \in Runs /\ Coherent(NoRun) /\ NoRun.pc = "idle"
      /\ \A u \in Ticks : ~Carries(NoRun, u)
  BY IdleRecords DEF NoRun, Coherent, Carries
<1>5. \A u \in Ticks : Carries(a, u) <=> u = a.tick /\ a.ok
  BY <1>2 DEF Carries
<1>6. /\ OneRun' /\ \A q \in Replicas, z \in Schedules : Coherent(run'[q][z])
      /\ \A z \in Schedules, u \in Ticks : z # s \/ ~Carries(a, u) =>
           Cardinality(InFlight(z, u))' = Cardinality(InFlight(z, u))
      /\ \A u \in Ticks : Carries(a, u) =>
           Cardinality(InFlight(s, u))' = Cardinality(InFlight(s, u)) - 1
  <2> HIDE DEF Carries, Coherent, OneRun, RunsInv, TypeOK, SetRun, InFlight, NoRun
  <2> QED
    BY <1>1, <1>3, <1>4, RunMoves
<1>7. PICK e \in {0, 1} :
        /\ succeeded' = [succeeded EXCEPT ![s][a.tick] = @ + e]
        /\ ~a.ok => e = 0 /\ faults' \in {faults, faults + 1}
        /\ a.ok => faults' = faults + (1 - e)
  <2>1. CASE /\ succeeded' = [succeeded EXCEPT ![s][a.tick] = @ + IF a.ok THEN 1 ELSE 0]
             /\ faults' = faults
    <3>1. CASE a.ok
      BY <2>1, <3>1, BoundsAssumption DEF TypeOK
    <3>2. CASE ~a.ok
      BY <2>1, <3>2
    <3> QED
      BY <3>1, <3>2
  <2>2. CASE succeeded' = succeeded /\ faults' = faults + 1
    <3>1. succeeded = [succeeded EXCEPT ![s][a.tick] = @ + 0]
      BY <1>2 DEF TypeOK
    <3> QED
      BY <2>2, <3>1
  <2> QED
    BY <1>1, <2>1, <2>2 DEF LogRun, Fault
<1>8. \A z \in Schedules, u \in Ticks : succeeded'[z][u] =
        IF z = s /\ u = a.tick THEN succeeded[z][u] + e ELSE succeeded[z][u]
  <2>1. succeeded \in [Schedules -> [Ticks -> Nat]] /\ a.tick \in 0..MaxTicks /\ e \in Nat
    BY DEF TypeOK, Runs
  <2> QED
    BY <1>7, <2>1, BookEntry
<1>9. ASSUME NEW z \in Schedules, NEW u \in Ticks
      PROVE  /\ Known(z, u)' - Known(z, u) <= Streams(z, u)' - Streams(z, u)
             /\ Streams(z, u)' - Streams(z, u) <=
                  Known(z, u)' - Known(z, u) + (faults' - faults)
  <2>1. /\ Cardinality(InFlight(z, u)) \in Nat /\ succeeded[z][u] \in Nat
        /\ Streams(z, u) \in Nat /\ faults \in Nat
    BY CountsAreNumbers
  <2>2. CASE z = s /\ u = a.tick /\ a.ok
    <3>1. Cardinality(InFlight(z, u))' = Cardinality(InFlight(z, u)) - 1
      BY <1>5, <1>6, <2>2
    <3>2. succeeded'[z][u] = succeeded[z][u] + e /\ faults' = faults + (1 - e)
      BY <1>7, <1>8, <2>2
    <3>3. Known(z, u)' = Known(z, u) + e - 1
      BY <2>1, <3>1, <3>2 DEF Known
    <3>4. Known(z, u) \in Nat /\ e \in {0, 1} /\ Streams(z, u)' = Streams(z, u)
      BY <1>3, <1>7, <2>1 DEF Known
    <3> QED
      BY <2>1, <3>2, <3>3, <3>4
  <2>3. CASE ~(z = s /\ u = a.tick /\ a.ok)
    <3>1. Cardinality(InFlight(z, u))' = Cardinality(InFlight(z, u))
      BY <1>5, <1>6, <2>3
    <3>2. succeeded'[z][u] = succeeded[z][u] /\ faults' \in {faults, faults + 1}
      BY <1>7, <1>8, <2>1, <2>3
    <3> QED
      BY <1>3, <2>1, <3>1, <3>2 DEF Known
  <2> QED
    BY <2>2, <2>3
<1> QED
  BY <1>3, <1>6, <1>9, BooksMove

\* A replica stops: its executions go on, and a fault has been spent.
LEMMA StopStep ==
  ASSUME TypeOK, RunsInv, NEW r \in Replicas, Stop(r)
  PROVE  RunsInv'
<1>1. /\ UNCHANGED <<run, succeeded>> /\ faults' = faults + 1
      /\ \A z \in Schedules, u \in Ticks : Streams(z, u)' = Streams(z, u)
      /\ Down' = Down \cup {r} /\ r \notin Down
  BY DEF Stop, Fault, Down, TypeOK, bookVars, Streams
<1>2. OneRun' /\ \A q \in Replicas, z \in Schedules : Coherent(run'[q][z])
  BY <1>1 DEF RunsInv, OneRun
<1>3. ASSUME NEW z \in Schedules, NEW u \in Ticks
      PROVE  Balanced(z, u)'
  <2>1. Cardinality(Down)' = Cardinality(Down) + 1
    BY <1>1, CountsAreNumbers, CountMore
  <2>2. Known(z, u)' = Known(z, u)
    BY <1>1 DEF Known, InFlight
  <2>3. Balanced(z, u) /\ Known(z, u) \in Nat
    BY CountsAreNumbers DEF RunsInv, Known
  <2> QED
    BY <1>1, <2>1, <2>2, <2>3, CountsAreNumbers DEF Balanced
<1> QED
  BY <1>2, <1>3 DEF RunsInv

\* A process ends and a new one starts: what the old one carried is lost, which
\* costs a fault, now or when it was stopped.
LEMMA RestartStep ==
  ASSUME TypeOK, RunsInv, NEW r \in Replicas, Restart(r)
  PROVE  RunsInv'
<1>1. /\ UNCHANGED succeeded
      /\ \A z \in Schedules, u \in Ticks : Streams(z, u)' = Streams(z, u)
      /\ \A q \in Replicas, z \in Schedules :
           run'[q][z] = IF q = r THEN NoRun ELSE run[q][z]
      /\ \A q \in Replicas : up'[q] = IF q = r THEN TRUE ELSE up[q]
      /\ \/ ~up[r] /\ faults' = faults
         \/ up[r] /\ faults' = faults + 1
  BY DEF Restart, Fault, TypeOK, bookVars, Streams
<1>2. OneRun' /\ \A q \in Replicas, z \in Schedules : Coherent(run'[q][z])
  BY <1>1 DEF RunsInv, OneRun, Coherent, NoRun
<1>3. ASSUME NEW z \in Schedules, NEW u \in Ticks
      PROVE  Balanced(z, u)'
  <2>1. InFlight(z, u)' = InFlight(z, u) \ {r}
    BY <1>1 DEF InFlight, NoRun
  <2>2. /\ Cardinality(InFlight(z, u)) \in Nat /\ Cardinality(InFlight(z, u))' \in Nat
        /\ Cardinality(InFlight(z, u))' <= Cardinality(InFlight(z, u))
        /\ Cardinality(InFlight(z, u)) - 1 <= Cardinality(InFlight(z, u))'
    <3>1. CASE r \in InFlight(z, u)
      <4>1. Cardinality(InFlight(z, u))' = Cardinality(InFlight(z, u)) - 1
        BY <2>1, <3>1, CountsAreNumbers, CountLess
      <4>2. Cardinality(InFlight(z, u))' \in Nat
        BY <2>1, CountsAreNumbers, CountPart
      <4> QED
        BY <4>1, <4>2, CountsAreNumbers
    <3>2. CASE r \notin InFlight(z, u)
      <4>1. InFlight(z, u)' = InFlight(z, u)
        BY <2>1, <3>2
      <4>2. Cardinality(InFlight(z, u))' = Cardinality(InFlight(z, u))
        BY <4>1
      <4> QED
        BY <4>2, CountsAreNumbers
    <3> QED
      BY <3>1, <3>2
  <2>3. Balanced(z, u) /\ succeeded[z][u] \in Nat /\ Streams(z, u) \in Nat /\ faults \in Nat
        /\ Cardinality(Down) \in Nat
    BY CountsAreNumbers DEF RunsInv
  <2>4. CASE ~up[r]
    <3>1. Down' = Down \ {r} /\ r \in Down
      BY <1>1, <2>4 DEF Down
    <3>2. Cardinality(Down)' = Cardinality(Down) - 1
      BY <3>1, CountsAreNumbers, CountLess
    <3> QED
      BY <1>1, <2>2, <2>3, <2>4, <3>2 DEF Balanced, Known
  <2>5. CASE up[r]
    <3>1. Down' = Down
      BY <1>1, <2>5 DEF Down
    <3>2. Cardinality(Down)' = Cardinality(Down)
      BY <3>1
    <3> QED
      BY <1>1, <2>2, <2>3, <2>5, <3>2 DEF Balanced, Known
  <2> QED
    BY <2>4, <2>5
<1> QED
  BY <1>2, <1>3 DEF RunsInv

\* Every step keeps the books of the executions.
LEMMA RunsStep ==
  ASSUME TypeOK, TypeOK', RunsInv, [Next]_vars
  PROVE  RunsInv'
<1>1. CASE UNCHANGED vars
  BY <1>1, RunsStill DEF vars, bookVars
<1>2. ASSUME NEW r \in Replicas, NEW k \in Slots, RefreshStep(r, k)
      PROVE  RunsInv'
  <2>1. UNCHANGED <<run, up, bookVars>>
    BY <1>2 DEF RefreshStep, Dequeue, ExecuteOverride, CompleteOverride, FailOverride,
                ReadSchedules, ApplySchedules, jobVars
  <2>2. faults' = faults \/ faults' = faults + 1
    BY <1>2 DEF RefreshStep, Dequeue, ExecuteOverride, CompleteOverride, FailOverride,
                ReadSchedules, ApplySchedules, Fault
  <2> QED
    BY <2>1, <2>2, RunsStill
<1>3. ASSUME NEW r \in Replicas, NEW s \in Schedules, RunStep(r, s)
      PROVE  RunsInv'
  BY <1>3, FireStep, CreateStep, UpdateStep, LogStep DEF RunStep
<1>4. CASE \/ \E s \in Schedules, cron \in Crons \cup {NoJob} : EditSchedule(s, cron)
           \/ \E o \in Overrides : QueueOverride(o)
           \/ \E s \in Schedules : Tick(s)
  <2>1. UNCHANGED <<run, up, bookVars>> /\ faults' = faults
    BY <1>4 DEF EditSchedule, QueueOverride, Tick, jobVars
  <2> QED
    BY <2>1, RunsStill
<1>5. CASE \E r \in Replicas : Stop(r) \/ Restart(r)
  BY <1>5, StopStep, RestartStep
<1> QED
  BY <1>1, <1>2, <1>3, <1>4, <1>5 DEF Next

\* No execution has begun.
LEMMA RunsInit == Init => RunsInv
<1> SUFFICES ASSUME Init PROVE RunsInv
  OBVIOUS
<1>1. OneRun /\ \A r \in Replicas, s \in Schedules : Coherent(run[r][s])
  BY DEF Init, OneRun, Coherent, NoRun
<1>2. ASSUME NEW s \in Schedules, NEW t \in Ticks
      PROVE  Balanced(s, t)
  <2>1. InFlight(s, t) = {} /\ Down = {}
    BY DEF Init, InFlight, Down, NoRun
  <2>2. Streams(s, t) = 0 /\ succeeded[s][t] = 0 /\ faults = 0
    BY DEF Init, Streams
  <2> QED
    BY <2>1, <2>2, FS_EmptySet DEF Balanced, Known
<1> QED
  BY <1>1, <1>2 DEF RunsInv

\* Where every replica has the addresses of the contracts, nothing is simulated.
Real == Unconfigured = {} => \A s \in Schedules, t \in Ticks : simulated[s][t] = 0

LEMMA RealStep ==
  ASSUME Real, [Next]_vars
  PROVE  Real'
<1> SUFFICES ASSUME Unconfigured = {} PROVE UNCHANGED simulated
  BY DEF Real
<1>1. ASSUME NEW r \in Replicas, NEW s \in Schedules, RunStep(r, s)
      PROVE  UNCHANGED simulated
  BY <1>1 DEF RunStep, Fire, CreateStream, UpdateSchedule, LogRun, bookVars
<1>2. ASSUME NEW r \in Replicas, NEW k \in Slots, RefreshStep(r, k)
      PROVE  UNCHANGED simulated
  BY <1>2 DEF RefreshStep, Dequeue, ExecuteOverride, CompleteOverride, FailOverride,
              ReadSchedules, ApplySchedules, bookVars
<1>3. ASSUME \/ \E s \in Schedules, cron \in Crons \cup {NoJob} : EditSchedule(s, cron)
             \/ \E o \in Overrides : QueueOverride(o)
             \/ \E s \in Schedules : Tick(s)
             \/ \E r \in Replicas : Stop(r) \/ Restart(r)
             \/ UNCHANGED vars
      PROVE  UNCHANGED simulated
  BY <1>3 DEF EditSchedule, QueueOverride, Tick, Stop, Restart, vars, bookVars
<1> QED
  BY <1>1, <1>2, <1>3 DEF Next

\* With any replicas, lost answers, failed statements, crashes and shutdowns, the
\* log claims no payment that was not made or, in a replica without the contract
\* addresses, simulated, and misses no more of them than there were faults; where
\* every replica has the addresses it claims none that was not made
\* (scheduler.ts:153-156, 256-378).
THEOREM RunsTheorem == Spec => []RunsAccounted
<1>1. Init => RunsInv
  BY RunsInit
<1>2. TypeOK /\ TypeOK' /\ RunsInv /\ [Next]_vars => RunsInv'
  BY RunsStep
<1>3. Init => Real
  BY DEF Init, Real
<1>4. Real /\ [Next]_vars => Real'
  BY RealStep
<1>5. TypeOK /\ RunsInv /\ Real => RunsAccounted
  <2> SUFFICES ASSUME TypeOK, RunsInv, Real, NEW s \in Schedules, NEW t \in Ticks
               PROVE  /\ Known(s, t) <= Streams(s, t)
                      /\ Streams(s, t) <= Known(s, t) + faults
                      /\ Unconfigured = {} => Known(s, t) <= paid[s][t]
    BY DEF RunsAccounted, Known
  <2>1. Balanced(s, t)
    BY DEF RunsInv
  <2>2. Unconfigured = {} => Streams(s, t) = paid[s][t]
    BY DEF Real, Streams, TypeOK
  <2> QED
    BY <2>1, <2>2, CountsAreNumbers DEF Balanced, Known
<1> QED
  BY <1>1, <1>2, <1>3, <1>4, <1>5, TypeCorrect, PTL DEF Spec

-----------------------------------------------------------------------------
(* What a fault leaves in 'processing'. *)

\* What makes StrandedByFault inductive: a refresh past its overrides has none
\* left to execute, and a process that ends without a fault was stopped, by one.
StrandedInv ==
  /\ faults = 0 => \A r \in Replicas : up[r]
  /\ \A r \in Replicas, k \in Slots :
       refresh[r][k].pc \in {"idle", "apply"} => Todo(r, k) = <<>>
  /\ StrandedByFault

InBatch(o, todo) == \E n \in DOMAIN todo : todo[n] = o

\* A step of one refresh: it is enough that what it takes out of its batch is no
\* longer in 'processing', unless the step is a fault.
LEMMA BatchMoves ==
  ASSUME TypeOK, StrandedInv, UNCHANGED up,
         NEW r \in Replicas, NEW k \in Slots, NEW rec \in Refreshes, SetRefresh(r, k, rec),
         rec.pc \in {"idle", "apply"} => rec.todo = <<>>,
         \/ faults' = faults + 1
         \/ /\ faults' = faults
            /\ \A o \in Overrides : override'[o] = "processing" =>
                 \/ InBatch(o, rec.todo)
                 \/ override[o] = "processing" /\ ~InBatch(o, Todo(r, k))
  PROVE  StrandedInv'
<1>1. /\ refresh'[r][k] = rec
      /\ \A q \in Replicas, j \in Slots : q # r \/ j # k => refresh'[q][j] = refresh[q][j]
  BY SetRefreshEffect
<1>2. faults \in Nat /\ (faults' = 0 => faults = 0 /\ faults' = faults)
  BY BoundsAssumption DEF TypeOK
<1>3. faults' = 0 => \A q \in Replicas : up'[q]
  BY <1>2 DEF StrandedInv
<1>4. ASSUME NEW q \in Replicas, NEW j \in Slots, refresh'[q][j].pc \in {"idle", "apply"}
      PROVE  Todo(q, j)' = <<>>
  BY <1>1, <1>4 DEF StrandedInv, Todo
<1>5. ASSUME faults' = 0, NEW o \in Overrides, override'[o] = "processing"
      PROVE  \E q \in Replicas, j \in Slots : InBatch(o, Todo(q, j))'
  <2>1. CASE InBatch(o, rec.todo)
    BY <1>1, <2>1 DEF Todo
  <2>2. CASE override[o] = "processing" /\ ~InBatch(o, Todo(r, k))
    <3>1. PICK q \in Replicas, j \in Slots : InBatch(o, Todo(q, j))
      BY <1>2, <1>5, <2>2 DEF StrandedInv, StrandedByFault, InBatch
    <3>2. q # r \/ j # k
      BY <2>2, <3>1
    <3>3. Todo(q, j)' = Todo(q, j)
      BY <1>1, <3>2 DEF Todo
    <3> QED
      BY <3>1, <3>3
  <2> QED
    BY <1>2, <1>5, <2>1, <2>2
<1>6. StrandedByFault'
  BY <1>5 DEF StrandedByFault, InBatch
<1> QED
  BY <1>3, <1>4, <1>6 DEF StrandedInv

\* A refresh takes rows, executes and settles them, and goes on to the schedules.
LEMMA StrandedRefreshStep ==
  ASSUME IInv, StrandedInv, NEW r \in Replicas, NEW k \in Slots, RefreshStep(r, k)
  PROVE  StrandedInv'
<1>0. TypeOK /\ refresh[r][k] \in Refreshes /\ Todo(r, k) \in Seq(Overrides)
  BY DEF IInv, TypeOK, Refreshes, Todo
<1>1. /\ NoRefresh \in Refreshes /\ NoRefresh.todo = <<>>
      /\ [NoRefresh EXCEPT !.pc = "create"] \in Refreshes
      /\ [NoRefresh EXCEPT !.pc = "create"].pc = "create"
  BY IdleRecords, RefreshRecords DEF NoRefresh
<1>2. \A o \in Overrides : ~InBatch(o, <<>>)
  BY DEF InBatch
<1>3. ASSUME NEW rec \in Refreshes, SetRefresh(r, k, rec), UNCHANGED <<up, override>>,
             rec.pc \in {"idle", "apply"} => rec.todo = <<>>, rec.todo = Todo(r, k),
             faults' \in {faults, faults + 1}
      PROVE  StrandedInv'
  <2>1. faults' = faults => \A o \in Overrides : override'[o] = "processing" =>
          InBatch(o, rec.todo) \/ (override[o] = "processing" /\ ~InBatch(o, Todo(r, k)))
    <3>1. \A o \in Overrides : InBatch(o, rec.todo) <=> InBatch(o, Todo(r, k))
      BY <1>3
    <3> QED
      BY <1>3, <3>1
  <2> QED
    BY <1>0, <1>3, <2>1, BatchMoves
<1>4. ASSUME NEW st \in {"completed", "failed"},
             refresh[r][k].pc \in {"complete", "fail"},
             override' = [override EXCEPT ![Head(Todo(r, k))] = st],
             OverrideDone(r, k), UNCHANGED <<up, faults>>
      PROVE  StrandedInv'
  <2> DEFINE rec == [refresh[r][k] EXCEPT !.pc = "create", !.todo = Tail(@)]
  <2>1. Todo(r, k) # <<>>
    BY <1>4 DEF IInv, OverrideInv, Claimed
  <2>2. rec \in Refreshes /\ rec.pc = "create" /\ rec.todo = Tail(Todo(r, k))
    BY <1>0, <2>1, RefreshRecords DEF Refreshes, Todo
  <2>3. SetRefresh(r, k, rec)
    BY <1>4 DEF OverrideDone
  <2>4. PICK h \in Overrides : h = Head(Todo(r, k))
    BY <1>0, <2>1, RestOfBatch
  <2>5. override'[h] = st /\ \A o \in Overrides \ {h} : override'[o] = override[o]
    BY <1>0, <1>4, <2>4 DEF TypeOK
  <2>6. \A o \in Overrides : o # h /\ InBatch(o, Todo(r, k)) => InBatch(o, rec.todo)
    <3> SUFFICES ASSUME NEW o \in Overrides, o # h,
                        NEW n \in DOMAIN Todo(r, k), Todo(r, k)[n] = o
                 PROVE  InBatch(o, rec.todo)
      BY DEF InBatch
    <3> QED
      BY <1>0, <2>2, <2>4, RestKeeps DEF InBatch
  <2>7. \A o \in Overrides : override'[o] = "processing" =>
          InBatch(o, rec.todo) \/ (override[o] = "processing" /\ ~InBatch(o, Todo(r, k)))
    <3>1. override'[h] # "processing"
      BY <2>5
    <3> HIDE DEF rec
    <3> QED
      BY <2>5, <2>6, <3>1
  <2> HIDE DEF rec
  <2> QED
    BY <1>0, <1>4, <2>2, <2>3, <2>7, BatchMoves
<1>5. CASE Dequeue(r, k)
  <2> DEFINE taken(batch) == [NoRefresh EXCEPT !.pc = "create", !.todo = SetToSeq(batch)]
  <2>1. PICK batch \in SUBSET {o \in Overrides : override[o] = "pending"} :
          /\ override' = [o \in Overrides |->
                            IF o \in batch THEN "processing" ELSE override[o]]
          /\ SetRefresh(r, k, taken(batch))
    BY <1>5 DEF Dequeue
  <2>2. PICK rec : rec = taken(batch)
    OBVIOUS
  <2>3. IsFiniteSet(batch) /\ SetToSeq(batch) \in Seq(Overrides)
    BY FiniteAssumption, FS_Subset, SetToSeqIsListing, SeqMonotonic
  <2>4. rec \in Refreshes /\ rec.pc = "create" /\ rec.todo = SetToSeq(batch)
    BY <2>2, <2>3 DEF NoRefresh, Refreshes
  <2>5. \A o \in batch : InBatch(o, rec.todo)
    BY <2>3, <2>4, ListingOfAll DEF InBatch
  <2>6. Todo(r, k) = <<>> /\ UNCHANGED <<up, faults>>
    BY <1>5 DEF Dequeue, StrandedInv
  <2>7. \A o \in Overrides : override'[o] = "processing" =>
          InBatch(o, rec.todo) \/ (override[o] = "processing" /\ ~InBatch(o, Todo(r, k)))
    BY <1>2, <2>1, <2>5, <2>6
  <2>8. SetRefresh(r, k, rec)
    BY <2>1, <2>2
  <2> QED
    BY <1>0, <2>4, <2>6, <2>7, <2>8, BatchMoves
<1>6. CASE ExecuteOverride(r, k)
  <2>1. PICK p \in {"complete", "fail"} :
          SetRefresh(r, k, [refresh[r][k] EXCEPT !.pc = p])
    BY <1>6 DEF ExecuteOverride
  <2>2. PICK rec \in Refreshes : rec = [refresh[r][k] EXCEPT !.pc = p]
    BY <1>0, RefreshRecords
  <2>3. rec.pc = p /\ rec.todo = Todo(r, k)
    BY <1>0, <2>2 DEF Refreshes, Todo
  <2>4. UNCHANGED <<up, override>> /\ faults' \in {faults, faults + 1}
    BY <1>6 DEF ExecuteOverride, Fault
  <2> QED
    BY <1>3, <2>1, <2>2, <2>3, <2>4
<1>7. CASE CompleteOverride(r, k)
  <2>1. CASE OverrideDone(r, k) /\ faults' = faults
             /\ override' = [override EXCEPT ![Head(Todo(r, k))] = "completed"]
    BY <1>4, <1>7, <2>1 DEF CompleteOverride
  <2>2. CASE SetRefresh(r, k, [refresh[r][k] EXCEPT !.pc = "fail"])
             /\ override' = override /\ faults' = faults + 1
    <3>1. PICK rec \in Refreshes : rec = [refresh[r][k] EXCEPT !.pc = "fail"]
      BY <1>0, RefreshRecords
    <3>2. rec.pc = "fail" /\ rec.todo = Todo(r, k)
      BY <1>0, <3>1 DEF Refreshes, Todo
    <3>3. UNCHANGED <<up, override>> /\ SetRefresh(r, k, rec)
      BY <1>7, <2>2, <3>1 DEF CompleteOverride
    <3> QED
      BY <1>3, <2>2, <3>2, <3>3
  <2> QED
    BY <1>7, <2>1, <2>2 DEF CompleteOverride, Fault
<1>8. CASE FailOverride(r, k)
  <2>1. CASE OverrideDone(r, k) /\ faults' = faults
             /\ override' = [override EXCEPT ![Head(Todo(r, k))] = "failed"]
    BY <1>4, <1>8, <2>1 DEF FailOverride
  <2>2. CASE SetRefresh(r, k, [NoRefresh EXCEPT !.pc = "create"]) /\ faults' = faults + 1
    <3>1. PICK rec \in Refreshes : rec = [NoRefresh EXCEPT !.pc = "create"]
      BY <1>1
    <3>2. rec.pc = "create" /\ UNCHANGED up /\ SetRefresh(r, k, rec)
      BY <1>1, <1>8, <2>2, <3>1 DEF FailOverride
    <3> QED
      BY <1>0, <2>2, <3>1, <3>2, BatchMoves
  <2> QED
    BY <1>8, <2>1, <2>2 DEF FailOverride, Fault
<1>9. CASE ReadSchedules(r, k)
  <2> DEFINE read == [NoRefresh EXCEPT !.pc = "apply", !.list = rows]
  <2>1. read \in Refreshes /\ read.todo = <<>>
    BY IdleRecords DEF Refreshes, NoRefresh, IInv, TypeOK
  <2>2. PICK rec \in {read, NoRefresh} : SetRefresh(r, k, rec)
    BY <1>9 DEF ReadSchedules
  <2>3. rec \in Refreshes /\ rec.todo = <<>>
    BY <1>1, <2>1, <2>2
  <2>4. Todo(r, k) = <<>> /\ UNCHANGED <<up, override>> /\ faults' \in {faults, faults + 1}
    BY <1>9 DEF ReadSchedules, Fault, overrideVars
  <2> QED
    BY <1>3, <2>2, <2>3, <2>4
<1>10. CASE ApplySchedules(r, k)
  <2>1. Todo(r, k) = <<>>
    BY <1>10 DEF ApplySchedules, StrandedInv
  <2>2. UNCHANGED <<up, override>> /\ faults' = faults /\ SetRefresh(r, k, NoRefresh)
    BY <1>10 DEF ApplySchedules, overrideVars
  <2> QED
    BY <1>1, <1>3, <2>1, <2>2
<1> QED
  BY <1>5, <1>6, <1>7, <1>8, <1>9, <1>10 DEF RefreshStep

\* So does everything else.
LEMMA StrandedOtherStep ==
  ASSUME TypeOK, StrandedInv,
         \/ UNCHANGED <<refresh, up, override, faults>>
         \/ UNCHANGED <<refresh, up, override>> /\ faults' = faults + 1
         \/ \E o \in Overrides : QueueOverride(o)
         \/ \E r \in Replicas : Stop(r) \/ Restart(r)
  PROVE  StrandedInv'
<1>0. faults \in Nat
  BY BoundsAssumption DEF TypeOK
<1>1. CASE UNCHANGED <<refresh, up, override>> /\ faults' \in {faults, faults + 1}
  BY <1>0, <1>1 DEF StrandedInv, StrandedByFault, Todo
<1>2. ASSUME NEW o \in Overrides, QueueOverride(o)
      PROVE  StrandedInv'
  <2>1. UNCHANGED <<refresh, up, faults>>
    BY <1>2 DEF QueueOverride
  <2>2. \A p \in Overrides : override'[p] = "processing" => override[p] = "processing"
    BY <1>2 DEF QueueOverride, TypeOK
  <2> QED
    BY <2>1, <2>2 DEF StrandedInv, StrandedByFault, Todo
<1>3. ASSUME NEW r \in Replicas, Stop(r)
      PROVE  StrandedInv'
  <2>1. faults' # 0 /\ refresh' = refresh
    BY <1>0, <1>3 DEF Stop, Fault
  <2> QED
    BY <2>1 DEF StrandedInv, StrandedByFault, Todo
<1>4. ASSUME NEW r \in Replicas, Restart(r)
      PROVE  StrandedInv'
  <2>1. faults' # 0
    BY <1>0, <1>4 DEF Restart, Fault, StrandedInv
  <2>2. \A q \in Replicas, j \in Slots :
          refresh'[q][j] = refresh[q][j] \/ refresh'[q][j] = NoRefresh
    BY <1>4 DEF Restart, TypeOK
  <2>3. NoRefresh.todo = <<>>
    BY DEF NoRefresh
  <2> QED
    BY <2>1, <2>2, <2>3 DEF StrandedInv, StrandedByFault, Todo
<1> QED
  BY <1>1, <1>2, <1>3, <1>4

\* Nothing is in 'processing'.
LEMMA StrandedInit == Init => StrandedInv
BY DEF Init, StrandedInv, StrandedByFault, Todo, NoRefresh

\* Every step keeps the overrides in 'processing' with a refresh, up to the first
\* fault.
LEMMA StrandedStep ==
  ASSUME IInv, StrandedInv, [Next]_vars
  PROVE  StrandedInv'
<1>0. TypeOK
  BY DEF IInv
<1>1. CASE UNCHANGED vars
  BY <1>0, <1>1, StrandedOtherStep DEF vars
<1>2. ASSUME NEW r \in Replicas, NEW s \in Schedules, RunStep(r, s)
      PROVE  StrandedInv'
  <2>1. UNCHANGED <<refresh, up, override>> /\ (faults' = faults \/ faults' = faults + 1)
    BY <1>2 DEF RunStep, Fire, CreateStream, UpdateSchedule, LogRun, Fault, overrideVars
  <2> QED
    BY <1>0, <2>1, StrandedOtherStep
<1>3. CASE \/ \E s \in Schedules, cron \in Crons \cup {NoJob} : EditSchedule(s, cron)
           \/ \E s \in Schedules : Tick(s)
  <2>1. UNCHANGED <<refresh, up, override, faults>>
    BY <1>3 DEF EditSchedule, Tick, overrideVars
  <2> QED
    BY <1>0, <2>1, StrandedOtherStep
<1>4. CASE \/ \E o \in Overrides : QueueOverride(o)
           \/ \E r \in Replicas : Stop(r) \/ Restart(r)
  BY <1>0, <1>4, StrandedOtherStep
<1> QED
  BY <1>1, <1>2, <1>3, <1>4, StrandedRefreshStep DEF Next

\* As long as nothing fails, no process ends and none is stopped, every override
\* marked 'processing' is in the batch of a refresh, however many refreshes
\* overlap in however many replicas (queries.ts:1982-2003, scheduler.ts:634-711).
THEOREM StrandedTheorem == Spec => []StrandedByFault
<1>1. Init => StrandedInv
  BY StrandedInit
<1>2. IInv /\ StrandedInv /\ [Next]_vars => StrandedInv'
  BY StrandedStep
<1>3. StrandedInv => StrandedByFault
  BY DEF StrandedInv
<1> QED
  BY <1>1, <1>2, <1>3, InductiveInvariant, PTL DEF Spec

-----------------------------------------------------------------------------
(* OverridePromise. *)

\* A refresh moves an order as it was promised, or no order at all.
LEMMA OrderedRefresh ==
  ASSUME IInv, NEW r \in Replicas, NEW k \in Slots, RefreshStep(r, k)
  PROVE  Ordered!OrderNext \/ UNCHANGED overrideVars
<1>1. CASE Dequeue(r, k)
  <2>1. PICK batch \in SUBSET {o \in Overrides : override[o] = "pending"} :
          /\ Cardinality(batch) <= OverrideBatch
          /\ override' = [o \in Overrides |->
                            IF o \in batch THEN "processing" ELSE override[o]]
    BY <1>1 DEF Dequeue
  <2>2. Ordered!Cardinality(batch) = Cardinality(batch)
    BY DEF Cardinality, Ordered!Cardinality
  <2>3. batch \in SUBSET Overrides /\ Ordered!Takes(batch)
    BY <1>1, <2>1, <2>2 DEF Dequeue, Ordered!Takes
  <2> QED
    BY <2>3 DEF Ordered!OrderNext
<1>2. CASE ExecuteOverride(r, k)
  <2>1. PICK h \in Overrides :
          h = Head(Todo(r, k)) /\ Holds(r, k, 1, h) /\ override[h] = "processing"
    BY <1>2, HeadOfBatch DEF ExecuteOverride
  <2>2. made[h] = 0 /\ simulatedFor[h] = 0
    <3>1. StreamsFor(h) = 0
      BY <1>2, <2>1 DEF IInv, OverrideInv, Claimed, ExecuteOverride
    <3>2. made[h] \in Nat /\ simulatedFor[h] \in Nat
      BY DEF IInv, TypeOK
    <3> QED
      BY <3>1, <3>2 DEF StreamsFor
  <2>3. override' = override /\
        \/ UNCHANGED <<made, simulatedFor>>
        \/ made' = [made EXCEPT ![h] = @ + 1] /\ simulatedFor' = simulatedFor
        \/ /\ Unconfigured # {} /\ made' = made
           /\ simulatedFor' = [simulatedFor EXCEPT ![h] = @ + 1]
    BY <1>2, <2>1 DEF ExecuteOverride
  <2>4. \/ UNCHANGED <<made, simulatedFor>>
        \/ made' = [made EXCEPT ![h] = 1] /\ simulatedFor' = simulatedFor
        \/ /\ Unconfigured # {} /\ made' = made
           /\ simulatedFor' = [simulatedFor EXCEPT ![h] = 1]
    BY <2>2, <2>3
  <2>5. Ordered!Unpaid(h)
    BY <2>1, <2>2 DEF Ordered!Unpaid
  <2>6. Ordered!Pays(h) \/ Ordered!Pretends(h) \/ UNCHANGED overrideVars
    BY <2>3, <2>4, <2>5 DEF Ordered!Pays, Ordered!Pretends, overrideVars
  <2> QED
    BY <2>1, <2>6 DEF Ordered!OrderNext
<1>3. CASE CompleteOverride(r, k)
  <2>1. Todo(r, k) # <<>> /\ refresh[r][k].pc = "complete"
    BY <1>3 DEF CompleteOverride, IInv, OverrideInv, Claimed
  <2>2. PICK h \in Overrides :
          h = Head(Todo(r, k)) /\ Holds(r, k, 1, h) /\ override[h] = "processing"
    BY <2>1, HeadOfBatch
  <2>3. made[h] + simulatedFor[h] = 1
    BY <2>1, <2>2 DEF IInv, OverrideInv, Claimed, StreamsFor
  <2>4. /\ UNCHANGED <<made, simulatedFor>>
        /\ override' = override \/ override' = [override EXCEPT ![h] = "completed"]
    BY <1>3, <2>2 DEF CompleteOverride
  <2> QED
    BY <2>2, <2>3, <2>4 DEF Ordered!OrderNext, Ordered!Completes, Ordered!Turns,
                            overrideVars
<1>4. CASE FailOverride(r, k)
  <2>1. Todo(r, k) # <<>>
    BY <1>4 DEF FailOverride, IInv, OverrideInv, Claimed
  <2>2. PICK h \in Overrides : h = Head(Todo(r, k)) /\ override[h] = "processing"
    BY <2>1, HeadOfBatch
  <2>3. /\ UNCHANGED <<made, simulatedFor>>
        /\ override' = override \/ override' = [override EXCEPT ![h] = "failed"]
    BY <1>4, <2>2 DEF FailOverride
  <2> QED
    BY <2>2, <2>3 DEF Ordered!OrderNext, Ordered!Fails, Ordered!Turns, overrideVars
<1>5. CASE ReadSchedules(r, k) \/ ApplySchedules(r, k)
  BY <1>5 DEF ReadSchedules, ApplySchedules
<1> QED
  BY <1>1, <1>2, <1>3, <1>4, <1>5 DEF RefreshStep

\* So does every other step.
LEMMA OrderedStep ==
  ASSUME IInv, [Next]_vars
  PROVE  [Ordered!OrderNext]_(Ordered!orderVars)
<1>1. ASSUME NEW o \in Overrides, QueueOverride(o)
      PROVE  Ordered!OrderNext
  BY <1>1 DEF QueueOverride, Ordered!OrderNext, Ordered!Queues, Ordered!Turns
<1>2. ASSUME NEW r \in Replicas, NEW s \in Schedules, RunStep(r, s)
      PROVE  UNCHANGED overrideVars
  BY <1>2 DEF RunStep, Fire, CreateStream, UpdateSchedule, LogRun
<1>3. ASSUME NEW r \in Replicas, Stop(r) \/ Restart(r)
      PROVE  UNCHANGED overrideVars
  BY <1>3 DEF Stop, Restart
<1>4. ASSUME \/ \E s \in Schedules, cron \in Crons \cup {NoJob} : EditSchedule(s, cron)
             \/ \E s \in Schedules : Tick(s)
             \/ UNCHANGED vars
      PROVE  UNCHANGED overrideVars
  BY <1>4 DEF EditSchedule, Tick, vars, overrideVars
<1>5. Ordered!OrderNext \/ UNCHANGED overrideVars
  BY <1>1, <1>2, <1>3, <1>4, OrderedRefresh DEF Next
<1> QED
  BY <1>5 DEF overrideVars, Ordered!orderVars

\* For any replicas, overlapping refreshes, faults and restarts: the queue of
\* overrides is the one OverridePromise describes.  A stranded order is never taken
\* again, a closed one never reopened, only an order that is being executed pays, and
\* one completes only when it has paid or some replica simulates (queries.ts:1982-2043, scheduler.ts:153-156,
\* 634-711).
THEOREM OrdersKept == Spec => KeepsOrders
<1>1. Init => Ordered!OrderInit
  BY DEF Init, Ordered!OrderInit
<1>2. IInv /\ [Next]_vars => [Ordered!OrderNext]_(Ordered!orderVars)
  BY OrderedStep
<1> QED
  BY <1>1, <1>2, InductiveInvariant, PTL DEF Spec, KeepsOrders, Ordered!OrderSpec
=============================================================================
