-------------------------------- MODULE Notices --------------------------------
(* A worker's notices (src/scheduler/scheduler.ts) and her preferences         *)
(* (src/routes/payslips.ts): checkers that cron starts in every process look   *)
(* at her stream, read her preferences and send; a PATCH of the preferences    *)
(* reads the row, merges the body into it and writes the row as a whole.  The  *)
(* checkers only look at workers who have a treasury balance of their own;     *)
(* this one has, and one stream that every kind of notice is due for.          *)
EXTENDS Integers, FiniteSets

CONSTANTS
  NoticeReplicas,   \* processes
  NoticeKinds,      \* "cliff_unlock", "stream_ending", "low_runway"
  NoticeChecks,     \* runs of a checker that may be under way at once
  NoticePatches,    \* PATCH requests
  MaxNoticeFaults,  \* bound on failed statements and crashes
  Nowhere           \* the process of no run

ASSUME NoticeAssumption ==
  /\ Nowhere \notin NoticeReplicas /\ "low_runway" \in NoticeKinds
  /\ MaxNoticeFaults \in Nat

VARIABLES
  noticePrefs,      \* worker_notification_settings: kinds on, or the empty set of rows
  noticePatch,      \* a request: step, its body, the row it read
  noticeAsked,      \* history: kinds the worker has not turned off, by answered requests
  noticeLost,       \* history: kinds last asked for by requests that overlapped
  noticeCheck,      \* a run: step, process, kind, and kinds asked for when it read
  noticeKeys,       \* notified...Keys of a process
  noticeClosed,     \* processes that are shutting down and whose pool is gone
  noticeFaults

noticeVars == <<noticePrefs, noticePatch, noticeAsked, noticeLost, noticeCheck, noticeKeys,
                noticeClosed, noticeFaults>>
noticePatchVars == <<noticePrefs, noticePatch, noticeAsked, noticeLost>>

IdlePatch == [pc |-> "idle", on |-> {}, off |-> {}, row |-> {}, alone |-> TRUE]
IdleCheck == [pc |-> "idle", at |-> Nowhere, kind |-> "low_runway", asked |-> {},
              blind |-> FALSE]

NoticeTypeOK ==
  /\ noticePrefs \in SUBSET SUBSET NoticeKinds /\ Cardinality(noticePrefs) <= 1
  /\ noticePatch \in [NoticePatches -> [pc : {"idle", "write", "answered"},
       on : SUBSET NoticeKinds, off : SUBSET NoticeKinds,
       row : SUBSET SUBSET NoticeKinds, alone : BOOLEAN]]
  /\ noticeAsked \in SUBSET NoticeKinds /\ noticeLost \in SUBSET NoticeKinds
  /\ noticeCheck \in [NoticeChecks -> [pc : {"idle", "prefs", "send"},
       at : NoticeReplicas \cup {Nowhere}, kind : NoticeKinds, asked : SUBSET NoticeKinds,
       blind : BOOLEAN]]
  /\ noticeKeys \in [NoticeReplicas -> SUBSET NoticeKinds]
  /\ noticeClosed \subseteq NoticeReplicas
  /\ noticeFaults \in 0..MaxNoticeFaults

NoticeInit ==
  /\ noticePrefs = {} /\ noticeAsked = NoticeKinds /\ noticeLost = {}
  /\ noticePatch = [r \in NoticePatches |-> IdlePatch]
  /\ noticeCheck = [c \in NoticeChecks |-> IdleCheck]
  /\ noticeKeys = [p \in NoticeReplicas |-> {}]
  /\ noticeClosed = {} /\ noticeFaults = 0

NoticeFault == noticeFaults < MaxNoticeFaults /\ noticeFaults' = noticeFaults + 1

\* Every kind is on until there is a row.
KindsOn(row) == IF row = {} THEN NoticeKinds ELSE CHOOSE on \in row : TRUE

-----------------------------------------------------------------------------
(* PATCH /api/workers/:address/notifications *)

\* The body names some kinds, and the row is read to merge it into.
PatchReads(r, on, off) ==
  /\ noticePatch[r].pc = "idle" /\ on \cap off = {} /\ on \cup off # {}
  /\ noticePatch' = [q \in NoticePatches |->
       IF q = r
       THEN [pc |-> "write", on |-> on, off |-> off, row |-> noticePrefs,
             alone |-> \A o \in NoticePatches : noticePatch[o].pc # "write"]
       ELSE IF noticePatch[q].pc = "write" THEN [noticePatch[q] EXCEPT !.alone = FALSE]
       ELSE noticePatch[q]]
  /\ UNCHANGED <<noticePrefs, noticeAsked, noticeLost, noticeCheck, noticeKeys, noticeClosed,
                 noticeFaults>>

\* Mutation of Merged: what the body leaves out is merged from the defaults.
MergedFromDefaults(patch) == (NoticeKinds \ patch.off) \cup patch.on
Merged(patch) == (KindsOn(patch.row) \ patch.off) \cup patch.on

\* upsertWorkerNotificationSettings writes every column.  An overlapped request
\* may have put back any kind, its own or another's.
PatchWrites(r) ==
  LET patch == noticePatch[r] IN
  /\ patch.pc = "write"
  /\ noticePrefs' = {Merged(patch)}
  /\ noticeAsked' = (noticeAsked \ patch.off) \cup patch.on
  /\ noticeLost' = IF patch.alone THEN noticeLost \ (patch.on \cup patch.off) ELSE NoticeKinds
  /\ noticePatch' = [noticePatch EXCEPT ![r] = [IdlePatch EXCEPT !.pc = "answered"]]
  /\ UNCHANGED <<noticeCheck, noticeKeys, noticeClosed, noticeFaults>>

\* 500 or a crash: nothing is written, or the row is and the answer was lost.
PatchFails(r) ==
  LET patch == noticePatch[r] IN
  /\ patch.pc = "write" /\ NoticeFault
  /\ noticePatch' = [noticePatch EXCEPT ![r] = [IdlePatch EXCEPT !.pc = "answered"]]
  /\ \/ UNCHANGED <<noticePrefs, noticeAsked, noticeLost>>
     \/ /\ noticePrefs' = {Merged(patch)}
        /\ noticeAsked' = noticeAsked \cup patch.on
        /\ noticeLost' = IF patch.alone THEN noticeLost ELSE NoticeKinds
  /\ UNCHANGED <<noticeCheck, noticeKeys, noticeClosed>>

-----------------------------------------------------------------------------
(* runCliffUnlockChecker, runStreamEndingChecker and runLowRunwayAlerter *)

\* cron starts a run, though the last one may not be over.  The balances and
\* streams have been read; only the runway's alerter looks at its keys by now.
CheckStarts(c, p, kind) ==
  /\ noticeCheck[c].pc = "idle" /\ p \notin noticeClosed
  /\ kind = "low_runway" => kind \notin noticeKeys[p]
  /\ noticeCheck' = [noticeCheck EXCEPT ![c] =
       [IdleCheck EXCEPT !.pc = "prefs", !.at = p, !.kind = kind]]
  /\ UNCHANGED <<noticePatchVars, noticeKeys, noticeClosed, noticeFaults>>

\* getWorkerNotificationSettings, which finds no row once the pool is gone: a
\* notice is sent unless its kind is off, or, for the other two, its key is
\* known.  The alerter notes its key either way.
CheckReadsPrefs(c) ==
  LET check == noticeCheck[c]
      runway == check.kind = "low_runway"
      blind == check.at \in noticeClosed
      goes == /\ check.kind \in KindsOn(IF blind THEN {} ELSE noticePrefs)
              /\ runway \/ check.kind \notin noticeKeys[check.at]
  IN /\ check.pc = "prefs"
     /\ noticeCheck' = [noticeCheck EXCEPT ![c] =
          IF goes
          THEN [check EXCEPT !.pc = "send", !.asked = noticeAsked \cup noticeLost,
                             !.blind = blind]
          ELSE IdleCheck]
     /\ noticeKeys' = IF runway /\ ~goes
                      THEN [noticeKeys EXCEPT ![check.at] = @ \cup {"low_runway"}]
                      ELSE noticeKeys
     /\ UNCHANGED <<noticePatchVars, noticeClosed, noticeFaults>>

\* sendWorkerNotification never fails; the key is noted when it is done.
NoticeSent(c) ==
  /\ noticeCheck[c].pc = "send"
  /\ noticeKeys' = [noticeKeys EXCEPT ![noticeCheck[c].at] = @ \cup {noticeCheck[c].kind}]
  /\ noticeCheck' = [noticeCheck EXCEPT ![c] = IdleCheck]
  /\ UNCHANGED <<noticePatchVars, noticeClosed, noticeFaults>>

\* A statement fails: cron's next run begins anew.
CheckFails(c) ==
  /\ noticeCheck[c].pc = "prefs" /\ NoticeFault
  /\ noticeCheck' = [noticeCheck EXCEPT ![c] = IdleCheck]
  /\ UNCHANGED <<noticePatchVars, noticeKeys, noticeClosed>>

\* closeDb of a shutdown, with no request in flight any more: nobody has stopped
\* the cron jobs of the checkers, or waits for a run.
PoolCloses(p) ==
  /\ p \notin noticeClosed /\ noticeClosed' = noticeClosed \cup {p}
  /\ UNCHANGED <<noticePatchVars, noticeCheck, noticeKeys, noticeFaults>>

\* A process exits or dies, with its runs and its keys, and is started again:
\* notices may go out once more.
NoticeCrash(p) ==
  /\ NoticeFault
  /\ noticeCheck' = [c \in NoticeChecks |->
       IF noticeCheck[c].at = p THEN IdleCheck ELSE noticeCheck[c]]
  /\ noticeKeys' = [noticeKeys EXCEPT ![p] = {}]
  /\ noticeClosed' = noticeClosed \ {p}
  /\ UNCHANGED noticePatchVars

NoticeNext ==
  \/ \E r \in NoticePatches :
       \/ \E on, off \in SUBSET NoticeKinds : PatchReads(r, on, off)
       \/ PatchWrites(r) \/ PatchFails(r)
  \/ \E c \in NoticeChecks :
       \/ \E p \in NoticeReplicas, kind \in NoticeKinds : CheckStarts(c, p, kind)
       \/ CheckReadsPrefs(c) \/ NoticeSent(c) \/ CheckFails(c)
  \/ \E p \in NoticeReplicas : PoolCloses(p) \/ NoticeCrash(p)

NoticeSpec == NoticeInit /\ [][NoticeNext]_noticeVars

-----------------------------------------------------------------------------
\* No notice goes out of a kind the worker had turned off, by a request that was
\* answered before the checker read her preferences, unless the last requests
\* about them overlapped: the later of the two then puts back what it had read;
\* or the checker read them in a process that had closed its pool to shut down,
\* and took the missing row for every kind on (payslips.ts:609-653,
\* scheduler.ts:511-629, queries.ts:996-1005, index.ts:512-530).
NotifiedAsAsked ==
  \A c \in NoticeChecks :
    noticeCheck[c].pc = "send" /\ ~noticeCheck[c].blind =>
      noticeCheck[c].kind \in noticeCheck[c].asked
=============================================================================
