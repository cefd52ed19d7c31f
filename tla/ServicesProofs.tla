---------------------------- MODULE ServicesProofs -----------------------------
(* Proofs about six of the services, for any number of processes, requests,    *)
(* employers and kinds of notices: what a payslip, a notice, an alert, a       *)
(* replayed answer and a cached one are worth although a handler reads at one  *)
(* moment and acts at another, and where an audit entry is while flushes       *)
(* overlap.                                                                    *)
EXTENDS Payslips, Notices, TreasuryMonitor, Idempotency, SummaryCache, AuditLog,
        SequenceLemmas

-----------------------------------------------------------------------------
(* Payslips *)

\* The part of the type invariant that the steps need.
SignedValues == [payslip_id : PayRequests, gross : Int, at : Int]
RequestRecords ==
  [pc : {"idle", "read", "sign", "store", "answered", "failed"}, found : BOOLEAN,
   signature : SignedValues]
PayShape ==
  /\ payAlone \subseteq PayRequests
  /\ payReq \in [PayRequests -> RequestRecords]
  /\ payGross \in Int /\ payClock \in Int

\* A request nobody overlapped is alone under way.
AloneUnderWay ==
  \A r \in payAlone, q \in PayRequests :
    r # q => ~(PayUnderWay(r) /\ PayUnderWay(q))

\* Once a request nobody overlapped has stored its payslip, every other one under
\* way has found a row, and so stores none.
OthersFound ==
  \A r \in payAlone, q \in PayRequests :
    payReq[r].pc = "answered" /\ ~payReq[r].found /\ PayUnderWay(q) => payReq[q].found

PayInv == PayShape /\ AloneUnderWay /\ OthersFound /\ PayslipFound

\* A step of the request r to another place in its handler, or out of it, that
\* writes no row and changes neither what it found nor what it stands for.
LEMMA PayQuietStep ==
  ASSUME PayInv, PayShape', NEW r \in PayRequests, PayUnderWay(r),
         payRow' = payRow, payAlone' = payAlone,
         \A q \in PayRequests \ {r} : payReq'[q] = payReq[q],
         payReq'[r].found = payReq[r].found,
         payReq'[r].pc \in {"read", "sign", "store", "failed"}
  PROVE  PayInv'
<1>1. AloneUnderWay'
  BY DEF PayInv, PayShape, AloneUnderWay, PayUnderWay
<1>2. OthersFound'
  BY DEF PayInv, OthersFound, PayUnderWay, PayShape
<1>3. PayslipFound'
  BY DEF PayInv, PayslipFound, PayShape
<1> QED BY <1>1, <1>2, <1>3 DEF PayInv

\* The records the steps write.
LEMMA RequestRecordsClosed ==
  ASSUME NEW req \in RequestRecords, NEW found \in BOOLEAN, NEW n \in Int
  PROVE  /\ [req EXCEPT !.pc = "read", !.found = found] \in RequestRecords
         /\ [req EXCEPT !.pc = "sign", !.signature.gross = n] \in RequestRecords
         /\ [req EXCEPT !.pc = "store", !.signature.at = n] \in RequestRecords
<1>1. /\ req.signature \in SignedValues
      /\ [req.signature EXCEPT !.gross = n] \in SignedValues
      /\ [req.signature EXCEPT !.at = n] \in SignedValues
  BY DEF RequestRecords, SignedValues
<1> QED BY <1>1 DEF RequestRecords

LEMMA PayInductive == PayInv /\ [PayNext]_payVars => PayInv'
<1> SUFFICES ASSUME PayInv, [PayNext]_payVars PROVE PayInv'
  OBVIOUS
<1>1. ASSUME NEW r \in PayRequests, PayslipLooked(r) PROVE PayInv'
  <2>1. PayShape' /\ payRow' = payRow
    <3>1. [payReq[r] EXCEPT !.pc = "read", !.found = (payRow # {})] \in RequestRecords
      BY RequestRecordsClosed DEF PayInv, PayShape
    <3>2. payReq' = [payReq EXCEPT ![r] =
                       [payReq[r] EXCEPT !.pc = "read", !.found = (payRow # {})]]
      BY <1>1 DEF PayslipLooked
    <3> QED BY <1>1, <3>1, <3>2 DEF PayslipLooked, PayInv, PayShape, RequestRecords
  <2>2. /\ \A q \in PayRequests \ {r} : payReq'[q] = payReq[q]
        /\ payReq[r].pc = "idle" /\ payReq'[r].pc = "read"
        /\ payReq'[r].found = (payRow # {})
    BY <1>1, <2>1 DEF PayslipLooked, PayInv, PayShape, RequestRecords
  <2>3. AloneUnderWay'
    <3> SUFFICES ASSUME NEW a \in payAlone', NEW q \in PayRequests, a # q,
                        PayUnderWay(a)', PayUnderWay(q)'
                 PROVE  FALSE
      BY DEF AloneUnderWay
    <3>1. a \in payAlone /\ a \in PayRequests
      BY <1>1 DEF PayslipLooked, PayInv, PayShape, RequestRecords
    <3>2. a = r \/ q = r
      BY <2>2, <3>1 DEF PayInv, AloneUnderWay, PayUnderWay
    <3>3. PICK o \in PayRequests \ {r} : PayUnderWay(o) /\ (a = r \/ a = o)
      BY <2>2, <3>1, <3>2 DEF PayUnderWay
    <3>4. a \notin payAlone'
      BY <1>1, <3>3 DEF PayslipLooked
    <3> QED BY <3>4
  <2>4. OthersFound'
    BY <1>1, <2>2 DEF PayslipLooked, PayInv, PayShape, OthersFound, PayslipFound, PayUnderWay
  <2>5. PayslipFound'
    BY <1>1, <2>1, <2>2 DEF PayslipLooked, PayInv, PayShape, PayslipFound
  <2> QED BY <2>1, <2>3, <2>4, <2>5 DEF PayInv
<1>2. ASSUME NEW r \in PayRequests, StreamsSummed(r) PROVE PayInv'
  <2>1. PayShape' /\ PayUnderWay(r)
    <3>1. [payReq[r] EXCEPT !.pc = "sign", !.signature.gross = payGross] \in RequestRecords
      BY RequestRecordsClosed DEF PayInv, PayShape
    <3>2. payReq' = [payReq EXCEPT ![r] =
                       [payReq[r] EXCEPT !.pc = "sign", !.signature.gross = payGross]]
      BY <1>2 DEF StreamsSummed
    <3> QED BY <1>2, <3>1, <3>2 DEF StreamsSummed, PayInv, PayShape, PayUnderWay
  <2>2. /\ payReq'[r].found = payReq[r].found /\ payReq'[r].pc = "sign"
        /\ \A q \in PayRequests \ {r} : payReq'[q] = payReq[q]
    BY <1>2 DEF StreamsSummed, PayInv, PayShape, RequestRecords
  <2> QED BY <1>2, <2>1, <2>2, PayQuietStep DEF StreamsSummed
<1>3. ASSUME NEW r \in PayRequests, PayslipSigned(r) PROVE PayInv'
  <2>1. PayShape' /\ PayUnderWay(r)
    <3>1. [payReq[r] EXCEPT !.pc = "store", !.signature.at = payClock] \in RequestRecords
      BY RequestRecordsClosed DEF PayInv, PayShape
    <3>2. payReq' = [payReq EXCEPT ![r] =
                       [payReq[r] EXCEPT !.pc = "store", !.signature.at = payClock]]
      BY <1>3 DEF PayslipSigned
    <3> QED BY <1>3, <3>1, <3>2 DEF PayslipSigned, PayInv, PayShape, PayUnderWay
  <2>2. /\ payReq'[r].found = payReq[r].found /\ payReq'[r].pc = "store"
        /\ \A q \in PayRequests \ {r} : payReq'[q] = payReq[q]
    BY <1>3 DEF PayslipSigned, PayInv, PayShape, RequestRecords
  <2> QED BY <1>3, <2>1, <2>2, PayQuietStep DEF PayslipSigned
<1>4. ASSUME NEW r \in PayRequests, PayslipStored(r) PROVE PayInv'
  <2>1. PayShape' /\ PayUnderWay(r) /\ payAlone' = payAlone
    BY <1>4 DEF PayslipStored, PayInv, PayShape, RequestRecords, PayUnderWay
  <2>2. /\ payReq'[r].found = payReq[r].found /\ payReq'[r].pc = "answered"
        /\ payReq'[r].signature = payReq[r].signature
        /\ \A q \in PayRequests \ {r} : payReq'[q] = payReq[q]
    BY <1>4 DEF PayslipStored, PayInv, PayShape, RequestRecords
  <2>3. AloneUnderWay'
    BY <2>1, <2>2 DEF PayInv, PayShape, AloneUnderWay, PayUnderWay
  <2>4. OthersFound'
    BY <2>1, <2>2 DEF PayInv, AloneUnderWay, OthersFound, PayUnderWay, PayShape
  <2>5. PayslipFound'
    <3>1. CASE payReq[r].found
      <4>1. payRow' = payRow
        BY <1>4, <3>1 DEF PayslipStored, Stores
      <4> QED BY <2>1, <2>2, <3>1, <4>1 DEF PayInv, PayShape, PayslipFound
    <3>2. CASE ~payReq[r].found
      <4>1. \E row \in payRow' : row.signature = payReq[r].signature
        BY <1>4, <3>2 DEF PayslipStored, Stores, RowsWith
      <4>2. ASSUME NEW a \in payAlone, a # r, payReq[a].pc = "answered"
            PROVE  payReq[a].found
        BY <2>1, <3>2, <4>2 DEF PayInv, OthersFound, PayShape
      <4> QED BY <2>1, <2>2, <4>1, <4>2 DEF PayInv, PayShape, PayslipFound
    <3> QED BY <3>1, <3>2
  <2> QED BY <2>1, <2>3, <2>4, <2>5 DEF PayInv
<1>5. ASSUME NEW r \in PayRequests, PayslipFails(r) PROVE PayInv'
  <2>1. PayShape'
    BY <1>5 DEF PayslipFails, PayInv, PayShape, RequestRecords
  <2>2. /\ payReq'[r].found = payReq[r].found /\ payReq'[r].pc = "failed"
        /\ \A q \in PayRequests \ {r} : payReq'[q] = payReq[q]
    BY <1>5 DEF PayslipFails, PayInv, PayShape, RequestRecords
  <2> QED BY <1>5, <2>1, <2>2, PayQuietStep DEF PayslipFails
<1>6. CASE GrossGrows \/ PayClockTicks
  BY <1>6 DEF GrossGrows, PayClockTicks, PayInv, PayShape, AloneUnderWay, OthersFound,
              PayslipFound, PayUnderWay
<1>7. CASE UNCHANGED payVars
  BY <1>7 DEF payVars, PayInv, PayShape, AloneUnderWay, OthersFound, PayslipFound, PayUnderWay
<1> QED
  BY <1>1, <1>2, <1>3, <1>4, <1>5, <1>6, <1>7 DEF PayNext

LEMMA PayFirst == PayInit => PayInv
BY DEF PayInit, PayInv, PayShape, RequestRecords, SignedValues, AloneUnderWay, OthersFound,
       PayslipFound, PayUnderWay

LEMMA PayKeeps == PayInv => PayslipFound
BY DEF PayInv

\* A worker's first payslip can be looked up by its signature for ever, however
\* often she asks again, unless another request overlapped the one that stored it
\* (payslips.ts:247-396).
THEOREM PayslipTheorem == PaySpec => []PayslipFound
BY PayFirst, PayKeeps, PayInductive, PTL DEF PaySpec

-----------------------------------------------------------------------------
(* Notices *)

PatchRecords ==
  [pc : {"idle", "write", "answered"}, on : SUBSET NoticeKinds, off : SUBSET NoticeKinds,
   row : SUBSET SUBSET NoticeKinds, alone : BOOLEAN]

CheckRecords ==
  [pc : {"idle", "prefs", "send"}, at : NoticeReplicas \cup {Nowhere}, kind : NoticeKinds,
   asked : SUBSET NoticeKinds, blind : BOOLEAN]

\* The part of the type invariant that the steps need.
NoticeShape ==
  /\ noticePrefs \in SUBSET SUBSET NoticeKinds
  /\ noticePatch \in [NoticePatches -> PatchRecords]
  /\ noticeAsked \in SUBSET NoticeKinds /\ noticeLost \in SUBSET NoticeKinds
  /\ noticeCheck \in [NoticeChecks -> CheckRecords]

\* A request nobody overlapped is the only one that will write, and it has read
\* the row that is still there.
AlonePatchReads ==
  \A r \in NoticePatches : noticePatch[r].pc = "write" /\ noticePatch[r].alone =>
    /\ noticePatch[r].row = noticePrefs
    /\ \A q \in NoticePatches \ {r} : noticePatch[q].pc # "write"

\* Only kinds she asked for are on, or lost in an overlap.
PrefsAsAsked == KindsOn(noticePrefs) \subseteq noticeAsked \cup noticeLost

NoticeInv == NoticeShape /\ AlonePatchReads /\ PrefsAsAsked /\ NotifiedAsAsked

\* A row that exists says which kinds are on.
LEMMA KindsOnRow ==
  /\ \A row \in SUBSET SUBSET NoticeKinds : KindsOn(row) \subseteq NoticeKinds
  /\ \A on : KindsOn({on}) = on
BY DEF KindsOn

LEMMA NoticeInductive == NoticeInv /\ [NoticeNext]_noticeVars => NoticeInv'
<1> SUFFICES ASSUME NoticeInv, [NoticeNext]_noticeVars PROVE NoticeInv'
  OBVIOUS
<1> USE DEF NoticeInv
<1>1. ASSUME NEW r \in NoticePatches, NEW on \in SUBSET NoticeKinds,
             NEW off \in SUBSET NoticeKinds, PatchReads(r, on, off)
      PROVE  NoticeInv'
  <2> DEFINE alone == \A o \in NoticePatches : noticePatch[o].pc # "write"
             new == [pc |-> "write", on |-> on, off |-> off, row |-> noticePrefs,
                     alone |-> alone]
  <2>1. new \in PatchRecords
    BY DEF NoticeShape, PatchRecords
  <2>2. ASSUME NEW q \in NoticePatches
        PROVE  /\ noticePatch[q] \in PatchRecords
               /\ [noticePatch[q] EXCEPT !.alone = FALSE] \in PatchRecords
               /\ [noticePatch[q] EXCEPT !.alone = FALSE].pc = noticePatch[q].pc
               /\ ~[noticePatch[q] EXCEPT !.alone = FALSE].alone
    <3>1. noticePatch[q] \in PatchRecords
      BY DEF NoticeShape
    <3> QED BY <3>1 DEF PatchRecords
  <2>3. noticePatch' = [q \in NoticePatches |->
          IF q = r THEN new
          ELSE IF noticePatch[q].pc = "write" THEN [noticePatch[q] EXCEPT !.alone = FALSE]
          ELSE noticePatch[q]]
    BY <1>1 DEF PatchReads
  <2>4. UNCHANGED <<noticePrefs, noticeAsked, noticeLost, noticeCheck>>
    BY <1>1 DEF PatchReads
  <2> HIDE DEF new
  <2>5. NoticeShape'
    BY <2>1, <2>2, <2>3, <2>4 DEF NoticeShape
  <2>6. new.pc = "write" /\ new.row = noticePrefs /\ (new.alone <=> alone)
    BY DEF new
  <2>7. AlonePatchReads'
    BY <2>2, <2>3, <2>4, <2>6 DEF AlonePatchReads
  <2> QED BY <2>4, <2>5, <2>7 DEF PrefsAsAsked, NotifiedAsAsked
<1>2. ASSUME NEW r \in NoticePatches, PatchWrites(r) PROVE NoticeInv'
  <2> DEFINE patch == noticePatch[r]
  <2>1. /\ patch \in PatchRecords /\ patch.pc = "write"
        /\ noticePrefs' = {Merged(patch)}
        /\ noticeAsked' = (noticeAsked \ patch.off) \cup patch.on
        /\ noticeLost' = IF patch.alone THEN noticeLost \ (patch.on \cup patch.off)
                         ELSE NoticeKinds
        /\ noticeCheck' = noticeCheck
    BY <1>2 DEF PatchWrites, NoticeShape
  <2>2. [IdlePatch EXCEPT !.pc = "answered"] \in PatchRecords
        /\ [IdlePatch EXCEPT !.pc = "answered"].pc = "answered"
    BY DEF IdlePatch, PatchRecords
  <2>3. noticePatch' = [noticePatch EXCEPT ![r] = [IdlePatch EXCEPT !.pc = "answered"]]
    BY <1>2 DEF PatchWrites
  <2>4. Merged(patch) \subseteq NoticeKinds
    BY <2>1, KindsOnRow DEF Merged, PatchRecords
  <2>5. NoticeShape'
    BY <2>1, <2>2, <2>3, <2>4 DEF NoticeShape, PatchRecords
  <2>6. AlonePatchReads'
    BY <2>1, <2>2, <2>3 DEF AlonePatchReads, NoticeShape
  <2>7. PrefsAsAsked'
    <3>1. KindsOn(noticePrefs)' = Merged(patch)
      BY <2>1, KindsOnRow DEF KindsOn
    <3>2. CASE patch.alone
      <4>1. KindsOn(patch.row) \subseteq noticeAsked \cup noticeLost
        BY <2>1, <3>2 DEF AlonePatchReads, PrefsAsAsked
      <4> QED BY <2>1, <3>1, <3>2, <4>1 DEF PrefsAsAsked, Merged
    <3>3. CASE ~patch.alone
      BY <2>1, <2>4, <3>1, <3>3 DEF PrefsAsAsked
    <3> QED BY <3>2, <3>3
  <2> QED BY <2>1, <2>5, <2>6, <2>7 DEF NotifiedAsAsked
<1>3. ASSUME NEW r \in NoticePatches, PatchFails(r) PROVE NoticeInv'
  <2>1. [IdlePatch EXCEPT !.pc = "answered"] \in PatchRecords
        /\ [IdlePatch EXCEPT !.pc = "answered"].pc = "answered"
    BY DEF IdlePatch, PatchRecords
  <2> DEFINE patch == noticePatch[r]
  <2>2. /\ noticePatch' = [noticePatch EXCEPT ![r] = [IdlePatch EXCEPT !.pc = "answered"]]
        /\ noticeCheck' = noticeCheck /\ patch \in PatchRecords /\ patch.pc = "write"
    BY <1>3 DEF PatchFails, NoticeShape
  <2>3. CASE UNCHANGED <<noticePrefs, noticeAsked, noticeLost>>
    <3>1. NoticeShape' /\ AlonePatchReads'
      BY <2>1, <2>2, <2>3 DEF NoticeShape, AlonePatchReads
    <3> QED BY <2>2, <2>3, <3>1 DEF PrefsAsAsked, NotifiedAsAsked
  <2>4. CASE /\ noticePrefs' = {Merged(patch)}
             /\ noticeAsked' = noticeAsked \cup patch.on
             /\ noticeLost' = IF patch.alone THEN noticeLost ELSE NoticeKinds
    <3>1. Merged(patch) \subseteq NoticeKinds
      BY <2>2, KindsOnRow DEF Merged, PatchRecords
    <3>2. NoticeShape'
      BY <2>1, <2>2, <2>4, <3>1 DEF NoticeShape, PatchRecords
    <3>3. AlonePatchReads'
      BY <2>1, <2>2, <2>4 DEF AlonePatchReads, NoticeShape
    <3>4. KindsOn(noticePrefs)' = Merged(patch)
      BY <2>4, KindsOnRow DEF KindsOn
    <3>5. PrefsAsAsked'
      <4>1. CASE patch.alone
        <5>1. KindsOn(patch.row) \subseteq noticeAsked \cup noticeLost
          BY <2>2, <4>1 DEF AlonePatchReads, PrefsAsAsked
        <5> QED BY <2>4, <3>4, <4>1, <5>1 DEF PrefsAsAsked, Merged
      <4>2. CASE ~patch.alone
        BY <2>4, <3>1, <3>4, <4>2 DEF PrefsAsAsked
      <4> QED BY <4>1, <4>2
    <3> QED BY <2>2, <3>2, <3>3, <3>5 DEF NotifiedAsAsked
  <2> QED BY <1>3, <2>3, <2>4 DEF PatchFails
<1>0. IdleCheck \in CheckRecords /\ IdleCheck.pc # "send"
  BY NoticeAssumption DEF IdleCheck, CheckRecords
<1>4. ASSUME NEW c \in NoticeChecks, CheckReadsPrefs(c) PROVE NoticeInv'
  <2>1. noticePatchVars' = noticePatchVars /\ noticeCheck' \in [NoticeChecks -> CheckRecords]
    <3> DEFINE blind == noticeCheck[c].at \in noticeClosed
               went == [noticeCheck[c] EXCEPT !.pc = "send",
                          !.asked = noticeAsked \cup noticeLost, !.blind = blind]
    <3>1. PICK check \in CheckRecords : check = noticeCheck[c]
      BY DEF NoticeShape
    <3>2. \A asked \in SUBSET NoticeKinds, b \in BOOLEAN :
            [check EXCEPT !.pc = "send", !.asked = asked, !.blind = b] \in CheckRecords
      BY DEF CheckRecords
    <3>3. went \in CheckRecords
      <4>1. noticeAsked \cup noticeLost \in SUBSET NoticeKinds /\ blind \in BOOLEAN
        BY DEF NoticeShape
      <4> QED BY <3>1, <3>2, <4>1
    <3>4. noticeCheck' = [noticeCheck EXCEPT ![c] = went]
            \/ noticeCheck' = [noticeCheck EXCEPT ![c] = IdleCheck]
      BY <1>4 DEF CheckReadsPrefs
    <3> HIDE DEF went
    <3>5. noticeCheck' \in [NoticeChecks -> CheckRecords]
      BY <1>0, <3>3, <3>4 DEF NoticeShape
    <3> QED BY <1>4, <3>5 DEF CheckReadsPrefs
  <2>2. ASSUME NEW d \in NoticeChecks, noticeCheck'[d].pc = "send", ~noticeCheck'[d].blind
        PROVE  noticeCheck'[d].kind \in noticeCheck'[d].asked
    <3>1. CASE d # c
      BY <1>4, <2>2, <3>1 DEF CheckReadsPrefs, NoticeShape, NotifiedAsAsked
    <3>2. CASE d = c
      <4>1. IdleCheck.pc # "send"
        BY DEF IdleCheck
      <4> DEFINE blind == noticeCheck[c].at \in noticeClosed
                 went == [noticeCheck[c] EXCEPT !.pc = "send",
                            !.asked = noticeAsked \cup noticeLost, !.blind = blind]
      <4>2. /\ noticeCheck[c].kind \in KindsOn(IF blind THEN {} ELSE noticePrefs)
            /\ noticeCheck'[c] = went
        BY <1>4, <2>2, <3>2, <4>1 DEF CheckReadsPrefs, NoticeShape
      <4>3. noticeCheck[c] \in CheckRecords
        BY DEF NoticeShape
      <4>4. /\ went.kind = noticeCheck[c].kind /\ went.asked = noticeAsked \cup noticeLost
            /\ went.blind = blind
        BY <4>3 DEF CheckRecords
      <4> HIDE DEF went, blind
      <4>5. noticeCheck[c].kind \in KindsOn(noticePrefs)
        BY <2>2, <3>2, <4>2, <4>4
      <4> QED BY <3>2, <4>2, <4>4, <4>5 DEF PrefsAsAsked
    <3> QED BY <3>1, <3>2
  <2> QED BY <2>1, <2>2 DEF noticePatchVars, NoticeShape, AlonePatchReads, PrefsAsAsked,
                            NotifiedAsAsked
<1>5. ASSUME NEW c \in NoticeChecks,
             \/ \E p \in NoticeReplicas, kind \in NoticeKinds : CheckStarts(c, p, kind)
             \/ NoticeSent(c) \/ CheckFails(c)
      PROVE  NoticeInv'
  <2>1. noticePatchVars' = noticePatchVars /\ noticeCheck' \in [NoticeChecks -> CheckRecords]
    <3>1. noticePatchVars' = noticePatchVars
      BY <1>5 DEF CheckStarts, NoticeSent, CheckFails
    <3>2. CASE NoticeSent(c) \/ CheckFails(c)
      BY <1>0, <3>2 DEF NoticeSent, CheckFails, NoticeShape
    <3>3. ASSUME NEW p \in NoticeReplicas, NEW kind \in NoticeKinds, CheckStarts(c, p, kind)
          PROVE  noticeCheck' \in [NoticeChecks -> CheckRecords]
      <4>1. [IdleCheck EXCEPT !.pc = "prefs", !.at = p, !.kind = kind] \in CheckRecords
        BY <1>0 DEF CheckRecords
      <4> QED BY <3>3, <4>1 DEF CheckStarts, NoticeShape
    <3> QED BY <1>5, <3>1, <3>2, <3>3
  <2>2. /\ \A d \in NoticeChecks \ {c} : noticeCheck'[d] = noticeCheck[d]
        /\ noticeCheck'[c].pc # "send"
    <3>1. CASE NoticeSent(c) \/ CheckFails(c)
      <4>1. IdleCheck.pc # "send" /\ noticeCheck' = [noticeCheck EXCEPT ![c] = IdleCheck]
        BY <3>1 DEF NoticeSent, CheckFails, IdleCheck
      <4> QED BY <4>1 DEF NoticeShape
    <3>2. ASSUME NEW p \in NoticeReplicas, NEW kind \in NoticeKinds, CheckStarts(c, p, kind)
          PROVE  /\ \A d \in NoticeChecks \ {c} : noticeCheck'[d] = noticeCheck[d]
                 /\ noticeCheck'[c].pc # "send"
      <4> DEFINE started == [IdleCheck EXCEPT !.pc = "prefs", !.at = p, !.kind = kind]
      <4>1. started.pc = "prefs"
        BY DEF IdleCheck
      <4>2. noticeCheck' = [noticeCheck EXCEPT ![c] = started]
        BY <3>2 DEF CheckStarts
      <4> HIDE DEF started
      <4> QED BY <4>1, <4>2 DEF NoticeShape
    <3> QED BY <1>5, <3>1, <3>2
  <2> QED BY <2>1, <2>2 DEF noticePatchVars, NoticeShape, AlonePatchReads, PrefsAsAsked,
                            NotifiedAsAsked
<1>6. ASSUME NEW p \in NoticeReplicas, PoolCloses(p) PROVE NoticeInv'
  BY <1>6 DEF PoolCloses, noticePatchVars, NoticeShape, AlonePatchReads, PrefsAsAsked,
              NotifiedAsAsked
<1>7. ASSUME NEW p \in NoticeReplicas, NoticeCrash(p) PROVE NoticeInv'
  <2> QED BY <1>0, <1>7 DEF NoticeCrash, noticePatchVars, NoticeShape, AlonePatchReads,
                            PrefsAsAsked, NotifiedAsAsked
<1>8. CASE UNCHANGED noticeVars
  BY <1>8 DEF noticeVars, NoticeShape, AlonePatchReads, PrefsAsAsked, NotifiedAsAsked
<1> QED
  BY <1>1, <1>2, <1>3, <1>4, <1>5, <1>6, <1>7, <1>8 DEF NoticeNext

LEMMA NoticeFirst == NoticeInit => NoticeInv
BY KindsOnRow, NoticeAssumption
   DEF NoticeInit, NoticeInv, NoticeShape, PatchRecords, CheckRecords, IdlePatch, IdleCheck,
       AlonePatchReads, PrefsAsAsked, NotifiedAsAsked, KindsOn

LEMMA NoticeKeeps == NoticeInv => NotifiedAsAsked
BY DEF NoticeInv

\* However checks, requests and crashes interleave, no notice goes out of a kind
\* that an answered request had turned off before the preferences were read,
\* unless the last requests about them overlapped, or the process that sends it
\* had closed its pool before it read them (payslips.ts:609-653,
\* scheduler.ts:511-629, queries.ts:996-1005).
THEOREM NoticeTheorem == NoticeSpec => []NotifiedAsAsked
BY NoticeFirst, NoticeKeeps, NoticeInductive, PTL DEF NoticeSpec

-----------------------------------------------------------------------------
(* Treasury monitor *)

MonValues == MonAmounts \cup {NotRead, FirstAmount}
MonRecords ==
  [pc : {"idle", "read", "streams", "alert", "persist"}, todo : SUBSET MonEmployers,
   at : SUBSET MonEmployers, balance : [MonEmployers -> MonValues],
   burn : [MonEmployers -> MonValues], alert_sent : BOOLEAN]

\* The part of the type invariant that the steps need.
MonShape ==
  /\ monBalance \in [MonEmployers -> MonValues] /\ monBurn \in [MonEmployers -> MonValues]
  /\ monRun \in [MonCycles -> MonRecords]
  /\ monTrue \in [MonCycles -> [MonEmployers -> SUBSET (MonValues \X MonValues)]]
  /\ monChanged \in [MonCycles -> [MonEmployers -> SUBSET {"balance", "burn"}]]

\* The history of a cycle that has read the balances has the present in it.
PresentKnown(c, e) ==
  monRun[c].pc \notin {"idle", "read"} => <<monBalance[e], monBurn[e]>> \in monTrue[c][e]

\* Until an employer's streams are read, each table that has not changed is still
\* what it was when the balances were read.
HalfRead(c, e) ==
  monRun[c].pc = "streams" /\ e \in monRun[c].todo =>
    /\ "balance" \notin monChanged[c][e] => monRun[c].balance[e] = monBalance[e]
    /\ "burn" \notin monChanged[c][e] =>
         <<monRun[c].balance[e], monBurn[e]>> \in monTrue[c][e]

\* What a cycle has read of an employer was true together, or both tables changed.
PairOfAMoment(c, e) ==
  \/ <<monRun[c].balance[e], monRun[c].burn[e]>> \in monTrue[c][e]
  \/ monChanged[c][e] = {"balance", "burn"}

ReadInFull(c, e) ==
  \/ monRun[c].pc \in {"alert", "persist"}
  \/ monRun[c].pc = "streams" /\ e \notin monRun[c].todo

CycleSound(c, e) ==
  PresentKnown(c, e) /\ HalfRead(c, e) /\ (ReadInFull(c, e) => PairOfAMoment(c, e))

MonInv == MonShape /\ \A c \in MonCycles, e \in MonEmployers : CycleSound(c, e)

\* A change of one employer's tables.
LEMMA TableStep ==
  ASSUME MonInv, NEW e \in MonEmployers, NEW balance \in MonAmounts,
         NEW burn \in MonAmounts, TableChanges(e, balance, burn)
  PROVE  MonInv'
<1> DEFINE tables == Tables(e, balance, burn)
<1>1. /\ monRun' = monRun
      /\ \A f \in MonEmployers \ {e} : monBalance'[f] = monBalance[f] /\ monBurn'[f] = monBurn[f]
      /\ "balance" \notin tables => monBalance'[e] = monBalance[e]
      /\ "burn" \notin tables => monBurn'[e] = monBurn[e]
      /\ tables \in SUBSET {"balance", "burn"}
  BY DEF TableChanges, Tables, MonInv, MonShape
<1>2. monBalance' \in [MonEmployers -> MonValues] /\ monBurn' \in [MonEmployers -> MonValues]
  BY DEF TableChanges, MonInv, MonShape, MonValues
<1> DEFINE now == <<monBalance'[e], monBurn'[e]>>
           trueOf(c) == IF monRun[c].pc \in {"idle", "read"} THEN monTrue[c][e]
                        ELSE monTrue[c][e] \cup {now}
           changedOf(c) == IF monRun[c].pc = "streams" /\ e \in monRun[c].todo
                           THEN monChanged[c][e] \cup tables ELSE monChanged[c][e]
<1> HIDE DEF tables
<1>3. /\ monTrue' = [c \in MonCycles |-> [monTrue[c] EXCEPT ![e] = trueOf(c)]]
      /\ monChanged' = [c \in MonCycles |-> [monChanged[c] EXCEPT ![e] = changedOf(c)]]
  BY DEF TableChanges, tables
<1>4. /\ now \in MonValues \X MonValues
      /\ \A c \in MonCycles : /\ trueOf(c) \in SUBSET (MonValues \X MonValues)
                              /\ changedOf(c) \in SUBSET {"balance", "burn"}
  <2>1. now \in MonValues \X MonValues
    BY <1>2
  <2>2. ASSUME NEW c \in MonCycles
        PROVE  /\ trueOf(c) \in SUBSET (MonValues \X MonValues)
               /\ changedOf(c) \in SUBSET {"balance", "burn"}
    <3>1. /\ monTrue[c][e] \in SUBSET (MonValues \X MonValues)
          /\ monChanged[c][e] \in SUBSET {"balance", "burn"}
      BY DEF MonInv, MonShape
    <3> HIDE DEF now
    <3> QED BY <1>1, <2>1, <3>1
  <2> QED BY <2>1, <2>2
<1>5. MonShape'
  <2> HIDE DEF trueOf, changedOf, now
  <2>1. monTrue' \in [MonCycles -> [MonEmployers -> SUBSET (MonValues \X MonValues)]]
    <3>1. ASSUME NEW c \in MonCycles
          PROVE  [monTrue[c] EXCEPT ![e] = trueOf(c)]
                   \in [MonEmployers -> SUBSET (MonValues \X MonValues)]
      BY <1>4 DEF MonInv, MonShape
    <3> QED BY <1>3, <3>1
  <2>2. monChanged' \in [MonCycles -> [MonEmployers -> SUBSET {"balance", "burn"}]]
    <3>1. ASSUME NEW c \in MonCycles
          PROVE  [monChanged[c] EXCEPT ![e] = changedOf(c)]
                   \in [MonEmployers -> SUBSET {"balance", "burn"}]
      BY <1>4 DEF MonInv, MonShape
    <3> QED BY <1>3, <3>1
  <2>3. monRun' \in [MonCycles -> MonRecords]
    BY <1>1 DEF MonInv, MonShape
  <2> QED BY <1>2, <2>1, <2>2, <2>3 DEF MonShape
<1>6. ASSUME NEW c \in MonCycles, NEW f \in MonEmployers, f # e PROVE CycleSound(c, f)'
  <2>1. monTrue'[c][f] = monTrue[c][f] /\ monChanged'[c][f] = monChanged[c][f]
    <3> HIDE DEF trueOf, changedOf
    <3> QED BY <1>3, <1>6 DEF MonInv, MonShape
  <2> QED BY <1>1, <1>6, <2>1 DEF MonInv, CycleSound, PresentKnown, HalfRead, ReadInFull,
                                  PairOfAMoment
<1>7. ASSUME NEW c \in MonCycles PROVE CycleSound(c, e)'
  <2>1. monTrue'[c][e] = trueOf(c) /\ monChanged'[c][e] = changedOf(c)
    <3> HIDE DEF trueOf, changedOf
    <3> QED BY <1>3 DEF MonInv, MonShape
  <2>2. CycleSound(c, e)
    BY DEF MonInv
  <2>3. PresentKnown(c, e)'
    BY <1>1, <2>1 DEF PresentKnown
  <2>4. HalfRead(c, e)'
    BY <1>1, <2>1, <2>2 DEF CycleSound, HalfRead
  <2>5. (ReadInFull(c, e) => PairOfAMoment(c, e))'
    BY <1>1, <2>1, <2>2 DEF CycleSound, ReadInFull, PairOfAMoment
  <2> QED BY <2>3, <2>4, <2>5 DEF CycleSound
<1> QED
  BY <1>5, <1>6, <1>7 DEF MonInv

\* A step of one cycle that reads no table and does not end the cycle.
LEMMA MonQuietStep ==
  ASSUME MonInv, UNCHANGED <<monTables, monHistory>>, NEW c \in MonCycles,
         NEW run \in MonRecords, monRun' = [monRun EXCEPT ![c] = run],
         \/ run.pc \in {"idle", "read"}
         \/ /\ monRun[c].pc \in {"alert", "persist"} /\ run.pc \in {"alert", "persist"}
            /\ run.balance = monRun[c].balance /\ run.burn = monRun[c].burn
  PROVE  MonInv'
<1>1. MonShape'
  BY DEF MonInv, MonShape, monTables, monHistory
<1>2. monRun'[c] = run /\ \A d \in MonCycles \ {c} : monRun'[d] = monRun[d]
  BY DEF MonInv, MonShape
<1>3. ASSUME NEW d \in MonCycles, NEW e \in MonEmployers PROVE CycleSound(d, e)'
  BY <1>2 DEF MonInv, CycleSound, PresentKnown, HalfRead, ReadInFull, PairOfAMoment,
              monTables, monHistory
<1> QED
  BY <1>1, <1>3 DEF MonInv

\* A cycle that ends leaves nothing behind.
LEMMA MonOverStep ==
  ASSUME MonInv, UNCHANGED monTables, NEW c \in MonCycles, MonitorOver(c)
  PROVE  MonInv'
<1>1. IdleMonitor \in MonRecords /\ IdleMonitor.pc = "idle"
  BY DEF IdleMonitor, MonRecords, NothingRead, MonValues
<1>2. MonShape'
  BY <1>1 DEF MonitorOver, MonInv, MonShape, monTables
<1>3. /\ monRun'[c].pc = "idle"
      /\ \A d \in MonCycles \ {c} : /\ monRun'[d] = monRun[d] /\ monTrue'[d] = monTrue[d]
                                    /\ monChanged'[d] = monChanged[d]
  BY <1>1 DEF MonitorOver, MonInv, MonShape
<1>4. ASSUME NEW d \in MonCycles, NEW e \in MonEmployers PROVE CycleSound(d, e)'
  BY <1>3 DEF MonInv, CycleSound, PresentKnown, HalfRead, ReadInFull, PairOfAMoment, monTables
<1> QED
  BY <1>2, <1>4 DEF MonInv

\* The balances are read.
LEMMA BalancesStep ==
  ASSUME MonInv, NEW c \in MonCycles, BalancesRead(c)
  PROVE  MonInv'
<1> DEFINE run == [monRun[c] EXCEPT !.pc = "streams", !.todo = MonEmployers,
                                    !.balance = monBalance]
           now == [e \in MonEmployers |-> {<<monBalance[e], monBurn[e]>>}]
<1>1. monRun[c] \in MonRecords
  BY DEF MonInv, MonShape
<1>2. run \in MonRecords /\ run.pc = "streams" /\ run.todo = MonEmployers /\ run.balance = monBalance
  BY <1>1 DEF MonRecords, MonInv, MonShape
<1>3. now \in [MonEmployers -> SUBSET (MonValues \X MonValues)]
  BY DEF MonInv, MonShape
<1>4. /\ monRun' = [monRun EXCEPT ![c] = run] /\ monTrue' = [monTrue EXCEPT ![c] = now]
      /\ UNCHANGED <<monTables, monChanged>>
  BY DEF BalancesRead
<1> HIDE DEF run
<1>5. MonShape'
  BY <1>2, <1>3, <1>4 DEF MonInv, MonShape, monTables
<1>6. /\ monRun'[c] = run /\ monTrue'[c] = now
      /\ \A d \in MonCycles \ {c} : monRun'[d] = monRun[d] /\ monTrue'[d] = monTrue[d]
  BY <1>4 DEF MonInv, MonShape
<1>7. ASSUME NEW d \in MonCycles, NEW e \in MonEmployers PROVE CycleSound(d, e)'
  <2> HIDE DEF now
  <2>1. CASE d = c
    <3>1. monTrue'[c][e] = {<<monBalance[e], monBurn[e]>>}
      BY <1>6 DEF now
    <3> QED BY <1>2, <1>4, <1>6, <2>1, <3>1 DEF CycleSound, PresentKnown, HalfRead, ReadInFull,
                                                PairOfAMoment, monTables
  <2>2. CASE d # c
    BY <1>4, <1>6, <2>2 DEF MonInv, CycleSound, PresentKnown, HalfRead, ReadInFull,
                            PairOfAMoment, monTables
  <2> QED BY <2>1, <2>2
<1> QED
  BY <1>5, <1>7 DEF MonInv

\* The streams of one employer are read.
LEMMA StreamsStep ==
  ASSUME MonInv, NEW c \in MonCycles, NEW e \in MonEmployers, StreamsRead(c, e)
  PROVE  MonInv'
<1> DEFINE todo == monRun[c].todo \ {e}
           run == [monRun[c] EXCEPT !.burn[e] = monBurn[e],
                                    !.todo = IF todo = {} THEN MonEmployers ELSE todo,
                                    !.pc = IF todo = {} THEN "alert" ELSE "streams"]
<1>1. /\ monRun[c] \in MonRecords /\ monRun[c].pc = "streams" /\ e \in monRun[c].todo
      /\ monRun[c].burn \in [MonEmployers -> MonValues] /\ monBurn[e] \in MonValues
      /\ todo \in SUBSET MonEmployers
  BY DEF StreamsRead, MonInv, MonShape, MonRecords
<1>2. [monRun[c].burn EXCEPT ![e] = monBurn[e]] \in [MonEmployers -> MonValues]
  BY <1>1
<1>3. /\ run \in MonRecords
      /\ run.balance = monRun[c].balance /\ run.burn = [monRun[c].burn EXCEPT ![e] = monBurn[e]]
      /\ IF todo = {} THEN run.pc = "alert" ELSE run.pc = "streams" /\ run.todo = todo
  <2> HIDE DEF todo
  <2> QED BY <1>1, <1>2 DEF MonRecords
<1>4. monRun' = [monRun EXCEPT ![c] = run] /\ UNCHANGED <<monTables, monHistory>>
  BY DEF StreamsRead
<1> HIDE DEF run
<1>5. MonShape'
  BY <1>3, <1>4 DEF MonInv, MonShape, monTables, monHistory
<1>6. monRun'[c] = run /\ \A d \in MonCycles \ {c} : monRun'[d] = monRun[d]
  BY <1>4 DEF MonInv, MonShape
<1>7. ASSUME NEW d \in MonCycles, NEW f \in MonEmployers, d # c \/ f # e
      PROVE  CycleSound(d, f)'
  <2>1. CycleSound(d, f)
    BY DEF MonInv
  <2>2. CASE d # c
    BY <1>4, <1>6, <2>1, <2>2 DEF CycleSound, PresentKnown, HalfRead, ReadInFull, PairOfAMoment,
                                  monTables, monHistory
  <2>3. CASE d = c /\ f # e
    <3>1. run.burn[f] = monRun[c].burn[f] /\ (todo = {} => f \notin monRun[c].todo)
      BY <1>1, <1>3, <2>3
    <3> QED BY <1>1, <1>3, <1>4, <1>6, <2>1, <2>3, <3>1
            DEF CycleSound, PresentKnown, HalfRead, ReadInFull, PairOfAMoment, monTables, monHistory
  <2> QED BY <1>7, <2>2, <2>3
<1>8. CycleSound(c, e)'
  <2>1. PresentKnown(c, e) /\ HalfRead(c, e)
    BY DEF MonInv, CycleSound
  <2>2. run.burn[e] = monBurn[e]
    BY <1>1, <1>3
  <2>3. PresentKnown(c, e)' /\ HalfRead(c, e)'
    BY <1>1, <1>3, <1>4, <1>6, <2>1 DEF PresentKnown, HalfRead, monTables, monHistory
  <2>4. PairOfAMoment(c, e)'
    <3>1. monChanged[c][e] \in SUBSET {"balance", "burn"}
      BY DEF MonInv, MonShape
    <3>2. \/ monChanged[c][e] = {"balance", "burn"}
          \/ "balance" \notin monChanged[c][e] \/ "burn" \notin monChanged[c][e]
      BY <3>1
    <3>3. \/ monChanged[c][e] = {"balance", "burn"}
          \/ <<monRun[c].balance[e], monBurn[e]>> \in monTrue[c][e]
      BY <1>1, <2>1, <3>2 DEF PresentKnown, HalfRead
    <3> QED BY <1>3, <1>4, <1>6, <2>2, <3>3 DEF PairOfAMoment, monHistory
  <2> QED BY <2>3, <2>4 DEF CycleSound
<1> QED
  BY <1>5, <1>7, <1>8 DEF MonInv

LEMMA MonInductive == MonInv /\ [MonNext]_monVars => MonInv'
<1> SUFFICES ASSUME MonInv, [MonNext]_monVars PROVE MonInv'
  OBVIOUS
<1>1. ASSUME NEW c \in MonCycles PROVE monRun[c] \in MonRecords
  BY DEF MonInv, MonShape
<1>2. ASSUME NEW c \in MonCycles, MonitorRuns(c) PROVE MonInv'
  <2> DEFINE run == [monRun[c] EXCEPT !.pc = "read"]
  <2>1. run \in MonRecords /\ run.pc = "read"
    BY <1>1 DEF MonRecords
  <2>2. monRun' = [monRun EXCEPT ![c] = run] /\ UNCHANGED <<monTables, monHistory>>
    BY <1>2 DEF MonitorRuns
  <2> HIDE DEF run
  <2> QED BY <2>1, <2>2, MonQuietStep
<1>3. ASSUME NEW c \in MonCycles, NEW e \in MonEmployers, EmployerAlerted(c, e)
      PROVE  MonInv'
  <2> DEFINE run == [monRun[c] EXCEPT !.pc = "persist", !.at = {e}, !.alert_sent = IsLow(c, e)]
  <2>1. IsLow(c, e) \in BOOLEAN
    BY DEF IsLow
  <2>2. /\ run \in MonRecords /\ run.pc = "persist"
        /\ run.balance = monRun[c].balance /\ run.burn = monRun[c].burn
    BY <1>1, <2>1 DEF MonRecords
  <2>3. /\ monRun' = [monRun EXCEPT ![c] = run] /\ UNCHANGED <<monTables, monHistory>>
        /\ monRun[c].pc = "alert"
    BY <1>3 DEF EmployerAlerted
  <2> HIDE DEF run
  <2> QED BY <2>2, <2>3, MonQuietStep
<1>4. ASSUME NEW c \in MonCycles, NEW e \in MonEmployers, EmployerLogged(c, e)
      PROVE  MonInv'
  <2>1. CASE monRun[c].todo = {e}
    BY <1>4, <2>1, MonOverStep DEF EmployerLogged
  <2>2. CASE monRun[c].todo # {e}
    <3> DEFINE run == [monRun[c] EXCEPT !.pc = "alert", !.todo = monRun[c].todo \ {e}, !.at = {},
                                        !.alert_sent = FALSE]
    <3>1. /\ run \in MonRecords /\ run.pc = "alert"
          /\ run.balance = monRun[c].balance /\ run.burn = monRun[c].burn
      BY <1>1 DEF MonRecords
    <3>2. /\ monRun' = [monRun EXCEPT ![c] = run] /\ UNCHANGED <<monTables, monHistory>>
          /\ monRun[c].pc = "persist"
      BY <1>4, <2>2 DEF EmployerLogged
    <3> HIDE DEF run
    <3> QED BY <3>1, <3>2, MonQuietStep
  <2> QED BY <2>1, <2>2
<1>5. ASSUME NEW c \in MonCycles, MonitorFails(c) PROVE MonInv'
  BY <1>5, MonOverStep DEF MonitorFails
<1>6. CASE UNCHANGED monVars
  BY <1>6 DEF monVars, MonInv, MonShape, CycleSound, PresentKnown, HalfRead, ReadInFull,
              PairOfAMoment
<1> QED
  BY <1>2, <1>3, <1>4, <1>5, <1>6, TableStep, BalancesStep, StreamsStep DEF MonNext

LEMMA MonFirst == MonInit => MonInv
BY DEF MonInit, MonInv, MonShape, MonRecords, MonValues, IdleMonitor, NothingRead, CycleSound,
       PresentKnown, HalfRead, ReadInFull, PairOfAMoment

LEMMA MonKeeps == MonInv => RunwayOfAMoment
BY DEF MonInv, CycleSound, ReadInFull, PairOfAMoment, RunwayOfAMoment

\* Whatever deposits, payments and new streams come between the two reads of a
\* cycle, the balance and the burn an employer is alerted and logged with were
\* true together, unless both tables changed (monitor.ts:132-190).
THEOREM RunwayTheorem == MonSpec => []RunwayOfAMoment
BY MonFirst, MonKeeps, MonInductive, PTL DEF MonSpec

-----------------------------------------------------------------------------
(* Idempotency *)

IdemRecords ==
  [pc : IdemPhases, answer : Answers \cup {NoAnswer}, replayed : BOOLEAN]

\* The part of the type invariant that the steps need.
IdemShape ==
  /\ idemReq \in [IdemRequests -> IdemRecords]
  /\ idemRedis \in Answers \cup {NoAnswer} /\ idemRow \in Answers \cup {NoAnswer}
  /\ idemDone \subseteq IdemRequests
  /\ idemBlind \in [IdemRequests -> SUBSET IdemRequests]

\* Requests whose handler has been called, and those that have answered.
Executing(r) == idemReq[r].pc # "new" /\ ~idemReq[r].replayed
Stored(r) == Executing(r) /\ idemReq[r].pc \in {"row", "end"}

\* Where a request stands and what is known of it.
RequestOrderly(r) ==
  /\ idemReq[r].pc = "new" =>
       ~idemReq[r].replayed /\ idemReq[r].answer = NoAnswer /\ idemBlind[r] = {}
  /\ idemReq[r].replayed => idemReq[r].pc = "end"
  /\ idemReq[r].pc = "run" => idemReq[r].answer = NoAnswer
  /\ Executing(r) /\ idemReq[r].pc # "run" => idemReq[r].answer # NoAnswer
  /\ r \in idemDone => Executing(r)
  /\ Stored(r) => idemRedis # NoAnswer

\* An answer that is kept somewhere is that of a request that was executed.
AnswerKnown(a) == a # NoAnswer => \E s \in IdemRequests : Stored(s) /\ idemReq[s].answer = a
AnswersKnown ==
  /\ AnswerKnown(idemRedis) /\ AnswerKnown(idemRow)
  /\ \A r \in IdemRequests : idemReq[r].replayed => AnswerKnown(idemReq[r].answer)

Unoverlapped == \A r, s \in IdemRequests : r # s => ~Overlapped(r, s)
OneExecutes ==
  Unoverlapped => \A r, s \in IdemRequests : Executing(r) /\ Executing(s) => r = s

\* The invariant speaks of behaviours without faults, as the property does.
IdemCalm ==
  IdemShape /\ (\A r \in IdemRequests : RequestOrderly(r)) /\ AnswersKnown /\ OneExecutes
IdemInv == idemFaults \in Nat /\ (idemFaults = 0 => IdemCalm)

\* A request goes on in its handler, executed or answered by the cache.
LEMMA IdemLookupStep ==
  ASSUME IdemCalm, NEW r \in IdemRequests, IdemLookup(r), UNCHANGED idemFaults, idemFaults \in Nat
  PROVE  IdemCalm'
<1>1. /\ idemRedis' = idemRedis /\ idemRow' = idemRow /\ idemDone' = idemDone
      /\ idemReq[r].pc = "new"
  BY DEF IdemLookup
<1>2. CASE idemRedis # NoAnswer
  <2>1. /\ idemReq' = [idemReq EXCEPT ![r] =
                         [pc |-> "end", answer |-> idemRedis, replayed |-> TRUE]]
        /\ idemBlind' = idemBlind
    BY <1>2 DEF IdemLookup, IdemFault, Replayed, Misses
  <2>2. IdemShape'
    BY <1>1, <2>1 DEF IdemCalm, IdemShape, IdemRecords, IdemPhases
  <2>3. /\ \A q \in IdemRequests \ {r} : idemReq'[q] = idemReq[q]
        /\ idemReq'[r].pc = "end" /\ idemReq'[r].answer = idemRedis
        /\ idemReq'[r].replayed = TRUE
    BY <1>1, <2>1 DEF IdemCalm, IdemShape
  <2>4. ~Executing(r) /\ ~Executing(r)'
    BY <1>1, <2>3 DEF Executing
  <2>5. \A q \in IdemRequests : (Executing(q)' <=> Executing(q)) /\ (Stored(q)' <=> Stored(q))
    BY <1>1, <2>3, <2>4 DEF Executing, Stored
  <2>6. \A q \in IdemRequests : RequestOrderly(q)'
    BY <1>1, <2>1, <2>3, <2>5 DEF IdemCalm, RequestOrderly
  <2>7. \A a : AnswerKnown(a) => AnswerKnown(a)'
    BY <2>3, <2>4, <2>5 DEF AnswerKnown, Stored
  <2>8. AnswersKnown'
    BY <1>1, <2>3, <2>7 DEF IdemCalm, AnswersKnown
  <2>9. OneExecutes'
    BY <2>1, <2>5 DEF IdemCalm, OneExecutes, Unoverlapped, Overlapped
  <2> QED BY <2>2, <2>6, <2>8, <2>9 DEF IdemCalm
<1>3. CASE idemRedis = NoAnswer
  <2>1. /\ idemReq' = [idemReq EXCEPT ![r].pc = "run"]
        /\ idemBlind' = [idemBlind EXCEPT ![r] = UnderWay]
    BY <1>3 DEF IdemLookup, IdemFault, Replayed, Misses
  <2>2. IdemShape'
    BY <1>1, <2>1 DEF IdemCalm, IdemShape, IdemRecords, IdemPhases, UnderWay
  <2>3. /\ \A q \in IdemRequests \ {r} : idemReq'[q] = idemReq[q]
        /\ idemReq'[r].pc = "run" /\ idemReq'[r].answer = idemReq[r].answer
        /\ idemReq'[r].replayed = idemReq[r].replayed
    BY <1>1, <2>1 DEF IdemCalm, IdemShape, IdemRecords
  <2>4. /\ \A q \in IdemRequests \ {r} : idemBlind'[q] = idemBlind[q]
        /\ idemBlind'[r] = UnderWay /\ idemBlind[r] = {}
    BY <1>1, <2>1 DEF IdemCalm, IdemShape, RequestOrderly
  <2>5. ~Stored(r) /\ ~Stored(r)'
    BY <1>1, <2>3 DEF Stored, Executing
  <2>6. \A q \in IdemRequests \ {r} :
          (Executing(q)' <=> Executing(q)) /\ (Stored(q)' <=> Stored(q))
    BY <2>3 DEF Executing, Stored
  <2>7. ~Executing(r)
    BY <1>1 DEF Executing
  <2>8. \A q \in IdemRequests : RequestOrderly(q)'
    BY <1>1, <1>3, <2>3, <2>4, <2>5, <2>6, <2>7 DEF IdemCalm, RequestOrderly
  <2>9. \A a : AnswerKnown(a) => AnswerKnown(a)'
    BY <2>3, <2>5, <2>6 DEF AnswerKnown, Stored
  <2>10. AnswersKnown'
    BY <1>1, <2>3, <2>9 DEF IdemCalm, AnswersKnown
  <2>11. Executing(r)'
    BY <1>1, <2>3 DEF Executing, IdemCalm, RequestOrderly
  <2>12. ASSUME NEW q \in IdemRequests \ {r}, Executing(q) PROVE q \in idemBlind'[r]
    <3>1. ~Stored(q)
      BY <1>3 DEF IdemCalm, RequestOrderly
    <3> QED BY <2>4, <2>12, <3>1 DEF Stored, Executing, UnderWay, IdemCalm, IdemShape,
                                     IdemRecords, IdemPhases
  <2>13. OneExecutes'
    <3> SUFFICES ASSUME Unoverlapped', NEW q \in IdemRequests, NEW s \in IdemRequests,
                        Executing(q)', Executing(s)', q # s
                 PROVE  FALSE
      BY DEF OneExecutes
    <3>1. Unoverlapped
      BY <2>4 DEF Unoverlapped, Overlapped
    <3>2. q = r \/ s = r
      BY <2>6, <3>1 DEF IdemCalm, OneExecutes
    <3>3. PICK o \in IdemRequests \ {r} : Executing(o)
      BY <2>6, <3>2
    <3>4. o \in idemBlind'[r]
      BY <2>12, <3>3
    <3> QED BY <3>3, <3>4 DEF Unoverlapped, Overlapped
  <2> QED BY <2>2, <2>8, <2>10, <2>13 DEF IdemCalm
<1> QED BY <1>2, <1>3

LEMMA IdemHandleStep ==
  ASSUME IdemCalm, NEW r \in IdemRequests, IdemHandle(r)
  PROVE  IdemCalm'
<1>1. PICK a \in Answers :
        idemReq' = [idemReq EXCEPT ![r] = [@ EXCEPT !.pc = "redis", !.answer = a]]
  BY DEF IdemHandle, Answers
<1>2. /\ idemRedis' = idemRedis /\ idemRow' = idemRow /\ idemBlind' = idemBlind
      /\ idemReq[r].pc = "run" /\ idemDone' \in {idemDone, idemDone \cup {r}}
  BY DEF IdemHandle
<1>3. IdemShape'
  BY <1>1, <1>2 DEF IdemCalm, IdemShape, IdemRecords, IdemPhases
<1>4. /\ \A q \in IdemRequests \ {r} : idemReq'[q] = idemReq[q]
      /\ idemReq'[r].pc = "redis" /\ idemReq'[r].answer = a
      /\ idemReq'[r].replayed = idemReq[r].replayed
  BY <1>1, <1>2 DEF IdemCalm, IdemShape, IdemRecords
<1>5. \A q \in IdemRequests : (Executing(q)' <=> Executing(q)) /\ (Stored(q)' <=> Stored(q))
  BY <1>2, <1>4 DEF Executing, Stored
<1>6. Executing(r)
  BY <1>2 DEF IdemCalm, RequestOrderly, Executing
<1>7. \A q \in IdemRequests : RequestOrderly(q)'
  BY <1>2, <1>4, <1>5, <1>6, IdemAssumption DEF IdemCalm, RequestOrderly
<1>8. \A b : AnswerKnown(b) => AnswerKnown(b)'
  BY <1>2, <1>4, <1>5 DEF AnswerKnown, Stored
<1>9. AnswersKnown'
  BY <1>2, <1>4, <1>8 DEF IdemCalm, AnswersKnown, RequestOrderly
<1>10. OneExecutes'
  BY <1>2, <1>5 DEF IdemCalm, OneExecutes, Unoverlapped, Overlapped
<1> QED BY <1>3, <1>7, <1>9, <1>10 DEF IdemCalm

LEMMA IdemStoreStep ==
  ASSUME IdemCalm, NEW r \in IdemRequests, StoreInRedis(r) \/ StoreRow(r),
         UNCHANGED idemFaults, idemFaults \in Nat
  PROVE  IdemCalm'
<1>1. PICK pc \in {"row", "end"} : idemReq' = [idemReq EXCEPT ![r].pc = pc]
  BY DEF StoreInRedis, StoreRow
<1>2. /\ idemBlind' = idemBlind /\ idemDone' = idemDone
      /\ idemReq[r].pc \in {"redis", "row"}
      /\ idemReq[r].pc = "redis" => idemRedis' = idemReq[r].answer
      /\ idemReq[r].pc = "row" => idemRedis' = idemRedis
      /\ idemRedis' \in {idemRedis, idemReq[r].answer}
      /\ idemRow' \in {idemRow, idemReq[r].answer}
  BY DEF StoreInRedis, StoreRow, IdemFault
<1>3. IdemShape'
  BY <1>1, <1>2 DEF IdemCalm, IdemShape, IdemRecords, IdemPhases
<1>4. /\ \A q \in IdemRequests \ {r} : idemReq'[q] = idemReq[q]
      /\ idemReq'[r].pc = pc /\ idemReq'[r].answer = idemReq[r].answer
      /\ idemReq'[r].replayed = idemReq[r].replayed
  BY <1>1, <1>2 DEF IdemCalm, IdemShape, IdemRecords
<1>5. Executing(r) /\ Executing(r)' /\ Stored(r)' /\ idemReq[r].answer # NoAnswer
  BY <1>2, <1>4 DEF Executing, Stored, IdemCalm, RequestOrderly
<1>6. \A q \in IdemRequests : (Executing(q)' <=> Executing(q)) /\ (Stored(q) => Stored(q)')
  BY <1>2, <1>4, <1>5 DEF Executing, Stored
<1>7. \A q \in IdemRequests \ {r} : Stored(q)' => Stored(q)
  BY <1>4 DEF Executing, Stored
<1>8. idemRedis' # NoAnswer
  BY <1>2, <1>5 DEF IdemCalm, RequestOrderly, Stored
<1>9. \A q \in IdemRequests : RequestOrderly(q)'
  BY <1>2, <1>4, <1>5, <1>6, <1>8 DEF IdemCalm, RequestOrderly
<1>10. \A b : AnswerKnown(b) => AnswerKnown(b)'
  BY <1>4, <1>6 DEF AnswerKnown
<1>5x. AnswerKnown(idemReq[r].answer)'
  <2>1. PICK b : b = idemReq[r].answer
    OBVIOUS
  <2>2. AnswerKnown(b)'
    BY <1>4, <1>5, <2>1 DEF AnswerKnown
  <2> QED BY <1>4, <2>1, <2>2 DEF AnswerKnown
<1>12. AnswersKnown'
  <2>1. AnswerKnown(idemRedis)' /\ AnswerKnown(idemRow)'
    BY <1>2, <1>4, <1>10, <1>5x DEF IdemCalm, AnswersKnown
  <2>2. \A q \in IdemRequests : idemReq'[q].replayed => AnswerKnown(idemReq[q].answer)'
    BY <1>4, <1>5, <1>10 DEF IdemCalm, AnswersKnown, Executing
  <2> QED BY <2>1, <2>2 DEF AnswersKnown
<1>13. OneExecutes'
  BY <1>2, <1>6 DEF IdemCalm, OneExecutes, Unoverlapped, Overlapped
<1> QED BY <1>3, <1>9, <1>12, <1>13 DEF IdemCalm

LEMMA IdemInductive == IdemInv /\ [IdemNext]_idemVars => IdemInv'
<1> SUFFICES ASSUME IdemInv, [IdemNext]_idemVars PROVE IdemInv'
  OBVIOUS
<1>1. idemFaults' = idemFaults \/ idemFaults' = idemFaults + 1
  BY DEF IdemNext, IdemLookup, IdemHandle, StoreInRedis, StoreRow, IdemExpires, IdemCrash,
         IdemFault, idemVars
<1>2. CASE idemFaults' = idemFaults + 1
  BY <1>2 DEF IdemInv
<1>3. ASSUME idemFaults' = idemFaults, idemFaults = 0 PROVE IdemCalm'
  <2>1. ~IdemExpires /\ ~IdemCrash
    BY <1>3 DEF IdemExpires, IdemCrash, IdemFault, IdemInv
  <2>2. CASE UNCHANGED idemVars
    BY <1>3, <2>2 DEF IdemInv, idemVars, IdemCalm, IdemShape, RequestOrderly, AnswersKnown,
      AnswerKnown, OneExecutes, Unoverlapped, Overlapped, Executing, Stored
  <2> QED
    BY <1>3, <2>1, <2>2, IdemLookupStep, IdemHandleStep, IdemStoreStep DEF IdemInv, IdemNext
<1> QED BY <1>1, <1>2, <1>3 DEF IdemInv

LEMMA IdemFirst == IdemInit => IdemInv
BY DEF IdemInit, IdemInv, IdemCalm, IdemShape, IdemRecords, IdemPhases, RequestOrderly,
       AnswersKnown, AnswerKnown, OneExecutes, Executing, Stored

LEMMA IdemKeeps == IdemInv => IdemOnceUnlessOverlapped
<1> SUFFICES ASSUME IdemCalm, Unoverlapped
             PROVE  /\ \A r, s \in IdemRequests : Ran(r) /\ Ran(s) => r = s
                    /\ Cardinality(idemDone) <= 1
                    /\ Cardinality(({idemReq[r].answer : r \in IdemRequests}
                                     \cup {idemRedis, idemRow}) \ {NoAnswer}) <= 1
  BY DEF IdemInv, IdemOnceUnlessOverlapped, Unoverlapped
<1>1. ASSUME NEW S, \E x : S \subseteq {x} PROVE Cardinality(S) <= 1
  <2>1. PICK x : S \subseteq {x}
    BY <1>1
  <2>2. S = {} \/ S = {x}
    BY <2>1
  <2>3. Cardinality(S) = 0 \/ Cardinality(S) = 1
    BY <2>2, FS_EmptySet, FS_Singleton
  <2> QED BY <2>3
<1>2. \A r \in IdemRequests : Ran(r) => Executing(r)
  BY DEF Ran, Executing, IdemCalm, RequestOrderly
<1>3. \A r, s \in IdemRequests : Executing(r) /\ Executing(s) => r = s
  BY DEF IdemCalm, OneExecutes
<1>4. CASE \A r \in IdemRequests : ~Executing(r)
  <2>1. idemDone = {}
    BY <1>4 DEF IdemCalm, IdemShape, RequestOrderly
  <2>2. \A a : AnswerKnown(a) => a = NoAnswer
    BY <1>4 DEF AnswerKnown, Stored
  <2>3. \A r \in IdemRequests : idemReq[r].answer = NoAnswer
    BY <1>4, <2>2 DEF IdemCalm, RequestOrderly, AnswersKnown, Executing
  <2>4. ({idemReq[r].answer : r \in IdemRequests} \cup {idemRedis, idemRow}) \ {NoAnswer} = {}
    BY <2>2, <2>3 DEF IdemCalm, AnswersKnown
  <2> QED BY <1>1, <1>2, <1>3, <2>1, <2>4
<1>5. CASE \E r \in IdemRequests : Executing(r)
  <2>1. PICK e \in IdemRequests : Executing(e)
    BY <1>5
  <2>2. idemDone \subseteq {e}
    BY <1>3, <2>1 DEF IdemCalm, IdemShape, RequestOrderly
  <2>3. \A a : AnswerKnown(a) => a \in {NoAnswer, idemReq[e].answer}
    BY <1>3, <2>1 DEF AnswerKnown, Stored
  <2>4. \A r \in IdemRequests : idemReq[r].answer \in {NoAnswer, idemReq[e].answer}
    BY <1>3, <2>1, <2>3 DEF IdemCalm, RequestOrderly, AnswersKnown, Executing
  <2>5. ({idemReq[r].answer : r \in IdemRequests} \cup {idemRedis, idemRow}) \ {NoAnswer}
          \subseteq {idemReq[e].answer}
    BY <2>3, <2>4 DEF IdemCalm, AnswersKnown
  <2> QED BY <1>1, <1>2, <1>3, <2>2, <2>5
<1> QED BY <1>4, <1>5

\* Two requests of one key are executed both only if one looked while the other was
\* under way; otherwise every answer that anybody has got, or that is kept, is the
\* one of the only execution (idempotency.ts:48-93, idempotencyService.ts:27-96).
THEOREM IdempotencyTheorem == IdemSpec => []IdemOnceUnlessOverlapped
BY IdemFirst, IdemKeeps, IdemInductive, PTL DEF IdemSpec

-----------------------------------------------------------------------------
(* The caches *)

\* A write has already dropped the key it drops: from the Map of its replica, so
\* also from under the fills in flight.
DroppedLocal(w) ==
  LET wr == cacheWrite[w] IN
  \/ cacheKey \in DropsFirst(wr.kind) /\ wr.pc # "first"
  \/ cacheKey \in DropsNext(wr.kind) /\ wr.pc \in {"shared", "local", "done"}
  \/ cacheKey = "org" /\ DropsOrg(wr.kind) /\ wr.pc = "done"

\* It has crossed the fills in flight, in Redis or in the Map.
DroppedShared(w) ==
  LET wr == cacheWrite[w] IN
  DroppedLocal(w) \/ (cacheKey = "org" /\ DropsOrg(wr.kind) /\ wr.pc = "local")

\* A write the entry should know of, its query having come before.
Unseen(w, entry) ==
  w \in Changing /\ cacheKey \in Drops(cacheWrite[w].kind) /\ w \notin entry.seen

FillsCrossed ==
  \A r \in CacheReaders, w \in CacheWrites :
    /\ cacheFill[r].pc \in {"shared", "local"} /\ Unseen(w, cacheFill[r].entry)
    /\ DroppedShared(w)
    => w \in cacheFill[r].entry.crossed
MapsFresh ==
  \A p \in CacheReplicas, w \in CacheWrites :
    /\ cacheMem[p] # NoEntry /\ Unseen(w, cacheMem[p])
    /\ DroppedLocal(w) /\ cacheWrite[w].at = p
    => w \in cacheMem[p].crossed
RedisFresh ==
  \A w \in CacheWrites :
    cacheShared # NoEntry /\ Unseen(w, cacheShared) /\ DroppedShared(w)
    => w \in cacheShared.crossed

CacheInv ==
  /\ CacheTypeOK
  /\ \A r \in CacheReaders : cacheFill[r].pc = "shared" => cacheKey = "org"
  /\ cacheShared # NoEntry => cacheKey = "org"
  /\ cacheFaults = 0 => cacheLink = CacheReplicas
  /\ cacheFaults = 0 => FillsCrossed /\ MapsFresh /\ RedisFresh
  /\ \A w \in CacheWrites : cacheWrite[w].pc \in {"next", "shared", "local"} =>
       DropsOrg(cacheWrite[w].kind)

FillRecords ==
  [pc : {"query", "shared", "local"}, at : CacheReplicas, entry : Entries]
WriteRecords == [pc : WriteSteps \ {"none"}, kind : Kinds, at : CacheReplicas]

\* A fill under way that a write crosses goes on, and remembers it.
LEMMA FillIsCrossed ==
  ASSUME NEW fill \in FillRecords, NEW w \in CacheWrites, NEW new, new = CrossedBy(fill, w)
  PROVE  /\ new \in FillRecords /\ new.pc = fill.pc
         /\ new.entry.seen = fill.entry.seen
         /\ new.entry.crossed = fill.entry.crossed \cup {w}
<1> DEFINE e == [seen |-> fill.entry.seen, crossed |-> fill.entry.crossed \cup {w}]
<1>1. e \in Entries /\ e.seen = fill.entry.seen /\ e.crossed = fill.entry.crossed \cup {w}
  BY DEF FillRecords, Entries
<1>2. new = [fill EXCEPT !.entry = e]
  BY DEF CrossedBy
<1> HIDE DEF e
<1>3. new \in FillRecords /\ new.pc = fill.pc /\ new.entry = e
  BY <1>1, <1>2 DEF FillRecords
<1> QED
  BY <1>1, <1>3

LEMMA FillsAreCrossed ==
  ASSUME CacheTypeOK, NEW w \in CacheWrites, cacheFill' = Crossed(w)
  PROVE  /\ cacheFill' \in [CacheReaders -> FillRecords \cup {IdleFill}]
         /\ \A r \in CacheReaders :
              /\ cacheFill'[r].pc = cacheFill[r].pc
              /\ cacheFill[r].pc \in {"shared", "local"} =>
                   /\ cacheFill'[r].entry.seen = cacheFill[r].entry.seen
                   /\ cacheFill'[r].entry.crossed = cacheFill[r].entry.crossed \cup {w}
<1>1. cacheFill \in [CacheReaders -> FillRecords \cup {IdleFill}]
  BY DEF CacheTypeOK, FillRecords
<1>2. ASSUME NEW r \in CacheReaders, cacheFill[r].pc \in {"shared", "local"}
      PROVE  /\ cacheFill'[r] \in FillRecords /\ cacheFill'[r].pc = cacheFill[r].pc
             /\ cacheFill'[r].entry.seen = cacheFill[r].entry.seen
             /\ cacheFill'[r].entry.crossed = cacheFill[r].entry.crossed \cup {w}
  <2>1. cacheFill[r] \in FillRecords
    BY <1>1, <1>2 DEF IdleFill
  <2>2. PICK new : new = CrossedBy(cacheFill[r], w)
    OBVIOUS
  <2>3. cacheFill'[r] = new
    BY <1>2, <2>2 DEF Crossed
  <2> QED
    BY <2>1, <2>2, <2>3, FillIsCrossed
<1>3. ASSUME NEW r \in CacheReaders, cacheFill[r].pc \notin {"shared", "local"}
      PROVE  cacheFill'[r] = cacheFill[r]
  BY <1>3 DEF Crossed
<1>4. cacheFill' \in [CacheReaders -> FillRecords \cup {IdleFill}]
  <2>1. \A r \in CacheReaders : cacheFill'[r] \in FillRecords \cup {IdleFill}
    BY <1>1, <1>2, <1>3
  <2>2. cacheFill' = [r \in CacheReaders |-> cacheFill'[r]]
    BY DEF Crossed
  <2> QED
    BY <2>1, <2>2
<1> QED
  BY <1>2, <1>3, <1>4

\* Which keys a write drops, and where.
LEMMA DropTable ==
  ASSUME NEW kind \in Kinds
  PROVE  /\ "org" \notin DropsFirst(kind) \cup DropsNext(kind)
         /\ DropsOrg(kind) \in BOOLEAN
         /\ ~DropsOrg(kind) => DropsNext(kind) = {} /\ Drops(kind) = DropsFirst(kind)
         /\ \A key \in Drops(kind) :
              key \in DropsFirst(kind) \/ key \in DropsNext(kind) \/ (key = "org" /\ DropsOrg(kind))
<1>1. "org" \notin DropsFirst(kind)
  BY DEF Kinds, DropsFirst
<1>2. "org" \notin DropsNext(kind)
  BY DEF DropsNext
<1>3. DropsOrg(kind) \in BOOLEAN /\ (~DropsOrg(kind) => DropsNext(kind) = {})
  BY DEF DropsOrg, DropsNext
<1>4. Drops(kind) = DropsFirst(kind) \cup DropsNext(kind) \cup (IF DropsOrg(kind) THEN {"org"} ELSE {})
  BY DEF Drops
<1> QED
  BY <1>1, <1>2, <1>3, <1>4

\* A step of the write w.
WriteAt(w, pc) ==
  /\ cacheWrite[w].pc # "none"
  /\ cacheWrite' = [cacheWrite EXCEPT ![w].pc = pc]
  /\ cacheKey' = cacheKey

LEMMA WriteAtEffect ==
  ASSUME CacheTypeOK, NEW w \in CacheWrites, NEW pc \in WriteSteps \ {"none"}, WriteAt(w, pc)
  PROVE  /\ cacheWrite' \in [CacheWrites -> WriteRecords \cup {NewWrite}]
         /\ cacheWrite[w] \in WriteRecords /\ cacheWrite'[w].pc = pc
         /\ cacheWrite'[w].kind = cacheWrite[w].kind /\ cacheWrite'[w].at = cacheWrite[w].at
         /\ \A x \in CacheWrites \ {w} : cacheWrite'[x] = cacheWrite[x]
         /\ \A x \in CacheWrites : cacheWrite'[x].kind = cacheWrite[x].kind
                                   /\ cacheWrite'[x].at = cacheWrite[x].at
         /\ Changing' = Changing
<1>1. cacheWrite \in [CacheWrites -> WriteRecords \cup {NewWrite}]
  BY DEF CacheTypeOK, WriteRecords
<1>2. PICK wr \in WriteRecords : wr = cacheWrite[w]
  BY <1>1 DEF WriteAt, NewWrite
<1>3. PICK new : new = [wr EXCEPT !.pc = pc]
  OBVIOUS
<1>4. new \in WriteRecords /\ new.pc = pc /\ new.kind = wr.kind /\ new.at = wr.at
  BY <1>3 DEF WriteRecords
<1>5. cacheWrite' = [cacheWrite EXCEPT ![w] = new]
  BY <1>2, <1>3 DEF WriteAt
<1>6. /\ cacheWrite' \in [CacheWrites -> WriteRecords \cup {NewWrite}]
      /\ cacheWrite'[w] = new /\ \A x \in CacheWrites \ {w} : cacheWrite'[x] = cacheWrite[x]
  BY <1>1, <1>4, <1>5
<1>7. \A x \in CacheWrites : cacheWrite'[x].kind = cacheWrite[x].kind
                             /\ cacheWrite'[x].at = cacheWrite[x].at
  BY <1>2, <1>4, <1>6
<1>8. \A x \in CacheWrites : cacheWrite'[x].pc # "none" <=> cacheWrite[x].pc # "none"
  BY <1>2, <1>4, <1>6 DEF WriteRecords
<1>9. Changing' = Changing
  BY <1>7, <1>8 DEF Changing, WriteAt
<1> QED
  BY <1>2, <1>4, <1>6, <1>7, <1>9

\* A step of a write that fails or drops a key: it is enough that whatever it now
\* counts as dropped is gone from there, with the fills in flight crossed.
LEMMA WriteMoves ==
  ASSUME CacheInv, CacheTypeOK', NEW w \in CacheWrites,
         NEW pc \in WriteSteps \ {"none", "first"}, WriteAt(w, pc),
         pc \in {"next", "shared", "local"} => DropsOrg(cacheWrite[w].kind),
         cacheFaults' = 0 => cacheFaults = 0 /\ cacheLink' = cacheLink,
         \/ cacheFill' = Crossed(w)
         \/ cacheFill' = cacheFill /\ (cacheFaults' = 0 /\ DroppedShared(w)' => DroppedShared(w)),
         \/ cacheMem' = [cacheMem EXCEPT ![cacheWrite[w].at] = NoEntry]
         \/ cacheMem' = cacheMem /\ (cacheFaults' = 0 /\ DroppedLocal(w)' => DroppedLocal(w)),
         \/ cacheShared' = NoEntry
         \/ /\ cacheShared' = cacheShared
            /\ cacheFaults' = 0 /\ DroppedShared(w)' /\ cacheKey = "org" => DroppedShared(w)
  PROVE  CacheInv'
<1>1. CacheTypeOK
  BY DEF CacheInv
<1>2. /\ cacheWrite[w] \in WriteRecords /\ cacheWrite'[w].pc = pc /\ Changing' = Changing
      /\ \A x \in CacheWrites \ {w} : cacheWrite'[x] = cacheWrite[x]
      /\ \A x \in CacheWrites : cacheWrite'[x].kind = cacheWrite[x].kind
                                /\ cacheWrite'[x].at = cacheWrite[x].at
  BY <1>1, WriteAtEffect
<1>3. cacheKey' = cacheKey
  BY DEF WriteAt
<1>4. \A r \in CacheReaders :
        /\ cacheFill'[r].pc = cacheFill[r].pc
        /\ cacheFill[r].pc \in {"shared", "local"} =>
             /\ cacheFill'[r].entry.seen = cacheFill[r].entry.seen
             /\ cacheFill[r].entry.crossed \subseteq cacheFill'[r].entry.crossed
  BY <1>1, FillsAreCrossed
<1>5. \A x \in CacheWrites \ {w} :
        (DroppedLocal(x)' <=> DroppedLocal(x)) /\ (DroppedShared(x)' <=> DroppedShared(x))
  BY <1>2, <1>3 DEF DroppedLocal, DroppedShared
<1>6. ASSUME cacheFaults' = 0 PROVE FillsCrossed'
  <2> SUFFICES ASSUME NEW r \in CacheReaders, NEW x \in CacheWrites,
                      cacheFill'[r].pc \in {"shared", "local"},
                      Unseen(x, cacheFill[r].entry)', DroppedShared(x)'
               PROVE  x \in cacheFill'[r].entry.crossed
    BY DEF FillsCrossed
  <2>1. cacheFill[r].pc \in {"shared", "local"} /\ Unseen(x, cacheFill[r].entry)
    BY <1>2, <1>3, <1>4 DEF Unseen
  <2>2. CASE DroppedShared(x)
    <3>1. x \in cacheFill[r].entry.crossed
      BY <1>6, <2>1, <2>2 DEF CacheInv, FillsCrossed
    <3> QED
      BY <1>4, <2>1, <3>1
  <2>3. CASE ~DroppedShared(x)
    <3>1. x = w /\ cacheFill' = Crossed(w)
      BY <1>5, <1>6, <2>3
    <3> QED
      BY <1>1, <2>1, <3>1, FillsAreCrossed
  <2> QED
    BY <2>2, <2>3
<1>7. ASSUME cacheFaults' = 0 PROVE MapsFresh'
  <2> SUFFICES ASSUME NEW p \in CacheReplicas, NEW x \in CacheWrites,
                      cacheMem'[p] # NoEntry, Unseen(x, cacheMem[p])',
                      DroppedLocal(x)', cacheWrite'[x].at = p
               PROVE  x \in cacheMem'[p].crossed
    BY DEF MapsFresh
  <2>1. cacheMem'[p] = cacheMem[p] /\ cacheMem[p] # NoEntry
    BY <1>1 DEF CacheTypeOK
  <2>2. Unseen(x, cacheMem[p]) /\ cacheWrite[x].at = p
    BY <1>2, <1>3, <2>1 DEF Unseen
  <2>3. DroppedLocal(x)
    <3>1. CASE x # w
      BY <1>5, <3>1
    <3>2. CASE x = w
      <4>1. cacheMem' # [cacheMem EXCEPT ![cacheWrite[w].at] = NoEntry]
        BY <1>1, <2>1, <2>2, <3>2 DEF CacheTypeOK
      <4> QED
        BY <1>7, <3>2, <4>1
    <3> QED
      BY <3>1, <3>2
  <2> QED
    BY <1>7, <2>1, <2>2, <2>3 DEF CacheInv, MapsFresh
<1>8. ASSUME cacheFaults' = 0 PROVE RedisFresh'
  <2> SUFFICES ASSUME NEW x \in CacheWrites,
                      cacheShared' # NoEntry, Unseen(x, cacheShared)', DroppedShared(x)'
               PROVE  x \in cacheShared'.crossed
    BY DEF RedisFresh
  <2>1. cacheShared' = cacheShared /\ cacheKey = "org" /\ Unseen(x, cacheShared)
    BY <1>2, <1>3 DEF Unseen, CacheInv
  <2>2. DroppedShared(x)
    BY <1>5, <1>8, <2>1
  <2> QED
    BY <1>8, <2>1, <2>2 DEF CacheInv, RedisFresh
<1>9. \A r \in CacheReaders : cacheFill'[r].pc = "shared" => cacheKey' = "org"
  BY <1>3, <1>4 DEF CacheInv
<1>10. cacheShared' # NoEntry => cacheKey' = "org"
  BY <1>3 DEF CacheInv
<1>5x. cacheFaults' = 0 => cacheLink' = CacheReplicas
  BY DEF CacheInv
<1>12. \A x \in CacheWrites : cacheWrite'[x].pc \in {"next", "shared", "local"} =>
         DropsOrg(cacheWrite'[x].kind)
  BY <1>2 DEF CacheInv
<1> QED
  BY <1>6, <1>7, <1>8, <1>9, <1>10, <1>5x, <1>12 DEF CacheInv

\* What a step drops from a Map, and the fills that this crosses, have their types.
LEMMA DroppedType ==
  ASSUME CacheTypeOK, NEW w \in CacheWrites, NEW keys, Dropped(w, keys),
         cacheWrite[w].pc # "none"
  PROVE  /\ cacheMem' \in [CacheReplicas -> Entries \cup {NoEntry}]
         /\ cacheFill' \in [CacheReaders -> FillRecords \cup {IdleFill}]
<1>1. cacheMem \in [CacheReplicas -> Entries \cup {NoEntry}]
  BY DEF CacheTypeOK
<1>2. cacheFill \in [CacheReaders -> FillRecords \cup {IdleFill}]
  BY DEF CacheTypeOK, FillRecords
<1> QED
  BY <1>1, <1>2, FillsAreCrossed DEF Dropped

DropStep(w) == DropFirst(w) \/ DropNext(w) \/ DropShared(w) \/ DropLocal(w)

\* The steps of a write have their types.
LEMMA DropType ==
  ASSUME CacheTypeOK, NEW w \in CacheWrites, DropStep(w)
  PROVE  CacheTypeOK'
<1>1. \E pc \in WriteSteps \ {"none"} : cacheWrite' = [cacheWrite EXCEPT ![w].pc = pc]
  BY DEF DropStep, DropFirst, DropNext, DropShared, DropLocal, WriteSteps
<1>2. cacheWrite[w].pc # "none" /\ cacheKey' = cacheKey
  BY DEF DropStep, DropFirst, DropNext, DropShared, DropLocal
<1>3. cacheWrite' \in [CacheWrites -> WriteRecords \cup {NewWrite}]
  BY <1>1, <1>2, WriteAtEffect DEF WriteAt
<1>4. /\ cacheFaults' \in 0..MaxCacheFaults /\ cacheLink' \subseteq CacheReplicas
      /\ cacheShared' \in Entries \cup {NoEntry} /\ cacheKey' \in CacheKeys
  <2>1. cacheFaults' \in 0..MaxCacheFaults
    BY CacheAssumption DEF DropStep, DropFirst, DropNext, DropShared, DropLocal, CacheTypeOK, Fails
  <2>2. cacheLink' \subseteq CacheReplicas /\ cacheShared' \in Entries \cup {NoEntry}
    BY DEF DropStep, DropFirst, DropNext, DropShared, DropLocal, CacheTypeOK
  <2> QED
    BY <1>2, <2>1, <2>2 DEF CacheTypeOK
<1>5. /\ cacheMem' \in [CacheReplicas -> Entries \cup {NoEntry}]
      /\ cacheFill' \in [CacheReaders -> FillRecords \cup {IdleFill}]
  <2>1. \/ \E keys : Dropped(w, keys)
        \/ cacheMem' = cacheMem /\ cacheFill' \in {cacheFill, Crossed(w)}
    BY DEF DropStep, DropFirst, DropNext, DropShared, DropLocal
  <2>2. CASE \E keys : Dropped(w, keys)
    BY <1>2, <2>2, DroppedType
  <2>3. CASE cacheMem' = cacheMem /\ cacheFill' \in {cacheFill, Crossed(w)}
    <3>1. cacheMem \in [CacheReplicas -> Entries \cup {NoEntry}]
          /\ cacheFill \in [CacheReaders -> FillRecords \cup {IdleFill}]
      BY DEF CacheTypeOK, FillRecords
    <3> QED
      BY <2>3, <3>1, FillsAreCrossed
  <2> QED
    BY <2>1, <2>2, <2>3
<1> QED
  BY <1>3, <1>4, <1>5 DEF CacheTypeOK, FillRecords, WriteRecords

\* So do those of a request, of an expiry and of a commit.
LEMMA CacheStepType ==
  ASSUME CacheTypeOK,
         \/ \E r \in CacheReaders :
              \/ \E p \in CacheReplicas : CacheMiss(r, p)
              \/ CacheQuery(r) \/ CacheStoreShared(r) \/ CacheStoreLocal(r)
         \/ CacheExpires
         \/ \E w \in CacheWrites, p \in CacheReplicas, kind \in Kinds : WriteCommits(w, p, kind)
  PROVE  CacheTypeOK'
<1>0. /\ cacheFill \in [CacheReaders -> FillRecords \cup {IdleFill}]
      /\ cacheWrite \in [CacheWrites -> WriteRecords \cup {NewWrite}]
  BY DEF CacheTypeOK, FillRecords, WriteRecords
<1>1. ASSUME NEW r \in CacheReaders, NEW p \in CacheReplicas, CacheMiss(r, p)
      PROVE  CacheTypeOK'
  <2>1. [pc |-> "query", at |-> p, entry |-> [seen |-> {}, crossed |-> {}]] \in FillRecords
    BY DEF FillRecords, Entries
  <2>2. cacheFill' \in [CacheReaders -> FillRecords \cup {IdleFill}]
    BY <1>0, <1>1, <2>1 DEF CacheMiss
  <2>3. cacheFaults' \in 0..MaxCacheFaults /\ cacheLink' \subseteq CacheReplicas
    BY <1>1, CacheAssumption DEF CacheMiss, CacheTypeOK, Fails
  <2> QED
    BY <1>1, <2>2, <2>3 DEF CacheMiss, CacheTypeOK, FillRecords
<1>2. ASSUME NEW r \in CacheReaders, CacheQuery(r)
      PROVE  CacheTypeOK'
  <2>1. PICK fill \in FillRecords : fill = cacheFill[r]
    BY <1>0, <1>2 DEF CacheQuery, IdleFill
  <2>2. \A pc \in {"shared", "local"} :
          [pc |-> pc, at |-> fill.at, entry |-> [seen |-> Changing, crossed |-> {}]]
            \in FillRecords
    BY DEF FillRecords, Entries, Changing
  <2>3. cacheFill' \in [CacheReaders -> FillRecords \cup {IdleFill}]
    BY <1>0, <1>2, <2>1, <2>2 DEF CacheQuery
  <2>4. cacheFaults' \in 0..MaxCacheFaults
    BY <1>2, CacheAssumption DEF CacheQuery, CacheTypeOK, Fails
  <2> QED
    BY <1>2, <2>3, <2>4 DEF CacheQuery, CacheTypeOK, FillRecords
<1>3. ASSUME NEW r \in CacheReaders, CacheStoreShared(r)
      PROVE  CacheTypeOK'
  <2>1. PICK fill \in FillRecords : fill = cacheFill[r]
    BY <1>0, <1>3 DEF CacheStoreShared, IdleFill
  <2>2. PICK new \in FillRecords : new = [fill EXCEPT !.pc = "local"]
    BY DEF FillRecords
  <2>3. cacheFill' \in [CacheReaders -> FillRecords \cup {IdleFill}]
    <3>1. cacheFill' = [cacheFill EXCEPT ![r] = new]
      BY <1>3, <2>1, <2>2 DEF CacheStoreShared
    <3> QED
      BY <1>0, <3>1
  <2>4. cacheShared' \in Entries \cup {NoEntry}
    <3>1. cacheFill[r].entry \in Entries
      BY <2>1 DEF FillRecords
    <3> QED
      BY <1>3, <3>1 DEF CacheStoreShared, CacheTypeOK
  <2>5. cacheFaults' \in 0..MaxCacheFaults /\ cacheLink' \subseteq CacheReplicas
    BY <1>3, CacheAssumption DEF CacheStoreShared, CacheTypeOK, Fails
  <2> QED
    BY <1>3, <2>3, <2>4, <2>5 DEF CacheStoreShared, CacheTypeOK, FillRecords
<1>4. ASSUME NEW r \in CacheReaders, CacheStoreLocal(r)
      PROVE  CacheTypeOK'
  <2>1. cacheFill[r] \in FillRecords
    BY <1>0, <1>4 DEF CacheStoreLocal, IdleFill
  <2>2. cacheMem' \in [CacheReplicas -> Entries \cup {NoEntry}]
    <3>1. cacheFill[r].entry \in Entries
      BY <2>1 DEF FillRecords
    <3> QED
      BY <1>4, <3>1 DEF CacheStoreLocal, CacheTypeOK
  <2>3. cacheFill' \in [CacheReaders -> FillRecords \cup {IdleFill}]
    BY <1>0, <1>4 DEF CacheStoreLocal
  <2> QED
    BY <1>4, <2>2, <2>3 DEF CacheStoreLocal, CacheTypeOK, FillRecords
<1>5. ASSUME CacheExpires PROVE CacheTypeOK'
  BY <1>5 DEF CacheExpires, CacheTypeOK
<1>6. ASSUME NEW w \in CacheWrites, NEW p \in CacheReplicas, NEW kind \in Kinds,
             WriteCommits(w, p, kind)
      PROVE  CacheTypeOK'
  <2>1. [pc |-> "first", kind |-> kind, at |-> p] \in WriteRecords
    BY DEF WriteRecords, WriteSteps
  <2>2. cacheWrite' \in [CacheWrites -> WriteRecords \cup {NewWrite}]
    BY <1>0, <1>6, <2>1 DEF WriteCommits
  <2> QED
    BY <1>6, <2>2 DEF WriteCommits, CacheTypeOK, WriteRecords
<1> QED
  BY <1>1, <1>2, <1>3, <1>4, <1>5, <1>6

\* What counts as dropped by the write w, by its step.
LEMMA DroppedByStep ==
  ASSUME CacheTypeOK, NEW w \in CacheWrites, NEW pc \in WriteSteps \ {"none"}, WriteAt(w, pc),
         NEW kind, kind = cacheWrite[w].kind
  PROVE  /\ kind \in Kinds
         /\ DroppedLocal(w)' <=>
              \/ cacheKey \in DropsFirst(kind) /\ pc # "first"
              \/ cacheKey \in DropsNext(kind) /\ pc \in {"shared", "local", "done"}
              \/ cacheKey = "org" /\ DropsOrg(kind) /\ pc = "done"
         /\ DroppedShared(w)' <=>
              DroppedLocal(w)' \/ (cacheKey = "org" /\ DropsOrg(kind) /\ pc = "local")
<1>1. /\ cacheWrite[w] \in WriteRecords /\ cacheWrite'[w].pc = pc
      /\ cacheWrite'[w].kind = kind /\ cacheKey' = cacheKey
  BY WriteAtEffect DEF WriteAt
<1> QED
  BY <1>1 DEF DroppedLocal, DroppedShared, WriteRecords

\* Every step of a write keeps the invariant.
LEMMA DropInv ==
  ASSUME CacheInv, NEW w \in CacheWrites, DropStep(w)
  PROVE  CacheInv'
<1>0. CacheTypeOK /\ CacheTypeOK'
  BY DropType DEF CacheInv
<1> DEFINE kind == cacheWrite[w].kind
<1>1. cacheWrite[w].pc # "none" /\ cacheKey' = cacheKey
  BY DEF DropStep, DropFirst, DropNext, DropShared, DropLocal
<1>2. /\ kind \in Kinds /\ "org" \notin DropsFirst(kind) \cup DropsNext(kind)
      /\ ~DropsOrg(kind) => DropsNext(kind) = {}
  <2>1. kind \in Kinds
    BY <1>0, <1>1 DEF CacheTypeOK, NewWrite
  <2> QED
    BY <2>1, DropTable
<1>3. CASE DropFirst(w)
  <2>1. PICK pc \in {"next", "done"} :
          WriteAt(w, pc) /\ (pc = "next" <=> DropsOrg(kind))
    BY <1>1, <1>2, <1>3, DropTable DEF DropFirst, WriteAt
  <2>2. UNCHANGED <<cacheFaults, cacheLink, cacheShared>>
    BY <1>3 DEF DropFirst
  <2>3. cacheKey \notin DropsFirst(kind) => ~DroppedLocal(w)' /\ ~DroppedShared(w)'
    BY <1>0, <1>2, <2>1, DroppedByStep DEF WriteSteps
  <2>4. cacheKey = "org" => ~DroppedShared(w)'
    BY <1>2, <2>3
  <2>5. CASE cacheKey \in DropsFirst(kind)
    <3>1. cacheFill' = Crossed(w) /\ cacheMem' = [cacheMem EXCEPT ![cacheWrite[w].at] = NoEntry]
      BY <1>3, <2>5 DEF DropFirst, Dropped
    <3> QED
      BY <1>0, <2>1, <2>2, <2>4, <3>1, WriteMoves DEF WriteSteps
  <2>6. CASE cacheKey \notin DropsFirst(kind)
    <3>1. cacheFill' = cacheFill /\ cacheMem' = cacheMem
      BY <1>3, <2>6 DEF DropFirst, Dropped
    <3> QED
      BY <1>0, <2>1, <2>2, <2>3, <2>6, <3>1, WriteMoves DEF WriteSteps
  <2> QED
    BY <2>5, <2>6
<1>4. CASE DropNext(w)
  <2>1. CASE Dropped(w, DropsNext(kind)) /\ UNCHANGED cacheFaults
             /\ cacheWrite' = [cacheWrite EXCEPT ![w].pc = "shared"]
    <3>1. WriteAt(w, "shared") /\ UNCHANGED <<cacheLink, cacheShared>> /\ DropsOrg(kind)
      BY <1>1, <1>4, <2>1 DEF DropNext, WriteAt, CacheInv
    <3>2. cacheKey \notin DropsNext(kind) =>
            /\ DroppedLocal(w)' => DroppedLocal(w)
            /\ DroppedShared(w)' => DroppedShared(w)
      BY <1>0, <1>4, <3>1, DroppedByStep DEF DropNext, WriteSteps, DroppedLocal, DroppedShared
    <3>3. cacheKey = "org" => (DroppedShared(w)' => DroppedShared(w))
      BY <1>2, <3>2
    <3>4. CASE cacheKey \in DropsNext(kind)
      <4>1. cacheFill' = Crossed(w)
            /\ cacheMem' = [cacheMem EXCEPT ![cacheWrite[w].at] = NoEntry]
        BY <2>1, <3>4 DEF Dropped
      <4> QED
        BY <1>0, <2>1, <3>1, <3>3, <4>1, WriteMoves DEF WriteSteps
    <3>5. CASE cacheKey \notin DropsNext(kind)
      <4>1. cacheFill' = cacheFill /\ cacheMem' = cacheMem
        BY <2>1, <3>5 DEF Dropped
      <4> QED
        BY <1>0, <2>1, <3>1, <3>2, <3>5, <4>1, WriteMoves DEF WriteSteps
    <3> QED
      BY <3>4, <3>5
  <2>2. CASE Fails /\ cacheWrite' = [cacheWrite EXCEPT ![w].pc = "done"]
             /\ UNCHANGED <<cacheMem, cacheFill>>
    <3>1. WriteAt(w, "done") /\ UNCHANGED cacheShared /\ cacheFaults' # 0
      BY <1>0, <1>1, <1>4, <2>2, CacheAssumption DEF DropNext, WriteAt, CacheTypeOK, Fails
    <3> QED
      BY <1>0, <2>2, <3>1, WriteMoves DEF WriteSteps
  <2> QED
    BY <1>4, <2>1, <2>2 DEF DropNext
<1>5. CASE DropShared(w)
  <2>1. WriteAt(w, "local") /\ cacheMem' = cacheMem /\ DropsOrg(kind)
    BY <1>1, <1>5 DEF DropShared, WriteAt, CacheInv
  <2>2. /\ DroppedLocal(w)' => DroppedLocal(w)
        /\ cacheKey # "org" => (DroppedShared(w)' => DroppedShared(w))
    BY <1>0, <1>5, <2>1, DroppedByStep DEF DropShared, WriteSteps, DroppedLocal, DroppedShared
  <2>3. CASE cacheShared' = NoEntry /\ cacheFill' = Crossed(w) /\ UNCHANGED <<cacheLink, cacheFaults>>
    BY <1>0, <2>1, <2>2, <2>3, WriteMoves DEF WriteSteps
  <2>4. CASE Fails /\ UNCHANGED <<cacheShared, cacheFill>>
    <3>1. cacheFaults' # 0
      BY <1>0, <2>4, CacheAssumption DEF CacheTypeOK, Fails
    <3> QED
      BY <1>0, <2>1, <2>4, <3>1, WriteMoves DEF WriteSteps
  <2>5. CASE ~(cacheKey = "org" /\ cacheWrite[w].at \in cacheLink)
             /\ UNCHANGED <<cacheShared, cacheFill, cacheLink, cacheFaults>>
    <3>1. cacheWrite[w].at \in CacheReplicas
      BY <1>0, <1>1 DEF CacheTypeOK, NewWrite
    <3>2. cacheFaults' = 0 => cacheKey # "org"
      BY <2>5, <3>1 DEF CacheInv
    <3> QED
      BY <1>0, <2>1, <2>2, <2>5, <3>2, WriteMoves DEF WriteSteps
  <2> QED
    BY <1>5, <2>3, <2>4, <2>5 DEF DropShared
<1>6. CASE DropLocal(w)
  <2>1. /\ WriteAt(w, "done") /\ UNCHANGED <<cacheShared, cacheLink, cacheFaults>>
        /\ DropsOrg(kind) /\ cacheWrite[w].pc = "local" /\ Dropped(w, {"org"})
    BY <1>1, <1>6 DEF DropLocal, WriteAt, CacheInv
  <2>2. /\ cacheKey = "org" => DroppedShared(w)
        /\ cacheKey # "org" => (DroppedLocal(w)' => DroppedLocal(w))
        /\ cacheKey # "org" => (DroppedShared(w)' => DroppedShared(w))
    BY <1>0, <2>1, DroppedByStep DEF WriteSteps, DroppedLocal, DroppedShared
  <2>3. CASE cacheKey = "org"
    <3>1. cacheFill' = Crossed(w) /\ cacheMem' = [cacheMem EXCEPT ![cacheWrite[w].at] = NoEntry]
      BY <2>1, <2>3 DEF Dropped
    <3> QED
      BY <1>0, <2>1, <2>2, <2>3, <3>1, WriteMoves DEF WriteSteps
  <2>4. CASE cacheKey # "org"
    <3>1. cacheFill' = cacheFill /\ cacheMem' = cacheMem
      BY <2>1, <2>4 DEF Dropped
    <3> QED
      BY <1>0, <2>1, <2>2, <2>4, <3>1, WriteMoves DEF WriteSteps
  <2> QED
    BY <2>3, <2>4
<1> QED
  BY <1>3, <1>4, <1>5, <1>6 DEF DropStep

\* A step that moves entries about and starts or drops nothing.
LEMMA EntriesMove ==
  ASSUME CacheInv, UNCHANGED <<cacheKey, cacheWrite>>,
         cacheFaults' = 0 => cacheFaults = 0 /\ cacheLink' = cacheLink, CacheTypeOK',
         \A r \in CacheReaders :
           \/ cacheFill'[r].pc \notin {"shared", "local"}
           \/ /\ cacheFill'[r].entry.seen = Changing
              /\ cacheFill'[r].pc = "shared" => cacheKey = "org"
           \/ /\ cacheFill[r].pc \in {"shared", "local"}
              /\ cacheFill'[r].entry = cacheFill[r].entry
              /\ cacheFill'[r].pc \in {"local", cacheFill[r].pc},
         \A p \in CacheReplicas :
           \/ cacheMem'[p] \in {NoEntry, cacheMem[p]}
           \/ \E r \in CacheReaders :
                cacheFill[r].pc \in {"shared", "local"} /\ cacheMem'[p] = cacheFill[r].entry,
         \/ cacheShared' \in {NoEntry, cacheShared}
         \/ \E r \in CacheReaders :
              cacheFill[r].pc = "shared" /\ cacheShared' = cacheFill[r].entry
  PROVE  CacheInv'
<1>1. /\ Changing' = Changing
      /\ \A w \in CacheWrites :
           (DroppedLocal(w)' <=> DroppedLocal(w)) /\ (DroppedShared(w)' <=> DroppedShared(w))
  BY DEF Changing, DroppedLocal, DroppedShared
<1>2. \A w \in CacheWrites : DroppedLocal(w) => DroppedShared(w)
  BY DEF DroppedShared
<1>3. ASSUME cacheFaults' = 0 PROVE FillsCrossed'
  <2> SUFFICES ASSUME NEW r \in CacheReaders, NEW w \in CacheWrites,
                      cacheFill'[r].pc \in {"shared", "local"},
                      Unseen(w, cacheFill[r].entry)', DroppedShared(w)'
               PROVE  w \in cacheFill'[r].entry.crossed
    BY DEF FillsCrossed
  <2>1. /\ w \in Changing /\ cacheKey \in Drops(cacheWrite[w].kind)
        /\ w \notin cacheFill'[r].entry.seen /\ DroppedShared(w)
    BY <1>1 DEF Unseen
  <2>2. cacheFill[r].pc \in {"shared", "local"} /\ cacheFill'[r].entry = cacheFill[r].entry
    BY <2>1
  <2>3. Unseen(w, cacheFill[r].entry)
    BY <2>1, <2>2 DEF Unseen
  <2> QED
    BY <1>3, <2>1, <2>2, <2>3 DEF CacheInv, FillsCrossed
<1>4. ASSUME cacheFaults' = 0 PROVE MapsFresh'
  <2> SUFFICES ASSUME NEW p \in CacheReplicas, NEW w \in CacheWrites,
                      cacheMem'[p] # NoEntry, Unseen(w, cacheMem[p])',
                      DroppedLocal(w)', cacheWrite'[w].at = p
               PROVE  w \in cacheMem'[p].crossed
    BY DEF MapsFresh
  <2>1. /\ w \in Changing /\ cacheKey \in Drops(cacheWrite[w].kind)
        /\ w \notin cacheMem'[p].seen /\ DroppedLocal(w) /\ cacheWrite[w].at = p
    BY <1>1 DEF Unseen
  <2>2. CASE cacheMem'[p] = cacheMem[p]
    BY <1>4, <2>1, <2>2 DEF CacheInv, MapsFresh, Unseen
  <2>3. ASSUME NEW r \in CacheReaders, cacheFill[r].pc \in {"shared", "local"},
               cacheMem'[p] = cacheFill[r].entry
        PROVE  w \in cacheMem'[p].crossed
    BY <1>2, <1>4, <2>1, <2>3 DEF CacheInv, FillsCrossed, Unseen
  <2> QED
    BY <2>2, <2>3
<1>5. ASSUME cacheFaults' = 0 PROVE RedisFresh'
  <2> SUFFICES ASSUME NEW w \in CacheWrites,
                      cacheShared' # NoEntry, Unseen(w, cacheShared)', DroppedShared(w)'
               PROVE  w \in cacheShared'.crossed
    BY DEF RedisFresh
  <2>1. /\ w \in Changing /\ cacheKey \in Drops(cacheWrite[w].kind)
        /\ w \notin cacheShared'.seen /\ DroppedShared(w)
    BY <1>1 DEF Unseen
  <2>2. CASE cacheShared' = cacheShared
    BY <1>5, <2>1, <2>2 DEF CacheInv, RedisFresh, Unseen
  <2>3. ASSUME NEW r \in CacheReaders, cacheFill[r].pc = "shared",
               cacheShared' = cacheFill[r].entry
        PROVE  w \in cacheShared'.crossed
    BY <1>5, <2>1, <2>3 DEF CacheInv, FillsCrossed, Unseen
  <2> QED
    BY <2>2, <2>3
<1>6. \A r \in CacheReaders : cacheFill'[r].pc = "shared" => cacheKey' = "org"
  BY DEF CacheInv
<1>7. cacheShared' # NoEntry => cacheKey' = "org"
  BY DEF CacheInv
<1>8. cacheFaults' = 0 => cacheLink' = CacheReplicas
  BY DEF CacheInv
<1>9. \A w \in CacheWrites : cacheWrite'[w].pc \in {"next", "shared", "local"} =>
        DropsOrg(cacheWrite'[w].kind)
  BY DEF CacheInv
<1> QED
  BY <1>3, <1>4, <1>5, <1>6, <1>7, <1>8, <1>9 DEF CacheInv

\* A commit drops nothing yet.
LEMMA CommitInv ==
  ASSUME CacheInv, CacheTypeOK', NEW w \in CacheWrites, NEW p \in CacheReplicas,
         NEW kind \in Kinds, WriteCommits(w, p, kind)
  PROVE  CacheInv'
<1>1. /\ cacheWrite'[w] = [pc |-> "first", kind |-> kind, at |-> p]
      /\ \A x \in CacheWrites \ {w} : cacheWrite'[x] = cacheWrite[x]
      /\ UNCHANGED <<cacheKey, cacheMem, cacheShared, cacheLink, cacheFill, cacheFaults>>
  BY DEF WriteCommits, CacheInv, CacheTypeOK
<1>2. "org" \notin DropsFirst(kind) \cup DropsNext(kind)
  BY DropTable
<1>3. ~DroppedLocal(w)' /\ ~DroppedShared(w)'
  BY <1>1 DEF DroppedLocal, DroppedShared
<1>4. \A x \in CacheWrites : DroppedShared(x)' =>
        /\ x # w /\ DroppedShared(x) /\ cacheWrite'[x] = cacheWrite[x]
        /\ x \in Changing' <=> x \in Changing
  BY <1>1, <1>3 DEF DroppedLocal, DroppedShared, Changing
<1>5. \A x \in CacheWrites : DroppedLocal(x)' =>
        /\ x # w /\ DroppedLocal(x) /\ cacheWrite'[x] = cacheWrite[x]
        /\ x \in Changing' <=> x \in Changing
  BY <1>1, <1>3 DEF DroppedLocal, Changing
<1>6. ASSUME cacheFaults' = 0 PROVE FillsCrossed' /\ RedisFresh'
  <2>1. FillsCrossed /\ RedisFresh
    BY <1>1, <1>6 DEF CacheInv
  <2> QED
    BY <1>1, <1>4, <2>1 DEF FillsCrossed, RedisFresh, Unseen
<1>7. ASSUME cacheFaults' = 0 PROVE MapsFresh'
  <2>1. MapsFresh
    BY <1>1, <1>7 DEF CacheInv
  <2> QED
    BY <1>1, <1>5, <2>1 DEF MapsFresh, Unseen
<1> QED
  BY <1>1, <1>6, <1>7 DEF CacheInv

\* So do a request, an expiry and a commit.
LEMMA CacheStepInv ==
  ASSUME CacheInv,
         \/ \E r \in CacheReaders :
              \/ \E p \in CacheReplicas : CacheMiss(r, p)
              \/ CacheQuery(r) \/ CacheStoreShared(r) \/ CacheStoreLocal(r)
         \/ CacheExpires
         \/ \E w \in CacheWrites, p \in CacheReplicas, kind \in Kinds : WriteCommits(w, p, kind)
  PROVE  CacheInv'
<1>0. CacheTypeOK /\ CacheTypeOK'
  BY CacheStepType DEF CacheInv
<1>00. /\ cacheFill \in [CacheReaders -> FillRecords \cup {IdleFill}] /\ cacheFaults \in Nat
       /\ cacheMem \in [CacheReplicas -> Entries \cup {NoEntry}]
  BY <1>0, CacheAssumption DEF CacheTypeOK, FillRecords
<1>1. ASSUME NEW r \in CacheReaders, NEW p \in CacheReplicas, CacheMiss(r, p)
      PROVE  CacheInv'
  <2>1. /\ UNCHANGED <<cacheKey, cacheWrite, cacheMem, cacheShared>>
        /\ cacheFaults' = 0 => cacheFaults = 0 /\ cacheLink' = cacheLink
        /\ cacheFill'[r].pc = "query"
        /\ \A q \in CacheReaders \ {r} : cacheFill'[q] = cacheFill[q]
    BY <1>1, <1>00 DEF CacheMiss, Fails
  <2> QED
    BY <1>0, <2>1, EntriesMove
<1>2. ASSUME NEW r \in CacheReaders, CacheQuery(r)
      PROVE  CacheInv'
  <2>1. /\ UNCHANGED <<cacheKey, cacheWrite, cacheMem, cacheShared, cacheLink>>
        /\ cacheFaults' = 0 => cacheFaults = 0
        /\ \/ cacheFill'[r].pc = "idle"
           \/ /\ cacheFill'[r].entry.seen = Changing
              /\ cacheFill'[r].pc = "shared" => cacheKey = "org"
        /\ \A q \in CacheReaders \ {r} : cacheFill'[q] = cacheFill[q]
    <3>1. CASE cacheFill' = [cacheFill EXCEPT ![r] = IdleFill]
      BY <1>2, <1>00, <3>1 DEF CacheQuery, Fails, IdleFill
    <3>2. CASE cacheFill' = [cacheFill EXCEPT ![r] =
             [pc |-> IF cacheKey = "org" THEN "shared" ELSE "local", at |-> cacheFill[r].at,
              entry |-> [seen |-> Changing, crossed |-> {}]]]
      <4>1. cacheFill'[r] = [pc |-> IF cacheKey = "org" THEN "shared" ELSE "local",
              at |-> cacheFill[r].at, entry |-> [seen |-> Changing, crossed |-> {}]]
        BY <1>00, <3>2
      <4>2. \A q \in CacheReaders \ {r} : cacheFill'[q] = cacheFill[q]
        BY <1>00, <3>2
      <4>3. cacheFill'[r].entry.seen = Changing
            /\ (cacheFill'[r].pc = "shared" => cacheKey = "org")
        BY <4>1
      <4>4. /\ UNCHANGED <<cacheKey, cacheWrite, cacheMem, cacheShared, cacheLink>>
            /\ cacheFaults' = 0 => cacheFaults = 0
        BY <1>2, <1>00 DEF CacheQuery, Fails
      <4> QED
        BY <4>2, <4>3, <4>4
    <3> QED
      BY <1>2, <3>1, <3>2 DEF CacheQuery
  <2> QED
    BY <1>0, <2>1, EntriesMove
<1>3. ASSUME NEW r \in CacheReaders, CacheStoreShared(r)
      PROVE  CacheInv'
  <2>1. PICK fill \in FillRecords : fill = cacheFill[r] /\ fill.pc = "shared"
    BY <1>00, <1>3 DEF CacheStoreShared, IdleFill
  <2>2. PICK new : new = [fill EXCEPT !.pc = "local"]
    OBVIOUS
  <2>6. new.pc = "local" /\ new.entry = fill.entry
    BY <2>2 DEF FillRecords
  <2>3. cacheFill' = [cacheFill EXCEPT ![r] = new]
    BY <1>3, <2>1, <2>2 DEF CacheStoreShared
  <2>4. /\ UNCHANGED <<cacheKey, cacheWrite, cacheMem>>
        /\ cacheFaults' = 0 => cacheFaults = 0 /\ cacheLink' = cacheLink
        /\ cacheShared' \in {cacheShared, cacheFill[r].entry}
    BY <1>3, <1>00 DEF CacheStoreShared, Fails
  <2>5. cacheFill'[r] = new /\ \A q \in CacheReaders \ {r} : cacheFill'[q] = cacheFill[q]
    BY <1>00, <2>3
  <2> QED
    BY <1>0, <2>1, <2>6, <2>4, <2>5, EntriesMove
<1>4. ASSUME NEW r \in CacheReaders, CacheStoreLocal(r)
      PROVE  CacheInv'
  <2>1. /\ UNCHANGED <<cacheKey, cacheWrite, cacheShared, cacheLink, cacheFaults>>
        /\ cacheFill'[r].pc = "idle" /\ cacheFill[r].pc = "local"
        /\ \A q \in CacheReaders \ {r} : cacheFill'[q] = cacheFill[q]
        /\ \A p \in CacheReplicas : cacheMem'[p] \in {cacheMem[p], cacheFill[r].entry}
    BY <1>4, <1>00 DEF CacheStoreLocal, IdleFill
  <2> QED
    BY <1>0, <2>1, EntriesMove
<1>5. ASSUME CacheExpires PROVE CacheInv'
  <2>1. /\ UNCHANGED <<cacheKey, cacheWrite, cacheFill, cacheLink, cacheFaults>>
        /\ cacheShared' \in {cacheShared, NoEntry}
        /\ \A p \in CacheReplicas : cacheMem'[p] \in {cacheMem[p], NoEntry}
    BY <1>5, <1>00 DEF CacheExpires
  <2> QED
    BY <1>0, <2>1, EntriesMove
<1>6. ASSUME NEW w \in CacheWrites, NEW p \in CacheReplicas, NEW kind \in Kinds,
             WriteCommits(w, p, kind)
      PROVE  CacheInv'
  BY <1>0, <1>6, CommitInv
<1> QED
  BY <1>1, <1>2, <1>3, <1>4, <1>5, <1>6

\* Every step of the caches keeps the invariant.
LEMMA CacheKept ==
  ASSUME CacheInv, [CacheNext]_cacheVars
  PROVE  CacheInv'
<1>1. CASE UNCHANGED cacheVars
  <2>1. CacheTypeOK'
    BY <1>1 DEF CacheInv, CacheTypeOK, cacheVars
  <2> QED
    BY <1>1, <2>1, EntriesMove DEF cacheVars, CacheInv
<1>2. CASE CacheNext
  BY <1>2, DropInv, CacheStepInv DEF CacheNext, DropStep
<1> QED
  BY <1>1, <1>2

\* The caches are empty and every client is connected.
LEMMA CacheFirst == CacheInit => CacheInv
<1> SUFFICES ASSUME CacheInit PROVE CacheInv
  OBVIOUS
<1>1. CacheTypeOK
  BY CacheAssumption DEF CacheInit, CacheTypeOK
<1>2. FillsCrossed /\ MapsFresh /\ RedisFresh
  BY DEF CacheInit, FillsCrossed, MapsFresh, RedisFresh, IdleFill
<1> QED
  BY <1>1, <1>2 DEF CacheInit, CacheInv, IdleFill, NewWrite

\* A write that is done has dropped what it drops.
LEMMA DoneHasDropped ==
  ASSUME CacheTypeOK, NEW w \in CacheWrites, cacheWrite[w].pc = "done",
         cacheKey \in Drops(cacheWrite[w].kind)
  PROVE  DroppedLocal(w) /\ DroppedShared(w)
<1>1. cacheWrite[w].kind \in Kinds
  BY DEF CacheTypeOK, NewWrite
<1> QED
  BY <1>1, DropTable DEF DroppedLocal, DroppedShared

LEMMA CacheKeeps == CacheInv => StaleOnlyByOverlap
<1> SUFFICES ASSUME CacheInv, NEW w \in Changing
             PROVE  /\ \A p \in CacheReplicas :
                         cacheMem[p] # NoEntry /\ w \notin cacheMem[p].seen =>
                           Excused(w, cacheMem[p]) \/ cacheWrite[w].at # p
                    /\ cacheShared # NoEntry /\ w \notin cacheShared.seen =>
                         Excused(w, cacheShared)
  BY DEF StaleOnlyByOverlap
<1>1. w \in CacheWrites /\ cacheFaults \in Nat
  BY CacheAssumption DEF Changing, CacheInv, CacheTypeOK
<1>2. CASE /\ cacheKey \in Drops(cacheWrite[w].kind)
           /\ cacheWrite[w].pc = "done" /\ cacheFaults = 0
  <2>1. DroppedLocal(w) /\ DroppedShared(w)
    BY <1>1, <1>2, DoneHasDropped DEF CacheInv
  <2>2. MapsFresh /\ RedisFresh
    BY <1>2 DEF CacheInv
  <2> QED
    BY <1>1, <1>2, <2>1, <2>2 DEF MapsFresh, RedisFresh, Unseen, Excused
<1>3. CASE ~ (/\ cacheKey \in Drops(cacheWrite[w].kind)
              /\ cacheWrite[w].pc = "done" /\ cacheFaults = 0)
  BY <1>1, <1>3 DEF Excused
<1> QED
  BY <1>2, <1>3

\* With any replicas, requests and writes, an answer in a Map or in Redis is older
\* than the tables only where its query overlapped the write, where the write does
\* not drop that key or is not done, where it ran in another replica, or after a
\* fault (queries.ts:296-334, payrollSummaryCache.ts:52-87).
THEOREM CacheTheorem == CacheSpec => []StaleOnlyByOverlap
BY CacheFirst, CacheKept, CacheKeeps, PTL DEF CacheSpec

-----------------------------------------------------------------------------
(* AuditLog *)

\* A transaction that is not open has no rows, and a flush goes through its
\* snapshot entry by entry.
SessionsFine ==
  \A s \in AuditSessions : auditSession[s].tx # "open" =>
    \A e \in AuditEntries : auditSession[s].rows[e] = 0
SnapshotsFine ==
  \A f \in AuditFlushes :
    /\ auditFlush[f].pc \in {"begin", "insert"} => auditFlush[f].at \in 1..Len(auditFlush[f].batch)
    /\ auditFlush[f].pc = "commit" => auditFlush[f].at = Len(auditFlush[f].batch) + 1

\* An entry is somewhere, or went with a transaction.
Located(e) ==
  \/ e \in ToSet(auditQueue)
  \/ \E f \in AuditFlushes : Holding(auditFlush[f], e)
  \/ auditRows[e] > 0 \/ \E s \in AuditSessions : auditSession[s].rows[e] > 0
  \/ e \in auditDropped \/ e \in auditTorn
NothingLost == PoolOpen => \A e \in 1..auditLogged : Located(e)

\* While nothing has failed, no transaction is aborted, no snapshot has an entry
\* twice, and an entry is in one place from when it is logged.
Faultless == PoolOpen /\ auditFaults = 0
Calm ==
  Faultless =>
    /\ \A s \in AuditSessions : auditSession[s].tx # "aborted"
    /\ \A f \in AuditFlushes :
         /\ auditFlush[f].pc # "rollback"
         /\ auditFlush[f].pc # "idle" =>
              \A i, j \in DOMAIN auditFlush[f].batch :
                auditFlush[f].batch[i] = auditFlush[f].batch[j] => i = j
OnePlace ==
  Faultless => \A e \in AuditEntries : Places(e) = IF e <= auditLogged THEN 1 ELSE 0

FlushRecords ==
  [pc : {"begin", "insert", "commit", "rollback"}, batch : Seq(AuditEntries), at : Nat]
SessionRecords == [tx : {"none", "open", "aborted"}, rows : [AuditEntries -> Nat]]
\* The type invariant.
AuditTypes ==
  /\ auditQueue \in Seq(AuditEntries) /\ auditLogged \in 0..MaxEntries
  /\ auditDropped \subseteq AuditEntries /\ auditTorn \subseteq AuditEntries
  /\ auditFlush \in [AuditFlushes -> FlushRecords \cup {IdleFlush}]
  /\ auditSession \in [AuditSessions -> SessionRecords]
  /\ auditRows \in [AuditEntries -> Nat]
  /\ auditPhase \in {"up", "stopping", "poolEnded", "exited"}
  /\ auditFaults \in 0..MaxAuditFaults
AuditTyped == AuditTypes /\ SessionsFine /\ SnapshotsFine

AuditInv == AuditTyped /\ NothingLost /\ Calm /\ OnePlace

LEMMA PhasesAre == ToSet(AuditPhases) = {"up", "stopping", "poolEnded", "exited"}
<1>1. AuditPhases \in Seq({"up", "stopping", "poolEnded", "exited"}) /\ Len(AuditPhases) = 4
      /\ DOMAIN AuditPhases = 1..4
  BY DEF AuditPhases
<1>2. /\ AuditPhases[1] = "up" /\ AuditPhases[2] = "stopping"
      /\ AuditPhases[3] = "poolEnded" /\ AuditPhases[4] = "exited"
  BY DEF AuditPhases
<1>3. 1 \in 1..4 /\ 2 \in 1..4 /\ 3 \in 1..4 /\ 4 \in 1..4
      /\ \A i \in 1..4 : i = 1 \/ i = 2 \/ i = 3 \/ i = 4
  OBVIOUS
<1> HIDE DEF AuditPhases
<1> QED
  BY <1>1, <1>2, <1>3 DEF ToSet

LEMMA AuditTypesOK == AuditTypes <=> AuditTypeOK
  BY PhasesAre DEF AuditTypes, AuditTypeOK, FlushRecords, SessionRecords

LEMMA FlushOfProcess ==
  ASSUME AuditTypes, NEW f \in AuditFlushes, auditFlush[f].pc # "idle"
  PROVE  auditFlush[f] \in FlushRecords
  BY DEF AuditTypes, IdleFlush, FlushRecords

LEMMA SessionOfPool ==
  ASSUME AuditTypes, NEW s \in AuditSessions
  PROVE  /\ auditSession[s] \in SessionRecords
         /\ \A e \in AuditEntries : auditSession[s].rows[e] \in Nat /\ auditRows[e] \in Nat
  BY DEF AuditTypes, SessionRecords

LEMMA FreshSessionRecord ==
  /\ FreshSession \in SessionRecords /\ FreshSession.tx = "none"
  /\ \A e \in AuditEntries : FreshSession.rows[e] = 0
  BY DEF FreshSession, SessionRecords, NoRows

LEMMA IdleFlushHolds == IdleFlush.pc = "idle" /\ \A e : ~Holding(IdleFlush, e)
  BY DEF IdleFlush, Holding

LEMMA WithRowRecord ==
  ASSUME NEW session \in SessionRecords, NEW x \in AuditEntries
  PROVE  /\ WithRow(session, x) \in SessionRecords /\ WithRow(session, x).tx = session.tx
         /\ WithRow(session, x).rows[x] = session.rows[x] + 1
         /\ \A e \in AuditEntries \ {x} : WithRow(session, x).rows[e] = session.rows[e]
<1>1. session.rows \in [AuditEntries -> Nat] /\ session.tx \in {"none", "open", "aborted"}
  BY DEF SessionRecords
<1>2. [session.rows EXCEPT ![x] = @ + 1] \in [AuditEntries -> Nat]
  BY <1>1
<1>3. /\ [session.rows EXCEPT ![x] = @ + 1][x] = session.rows[x] + 1
      /\ \A e \in AuditEntries \ {x} : [session.rows EXCEPT ![x] = @ + 1][e] = session.rows[e]
  BY <1>1
<1> QED
  BY <1>1, <1>2, <1>3 DEF WithRow, SessionRecords

LEMMA AdvancedRecord ==
  ASSUME NEW flush \in FlushRecords, flush.at \in 1..Len(flush.batch)
  PROVE  /\ Advanced(flush) \in FlushRecords /\ Advanced(flush).batch = flush.batch
         /\ Advanced(flush).at = flush.at + 1
         /\ Advanced(flush).pc = IF flush.at = Len(flush.batch) THEN "commit" ELSE "insert"
<1>1. flush.batch \in Seq(AuditEntries) /\ flush.at + 1 \in Nat
  BY DEF FlushRecords
<1> QED
  BY <1>1 DEF FlushRecords, Advanced

\* An INSERT takes one entry out of the hands of its flush.
LEMMA AdvancedHolds ==
  ASSUME NEW flush \in FlushRecords, flush.pc = "insert", flush.at \in 1..Len(flush.batch), NEW e
  PROVE  /\ Holding(Advanced(flush), e) => Holding(flush, e)
         /\ Holding(flush, e) => Holding(Advanced(flush), e) \/ e = flush.batch[flush.at]
<1>1. /\ Advanced(flush).batch = flush.batch /\ Advanced(flush).at = flush.at + 1
      /\ Advanced(flush).pc = IF flush.at = Len(flush.batch) THEN "commit" ELSE "insert"
  BY AdvancedRecord
<1>2. DOMAIN flush.batch = 1..Len(flush.batch) /\ Len(flush.batch) \in Nat /\ flush.at \in Nat
  BY DEF FlushRecords
<1>3. \A i \in DOMAIN flush.batch : flush.at + 1 <= i <=> flush.at <= i /\ i # flush.at
  BY <1>2
<1> QED
  BY <1>1, <1>3 DEF Holding

LEMMA GoesRecord ==
  ASSUME AuditTypes, NEW f \in AuditFlushes, auditFlush[f].pc # "idle",
         NEW pc \in {"insert", "rollback"}, FlushGoes(f, pc)
  PROVE  \E new \in FlushRecords :
           /\ auditFlush' = [auditFlush EXCEPT ![f] = new]
           /\ new.pc = pc /\ new.batch = auditFlush[f].batch /\ new.at = auditFlush[f].at
<1>1. auditFlush[f] \in FlushRecords
  BY FlushOfProcess
<1>2. PICK new : new = [auditFlush[f] EXCEPT !.pc = pc]
  OBVIOUS
<1>3. new \in FlushRecords /\ new.pc = pc /\ new.batch = auditFlush[f].batch
      /\ new.at = auditFlush[f].at
  BY <1>1, <1>2 DEF FlushRecords
<1> QED
  BY <1>2, <1>3 DEF FlushGoes

\* One flush changes.
LEMMA FlushChanges ==
  ASSUME AuditTypes, NEW f \in AuditFlushes, NEW new \in FlushRecords \cup {IdleFlush},
         auditFlush' = [auditFlush EXCEPT ![f] = new]
  PROVE  /\ auditFlush' \in [AuditFlushes -> FlushRecords \cup {IdleFlush}]
         /\ \A q \in AuditFlushes : auditFlush'[q] = IF q = f THEN new ELSE auditFlush[q]
  BY DEF AuditTypes, FlushRecords

LEMMA SessionChanges ==
  ASSUME AuditTypes, NEW s \in AuditSessions, NEW new \in SessionRecords,
         auditSession' = [auditSession EXCEPT ![s] = new]
  PROVE  /\ auditSession' \in [AuditSessions -> SessionRecords]
         /\ \A q \in AuditSessions : auditSession'[q] = IF q = s THEN new ELSE auditSession[q]
  BY DEF AuditTypes, SessionRecords

\* A step that leaves the flushes alone, or changes one of them.
LEMMA OneFlushMoves ==
  ASSUME AuditTyped, NEW f \in AuditFlushes, NEW new \in FlushRecords \cup {IdleFlush},
         auditFlush' = [auditFlush EXCEPT ![f] = new],
         new.pc \in {"begin", "insert"} => new.at \in 1..Len(new.batch),
         new.pc = "commit" => new.at = Len(new.batch) + 1
  PROVE  auditFlush' \in [AuditFlushes -> FlushRecords \cup {IdleFlush}] /\ SnapshotsFine'
<1>1. /\ auditFlush' \in [AuditFlushes -> FlushRecords \cup {IdleFlush}]
      /\ \A q \in AuditFlushes : auditFlush'[q] = IF q = f THEN new ELSE auditFlush[q]
  BY FlushChanges DEF AuditTyped
<1> QED
  BY <1>1 DEF SnapshotsFine, AuditTyped

LEMMA OneSessionMoves ==
  ASSUME AuditTyped, NEW s \in AuditSessions, NEW new \in SessionRecords,
         auditSession' = [auditSession EXCEPT ![s] = new],
         new.tx # "open" => \A e \in AuditEntries : new.rows[e] = 0
  PROVE  auditSession' \in [AuditSessions -> SessionRecords] /\ SessionsFine'
<1>1. /\ auditSession' \in [AuditSessions -> SessionRecords]
      /\ \A q \in AuditSessions : auditSession'[q] = IF q = s THEN new ELSE auditSession[q]
  BY SessionChanges DEF AuditTyped
<1> QED
  BY <1>1 DEF SessionsFine, AuditTyped

LEMMA AbortedSession ==
  LET aborted == [tx |-> "aborted", rows |-> NoRows] IN
  /\ aborted \in SessionRecords /\ aborted.tx = "aborted"
  /\ \A e \in AuditEntries : aborted.rows[e] = 0
  BY DEF SessionRecords, NoRows

LEMMA LogEntryTyped ==
  ASSUME AuditTyped, LogEntry PROVE AuditTyped'
<1> USE AuditAssumption
<1>1. auditLogged \in 0..MaxEntries /\ auditQueue \in Seq(AuditEntries)
      /\ auditDropped \subseteq AuditEntries
  BY DEF AuditTyped, AuditTypes
<1>2. auditLogged + 1 \in AuditEntries /\ auditLogged' \in 0..MaxEntries
  BY <1>1 DEF LogEntry, AuditEntries
<1>3. auditQueue' \in Seq(AuditEntries) /\ auditDropped' \subseteq AuditEntries
  <2>1. CASE auditQueue' = Append(auditQueue, auditLogged + 1) /\ UNCHANGED auditDropped
    BY <1>1, <1>2, <2>1, RowAppended
  <2>2. CASE auditDropped' = auditDropped \cup {auditLogged + 1} /\ UNCHANGED auditQueue
    BY <1>1, <1>2, <2>2
  <2> QED
    BY <2>1, <2>2 DEF LogEntry, Enqueued
<1>4. AuditTypes'
  BY <1>2, <1>3 DEF AuditTyped, AuditTypes, LogEntry
<1>5. SessionsFine' /\ SnapshotsFine'
  BY DEF AuditTyped, SessionsFine, SnapshotsFine, LogEntry
<1> QED
  BY <1>4, <1>5 DEF AuditTyped

LEMMA FlushStartsTyped ==
  ASSUME AuditTyped, NEW f \in AuditFlushes, FlushStarts(f) PROVE AuditTyped'
<1> DEFINE new == [pc |-> "begin", batch |-> auditQueue, at |-> 1]
<1>1. new \in FlushRecords /\ new.pc = "begin" /\ new.at \in 1..Len(new.batch)
  <2>1. auditQueue \in Seq(AuditEntries) /\ Len(auditQueue) \in Nat /\ Len(auditQueue) # 0
    BY LenProperties, EmptySeq DEF AuditTyped, AuditTypes, FlushStarts
  <2> QED
    BY <2>1 DEF FlushRecords
<1>2. auditFlush' = [auditFlush EXCEPT ![f] = new]
  BY DEF FlushStarts
<1> HIDE DEF new
<1>3. auditFlush' \in [AuditFlushes -> FlushRecords \cup {IdleFlush}] /\ SnapshotsFine'
  BY <1>1, <1>2, OneFlushMoves
<1>4. AuditTypes'
  BY <1>3 DEF AuditTyped, AuditTypes, FlushStarts, logKept
<1>5. SessionsFine'
  BY DEF AuditTyped, SessionsFine, FlushStarts
<1> QED
  BY <1>3, <1>4, <1>5 DEF AuditTyped

LEMMA FlushBeginsTyped ==
  ASSUME AuditTyped, NEW f \in AuditFlushes, NEW s \in AuditSessions, FlushBegins(f, s)
  PROVE  AuditTyped'
<1>1. auditFlush[f].pc = "begin" /\ FlushGoes(f, "insert")
  BY DEF FlushBegins
<1>2. PICK new \in FlushRecords :
           /\ auditFlush' = [auditFlush EXCEPT ![f] = new]
           /\ new.pc = "insert" /\ new.batch = auditFlush[f].batch /\ new.at = auditFlush[f].at
  BY <1>1, GoesRecord DEF AuditTyped
<1>3. auditFlush[f].at \in 1..Len(auditFlush[f].batch)
  BY <1>1 DEF AuditTyped, SnapshotsFine
<1>4. auditFlush' \in [AuditFlushes -> FlushRecords \cup {IdleFlush}] /\ SnapshotsFine'
  BY <1>2, <1>3, OneFlushMoves
<1>5. PICK after : after = [auditSession[s] EXCEPT !.tx = "open"]
  OBVIOUS
<1>6. after \in SessionRecords /\ after.tx = "open"
  BY <1>5, SessionOfPool DEF AuditTyped, SessionRecords
<1>7. auditSession' = [auditSession EXCEPT ![s] = after]
  BY <1>5 DEF FlushBegins
<1>8. auditSession' \in [AuditSessions -> SessionRecords] /\ SessionsFine'
  BY <1>6, <1>7, OneSessionMoves
<1>9. AuditTypes'
  BY <1>4, <1>8 DEF AuditTyped, AuditTypes, FlushBegins, logKept
<1> QED
  BY <1>4, <1>8, <1>9 DEF AuditTyped

LEMMA FlushInsertsTyped ==
  ASSUME AuditTyped, NEW f \in AuditFlushes, NEW s \in AuditSessions, FlushInserts(f, s)
  PROVE  AuditTyped'
<1>1. auditFlush[f].pc = "insert" /\ auditFlush[f] \in FlushRecords
  BY FlushOfProcess DEF FlushInserts, AuditTyped
<1>2. auditFlush[f].at \in 1..Len(auditFlush[f].batch)
  BY <1>1 DEF AuditTyped, SnapshotsFine
<1>3. PICK e \in AuditEntries : e = auditFlush[f].batch[auditFlush[f].at]
  BY <1>1, <1>2 DEF FlushRecords
<1>4. PICK new \in FlushRecords : new = Advanced(auditFlush[f])
  BY <1>1, <1>2, AdvancedRecord
<1>5. /\ new.batch = auditFlush[f].batch /\ new.at = auditFlush[f].at + 1
      /\ new.pc = IF auditFlush[f].at = Len(auditFlush[f].batch) THEN "commit" ELSE "insert"
  BY <1>1, <1>2, <1>4, AdvancedRecord
<1>6. /\ Len(auditFlush[f].batch) \in Nat
      /\ new.pc \in {"begin", "insert"} => new.at \in 1..Len(new.batch)
      /\ new.pc = "commit" => new.at = Len(new.batch) + 1
  <2>1. Len(auditFlush[f].batch) \in Nat
    BY <1>1 DEF FlushRecords
  <2> QED
    BY <1>2, <1>5, <2>1
<1>7. auditFlush' \in [AuditFlushes -> FlushRecords \cup {IdleFlush}] /\ SnapshotsFine'
  <2>1. auditFlush' = [auditFlush EXCEPT ![f] = new]
    BY <1>4 DEF FlushInserts
  <2> QED
    BY <1>6, <2>1, OneFlushMoves
<1>8. auditSession' \in [AuditSessions -> SessionRecords] /\ SessionsFine'
      /\ auditRows' \in [AuditEntries -> Nat]
  <2>1. CASE auditSession[s].tx = "open" /\ UNCHANGED auditRows
                 /\ auditSession' = [auditSession EXCEPT ![s] = WithRow(auditSession[s], e)]
    <3>1. PICK after \in SessionRecords : after = WithRow(auditSession[s], e) /\ after.tx = "open"
      BY <2>1, WithRowRecord, SessionOfPool DEF AuditTyped
    <3>2. auditSession' \in [AuditSessions -> SessionRecords] /\ SessionsFine'
      BY <2>1, <3>1, OneSessionMoves
    <3> QED
      BY <2>1, <3>2 DEF AuditTyped, AuditTypes
  <2>2. CASE UNCHANGED auditSession /\ auditRows' = [auditRows EXCEPT ![e] = @ + 1]
    BY <2>2 DEF AuditTyped, AuditTypes, SessionsFine
  <2> QED
    BY <1>3, <2>1, <2>2 DEF FlushInserts
<1>9. AuditTypes'
  BY <1>7, <1>8 DEF AuditTyped, AuditTypes, FlushInserts, logKept
<1> QED
  BY <1>7, <1>8, <1>9 DEF AuditTyped

LEMMA FreshMoves ==
  ASSUME AuditTyped, NEW s \in AuditSessions,
         auditSession' = [auditSession EXCEPT ![s] = FreshSession]
  PROVE  auditSession' \in [AuditSessions -> SessionRecords] /\ SessionsFine'
  BY FreshSessionRecord, OneSessionMoves

LEMMA IdleMoves ==
  ASSUME AuditTyped, NEW f \in AuditFlushes,
         auditFlush' = [auditFlush EXCEPT ![f] = IdleFlush]
  PROVE  auditFlush' \in [AuditFlushes -> FlushRecords \cup {IdleFlush}] /\ SnapshotsFine'
<1>1. PICK new \in FlushRecords \cup {IdleFlush} : new = IdleFlush /\ new.pc = "idle"
  BY IdleFlushHolds
<1> QED
  BY <1>1, OneFlushMoves

LEMMA FlushCommitsTyped ==
  ASSUME AuditTyped, NEW f \in AuditFlushes, NEW s \in AuditSessions, FlushCommits(f, s)
  PROVE  AuditTyped'
<1>1. auditFlush' \in [AuditFlushes -> FlushRecords \cup {IdleFlush}] /\ SnapshotsFine'
  BY IdleMoves DEF FlushCommits
<1>2. auditSession' \in [AuditSessions -> SessionRecords] /\ SessionsFine'
  BY FreshMoves DEF FlushCommits
<1>3. auditRows' \in [AuditEntries -> Nat]
  <2>1. \A e \in AuditEntries : auditSession[s].rows[e] \in Nat /\ auditRows[e] \in Nat
    BY SessionOfPool DEF AuditTyped
  <2>2. \/ auditRows' = [e \in AuditEntries |-> auditRows[e] + auditSession[s].rows[e]]
        \/ UNCHANGED auditRows
    BY DEF FlushCommits
  <2>3. CASE auditRows' = [e \in AuditEntries |-> auditRows[e] + auditSession[s].rows[e]]
    BY <2>1, <2>3
  <2>4. CASE UNCHANGED auditRows
    BY <2>4 DEF AuditTyped, AuditTypes
  <2> QED
    BY <2>2, <2>3, <2>4
<1>4. AuditTypes'
  BY <1>1, <1>2, <1>3 DEF AuditTyped, AuditTypes, FlushCommits, logKept
<1> QED
  BY <1>1, <1>2, <1>4 DEF AuditTyped

LEMMA FlushFailsTyped ==
  ASSUME AuditTyped, NEW f \in AuditFlushes, FlushFails(f)
  PROVE  AuditTyped'
<1> USE AuditAssumption
<1>1. auditFlush[f].pc # "idle" /\ FlushGoes(f, "rollback")
  BY DEF FlushFails
<1>2. PICK new \in FlushRecords :
           auditFlush' = [auditFlush EXCEPT ![f] = new] /\ new.pc = "rollback"
  BY <1>1, GoesRecord DEF AuditTyped
<1>3. auditFlush' \in [AuditFlushes -> FlushRecords \cup {IdleFlush}] /\ SnapshotsFine'
  BY <1>2, OneFlushMoves
<1>4. /\ auditSession' \in [AuditSessions -> SessionRecords] /\ SessionsFine'
      /\ auditTorn' \subseteq AuditEntries /\ auditFaults' \in 0..MaxAuditFaults
  <2>1. CASE UNCHANGED <<auditTorn, auditSession, auditFaults>>
    BY <2>1 DEF AuditTyped, AuditTypes, SessionsFine
  <2>2. ASSUME NEW s \in AuditSessions, Torn(s), AuditFault,
               NEW after \in {FreshSession, [tx |-> "aborted", rows |-> NoRows]},
               auditSession' = [auditSession EXCEPT ![s] = after]
        PROVE  /\ auditSession' \in [AuditSessions -> SessionRecords] /\ SessionsFine'
               /\ auditTorn' \subseteq AuditEntries /\ auditFaults' \in 0..MaxAuditFaults
    <3>1. after \in SessionRecords /\ \A e \in AuditEntries : after.rows[e] = 0
      BY FreshSessionRecord, AbortedSession
    <3>2. auditSession' \in [AuditSessions -> SessionRecords] /\ SessionsFine'
      BY <2>2, <3>1, OneSessionMoves
    <3>3. auditTorn' \subseteq AuditEntries
      BY <2>2 DEF Torn, AuditTyped, AuditTypes
    <3>4. auditFaults' \in 0..MaxAuditFaults
      BY <2>2 DEF AuditFault, AuditTyped, AuditTypes
    <3> QED
      BY <3>2, <3>3, <3>4
  <2>3. \/ UNCHANGED <<auditTorn, auditSession, auditFaults>>
        \/ \E s \in AuditSessions : Torn(s) /\ AuditFault /\
             \E after \in {FreshSession, [tx |-> "aborted", rows |-> NoRows]} :
                  auditSession' = [auditSession EXCEPT ![s] = after]
    BY DEF FlushFails
  <2> QED
    BY <2>1, <2>2, <2>3
<1>5. AuditTypes'
  BY <1>3, <1>4 DEF AuditTyped, AuditTypes, FlushFails
<1> QED
  BY <1>3, <1>4, <1>5 DEF AuditTyped

\* What goes back into the queue stays there or is dropped, and so does what was in it.
LEMMA RequeuedKeeps ==
  ASSUME AuditTyped, NEW f \in AuditFlushes, auditFlush[f].pc = "rollback", Requeued(f)
  PROVE  /\ auditQueue' \in Seq(AuditEntries)
         /\ auditDropped' \subseteq AuditEntries /\ auditDropped \subseteq auditDropped'
         /\ \A x \in ToSet(auditFlush[f].batch) \cup ToSet(auditQueue) :
              x \in auditDropped' \/ x \in ToSet(auditQueue')
<1> USE AuditAssumption
<1>1. auditFlush[f].batch \in Seq(AuditEntries) /\ auditQueue \in Seq(AuditEntries)
      /\ auditDropped \subseteq AuditEntries
  BY FlushOfProcess DEF AuditTyped, AuditTypes, FlushRecords
<1>2. PICK all \in Seq(AuditEntries) : all = auditFlush[f].batch \o auditQueue
  BY <1>1, ConcatProperties
<1>3. PICK n \in 0..Len(all) : n = IF Len(all) > MaxQueueSize THEN Len(all) - MaxQueueSize ELSE 0
  <2>1. Len(all) \in Nat
    BY LenProperties
  <2> QED
    BY <2>1
<1>4. /\ auditQueue' = SubSeq(all, n + 1, Len(all))
      /\ auditDropped' = auditDropped \cup ToSet(SubSeq(all, 1, n))
  BY <1>2, <1>3 DEF Requeued
<1>5. /\ SubSeq(all, n + 1, Len(all)) \in Seq(AuditEntries)
      /\ ToSet(SubSeq(all, 1, n)) \subseteq AuditEntries
      /\ \A x \in ToSet(auditFlush[f].batch) \cup ToSet(auditQueue) :
           x \in ToSet(SubSeq(all, 1, n)) \/ x \in ToSet(SubSeq(all, n + 1, Len(all)))
  BY <1>1, <1>2, CutInTwo
<1> QED
  BY <1>1, <1>4, <1>5

LEMMA FlushRollsBackTyped ==
  ASSUME AuditTyped, NEW f \in AuditFlushes, NEW s \in AuditSessions, FlushRollsBack(f, s)
  PROVE  AuditTyped'
<1>1. auditFlush' \in [AuditFlushes -> FlushRecords \cup {IdleFlush}] /\ SnapshotsFine'
  BY IdleMoves DEF FlushRollsBack
<1>2. auditSession' \in [AuditSessions -> SessionRecords] /\ SessionsFine'
  BY FreshMoves DEF FlushRollsBack
<1>3. auditQueue' \in Seq(AuditEntries) /\ auditDropped' \subseteq AuditEntries
  BY RequeuedKeeps DEF FlushRollsBack
<1>4. auditTorn' \subseteq AuditEntries
  BY DEF FlushRollsBack, Torn, AuditTyped, AuditTypes
<1>5. AuditTypes'
  BY <1>1, <1>2, <1>3, <1>4 DEF AuditTyped, AuditTypes, FlushRollsBack
<1> QED
  BY <1>1, <1>2, <1>5 DEF AuditTyped

LEMMA RollbackThrowsTyped ==
  ASSUME AuditTyped, NEW f \in AuditFlushes, RollbackThrows(f)
  PROVE  AuditTyped'
<1> USE AuditAssumption
<1>1. auditFlush' \in [AuditFlushes -> FlushRecords \cup {IdleFlush}] /\ SnapshotsFine'
  BY IdleMoves DEF RollbackThrows
<1>2. auditTorn' \subseteq AuditEntries
  <2>1. auditFlush[f].batch \in Seq(AuditEntries)
    BY FlushOfProcess DEF RollbackThrows, AuditTyped, FlushRecords
  <2>2. ToSet(auditFlush[f].batch) \subseteq AuditEntries
    BY <2>1 DEF ToSet
  <2> QED
    BY <2>2 DEF RollbackThrows, AuditTyped, AuditTypes
<1>3. auditFaults' \in 0..MaxAuditFaults
  BY DEF RollbackThrows, AuditFault, AuditTyped, AuditTypes
<1>4. AuditTypes' /\ SessionsFine'
  BY <1>1, <1>2, <1>3 DEF AuditTyped, AuditTypes, SessionsFine, RollbackThrows
<1> QED
  BY <1>1, <1>4 DEF AuditTyped

LEMMA SessionTimesOutTyped ==
  ASSUME AuditTyped, NEW s \in AuditSessions, SessionTimesOut(s)
  PROVE  AuditTyped'
<1> USE AuditAssumption
<1>1. auditSession' \in [AuditSessions -> SessionRecords] /\ SessionsFine'
  BY FreshMoves DEF SessionTimesOut
<1>2. auditTorn' \subseteq AuditEntries /\ auditFaults' \in 0..MaxAuditFaults
  BY DEF SessionTimesOut, Torn, AuditFault, AuditTyped, AuditTypes
<1>3. AuditTypes' /\ SnapshotsFine'
  BY <1>1, <1>2 DEF AuditTyped, AuditTypes, SnapshotsFine, SessionTimesOut
<1> QED
  BY <1>1, <1>3 DEF AuditTyped

LEMMA ShutdownTyped ==
  ASSUME AuditTyped, ShutdownStarts \/ CloseDb \/ AuditShutdown
  PROVE  AuditTyped'
<1>1. CASE ShutdownStarts
  BY <1>1 DEF AuditTyped, AuditTypes, SessionsFine, SnapshotsFine, ShutdownStarts, logKept
<1>2. CASE CloseDb
  <2>1. auditSession' \in [AuditSessions -> SessionRecords] /\ SessionsFine'
    BY <1>2, FreshSessionRecord DEF CloseDb, SessionsFine
  <2>2. AuditTypes' /\ SnapshotsFine'
    BY <1>2, <2>1 DEF AuditTyped, AuditTypes, SnapshotsFine, CloseDb, logKept
  <2> QED
    BY <2>1, <2>2 DEF AuditTyped
<1>3. CASE AuditShutdown
  <2>1. auditFlush' \in [AuditFlushes -> FlushRecords \cup {IdleFlush}] /\ SnapshotsFine'
    BY <1>3, IdleFlushHolds DEF AuditShutdown, SnapshotsFine
  <2>2. AuditTypes' /\ SessionsFine'
    BY <1>3, <2>1 DEF AuditTyped, AuditTypes, SessionsFine, AuditShutdown, logKept
  <2> QED
    BY <2>1, <2>2 DEF AuditTyped
<1> QED
  BY <1>1, <1>2, <1>3

LEMMA AuditInitTyped == AuditInit => AuditTyped
<1> USE AuditAssumption
<1> SUFFICES ASSUME AuditInit PROVE AuditTyped
  OBVIOUS
<1>1. /\ \A f \in AuditFlushes : auditFlush[f] = IdleFlush
      /\ \A s \in AuditSessions : auditSession[s] = FreshSession
  BY DEF AuditInit
<1>2. SessionsFine /\ SnapshotsFine
  BY <1>1, FreshSessionRecord, IdleFlushHolds DEF SessionsFine, SnapshotsFine
<1>3. auditSession \in [AuditSessions -> SessionRecords] /\ auditRows \in [AuditEntries -> Nat]
  BY FreshSessionRecord DEF AuditInit, NoRows
<1>4. AuditTypes
  BY <1>3 DEF AuditInit, AuditTypes
<1> QED
  BY <1>2, <1>4 DEF AuditTyped

\* What a flush has in hand is in its snapshot.
LEMMA HeldInSnapshot ==
  ASSUME NEW flush, NEW e, Holding(flush, e)
  PROVE  flush.pc # "idle" /\ e \in ToSet(flush.batch)
  BY DEF Holding, ToSet

InTransaction(e) == \E s \in AuditSessions : auditSession[s].rows[e] > 0

\* Where one session changes, what is written in a transaction still is, was
\* committed or went with the transaction.
LEMMA WrittenStays ==
  ASSUME AuditTyped, NEW e \in AuditEntries, InTransaction(e),
         NEW s \in AuditSessions, NEW after \in SessionRecords,
         auditSession' = [auditSession EXCEPT ![s] = after],
         auditSession[s].rows[e] > 0 =>
           after.rows[e] > 0 \/ auditRows'[e] > 0 \/ e \in auditTorn'
  PROVE  InTransaction(e)' \/ auditRows'[e] > 0 \/ e \in auditTorn'
<1>1. \A q \in AuditSessions : auditSession'[q] = IF q = s THEN after ELSE auditSession[q]
  BY SessionChanges DEF AuditTyped
<1> QED
  BY <1>1 DEF InTransaction

\* Where one flush changes, an entry is found where it was, or was with that
\* flush.
LEMMA FoundElsewhere ==
  ASSUME AuditTyped, NEW e \in AuditEntries, Located(e),
         NEW f \in AuditFlushes, NEW new \in FlushRecords \cup {IdleFlush},
         auditFlush' = [auditFlush EXCEPT ![f] = new],
         auditDropped \subseteq auditDropped', auditTorn \subseteq auditTorn',
         auditRows[e] > 0 => auditRows'[e] > 0,
         e \in ToSet(auditQueue) => Holding(new, e) \/ e \in ToSet(auditQueue') \/ e \in auditDropped',
         Holding(auditFlush[f], e) =>
           \/ Holding(new, e) \/ InTransaction(e)' \/ auditRows'[e] > 0
           \/ e \in ToSet(auditQueue') \/ e \in auditDropped' \/ e \in auditTorn',
         InTransaction(e) => InTransaction(e)' \/ auditRows'[e] > 0 \/ e \in auditTorn'
  PROVE  Located(e)'
<1>1. \A q \in AuditFlushes : auditFlush'[q] = IF q = f THEN new ELSE auditFlush[q]
  BY FlushChanges DEF AuditTyped
<1>2. Holding(new, e) => \E q \in AuditFlushes : Holding(auditFlush'[q], e)
  BY <1>1
<1>3. CASE \E q \in AuditFlushes : Holding(auditFlush[q], e)
  <2>1. PICK q \in AuditFlushes : Holding(auditFlush[q], e)
    BY <1>3
  <2>2. CASE q = f
    BY <1>2, <2>1, <2>2 DEF Located, InTransaction
  <2>3. CASE q # f
    BY <1>1, <2>1, <2>3 DEF Located
  <2> QED
    BY <2>2, <2>3
<1>4. CASE InTransaction(e)
  BY <1>4 DEF Located, InTransaction
<1>5. CASE e \in ToSet(auditQueue) \/ auditRows[e] > 0 \/ e \in auditDropped \/ e \in auditTorn
  BY <1>2, <1>5 DEF Located
<1> QED
  BY <1>3, <1>4, <1>5 DEF Located, InTransaction

LEMMA FlushStartsKeeps ==
  ASSUME AuditTyped, NEW f \in AuditFlushes, FlushStarts(f), NEW e \in AuditEntries, Located(e)
  PROVE  Located(e)'
<1>1. PICK new \in FlushRecords : new = [pc |-> "begin", batch |-> auditQueue, at |-> 1]
  BY DEF AuditTyped, AuditTypes, FlushRecords
<1>2. auditFlush' = [auditFlush EXCEPT ![f] = new]
  BY <1>1 DEF FlushStarts
<1>3. e \in ToSet(auditQueue) => Holding(new, e)
  <2>1. DOMAIN auditQueue = 1..Len(auditQueue)
    BY LenProperties DEF AuditTyped, AuditTypes
  <2>2. \A i \in DOMAIN auditQueue : 1 <= i
    BY <2>1
  <2>3. new.pc = "begin" /\ new.batch = auditQueue /\ new.at = 1
    BY <1>1
  <2> QED
    BY <2>2, <2>3 DEF Holding, ToSet
<1>4. ~Holding(auditFlush[f], e)
  BY DEF Holding, FlushStarts
<1>5. UNCHANGED <<auditDropped, auditTorn, auditRows, auditSession>>
  BY DEF FlushStarts, logKept
<1>6. InTransaction(e) => InTransaction(e)'
  BY <1>5 DEF InTransaction
<1> QED
  BY <1>2, <1>3, <1>4, <1>5, <1>6, FoundElsewhere

LEMMA FlushBeginsKeeps ==
  ASSUME AuditTyped, NEW f \in AuditFlushes, NEW s \in AuditSessions, FlushBegins(f, s),
         NEW e \in AuditEntries, Located(e)
  PROVE  Located(e)'
<1>1. auditFlush[f].pc = "begin" /\ FlushGoes(f, "insert")
  BY DEF FlushBegins
<1>2. PICK new \in FlushRecords :
           /\ auditFlush' = [auditFlush EXCEPT ![f] = new]
           /\ new.pc = "insert" /\ new.batch = auditFlush[f].batch /\ new.at = auditFlush[f].at
  BY <1>1, GoesRecord DEF AuditTyped
<1>3. Holding(auditFlush[f], e) => Holding(new, e)
  BY <1>1, <1>2 DEF Holding
<1>4. PICK after : after = [auditSession[s] EXCEPT !.tx = "open"]
  OBVIOUS
<1>5. after \in SessionRecords /\ after.rows = auditSession[s].rows
  BY <1>4, SessionOfPool DEF AuditTyped, SessionRecords
<1>6. auditSession' = [auditSession EXCEPT ![s] = after]
  BY <1>4 DEF FlushBegins
<1>7. UNCHANGED <<auditQueue, auditDropped, auditTorn, auditRows>>
  BY DEF FlushBegins, logKept
<1>8. InTransaction(e) => InTransaction(e)' \/ auditRows'[e] > 0 \/ e \in auditTorn'
  BY <1>5, <1>6, WrittenStays
<1> QED
  BY <1>2, <1>3, <1>7, <1>8, FoundElsewhere

LEMMA FlushInsertsKeeps ==
  ASSUME AuditTyped, NEW f \in AuditFlushes, NEW s \in AuditSessions, FlushInserts(f, s),
         NEW e \in AuditEntries, Located(e)
  PROVE  Located(e)'
<1>1. auditFlush[f].pc = "insert" /\ auditFlush[f] \in FlushRecords
      /\ auditFlush[f].at \in 1..Len(auditFlush[f].batch)
  BY FlushOfProcess DEF FlushInserts, AuditTyped, SnapshotsFine
<1>2. PICK x \in AuditEntries : x = auditFlush[f].batch[auditFlush[f].at]
  BY <1>1 DEF FlushRecords
<1>3. PICK new \in FlushRecords :
        new = Advanced(auditFlush[f]) /\ auditFlush' = [auditFlush EXCEPT ![f] = new]
  BY <1>1, AdvancedRecord DEF FlushInserts
<1>4. Holding(auditFlush[f], e) => Holding(new, e) \/ e = x
  BY <1>1, <1>2, <1>3, AdvancedHolds
<1>5. UNCHANGED <<auditQueue, auditDropped, auditTorn>>
  BY DEF FlushInserts, logKept
<1>6. /\ InTransaction(e) => InTransaction(e)' \/ auditRows'[e] > 0 \/ e \in auditTorn'
      /\ e = x => InTransaction(e)' \/ auditRows'[e] > 0
      /\ auditRows[e] > 0 => auditRows'[e] > 0
  <2>1. CASE UNCHANGED auditRows
                 /\ auditSession' = [auditSession EXCEPT ![s] = WithRow(auditSession[s], x)]
    <3>1. PICK after \in SessionRecords :
            /\ after = WithRow(auditSession[s], x) /\ after.rows[x] = auditSession[s].rows[x] + 1
            /\ \A y \in AuditEntries \ {x} : after.rows[y] = auditSession[s].rows[y]
      BY WithRowRecord, SessionOfPool DEF AuditTyped
    <3>2. \A y \in AuditEntries : auditSession[s].rows[y] \in Nat
      BY SessionOfPool DEF AuditTyped
    <3>3. after.rows[x] > 0 /\ (auditSession[s].rows[e] > 0 => after.rows[e] > 0)
      BY <3>1, <3>2
    <3>4. auditSession'[s] = after
      BY <2>1, <3>1, SessionChanges DEF AuditTyped
    <3> QED
      BY <2>1, <3>1, <3>3, <3>4, WrittenStays DEF InTransaction
  <2>2. CASE UNCHANGED auditSession /\ auditRows' = [auditRows EXCEPT ![x] = @ + 1]
    <3>1. auditRows \in [AuditEntries -> Nat]
      BY DEF AuditTyped, AuditTypes
    <3> QED
      BY <2>2, <3>1 DEF InTransaction
  <2> QED
    BY <1>2, <2>1, <2>2 DEF FlushInserts
<1> QED
  BY <1>3, <1>4, <1>5, <1>6, FoundElsewhere

LEMMA FlushCommitsKeeps ==
  ASSUME AuditTyped, NEW f \in AuditFlushes, NEW s \in AuditSessions, FlushCommits(f, s),
         NEW e \in AuditEntries, Located(e)
  PROVE  Located(e)'
<1>1. ~Holding(auditFlush[f], e)
  <2>1. auditFlush[f].pc = "commit" /\ auditFlush[f] \in FlushRecords
        /\ auditFlush[f].at = Len(auditFlush[f].batch) + 1
    BY FlushOfProcess DEF FlushCommits, AuditTyped, SnapshotsFine
  <2>2. DOMAIN auditFlush[f].batch = 1..Len(auditFlush[f].batch) /\ Len(auditFlush[f].batch) \in Nat
    BY <2>1 DEF FlushRecords
  <2>3. \A i \in DOMAIN auditFlush[f].batch : ~(auditFlush[f].at <= i)
    BY <2>1, <2>2
  <2> QED
    BY <2>1, <2>3 DEF Holding
<1>2. auditRows[e] \in Nat /\ auditSession[s].rows[e] \in Nat
  BY SessionOfPool DEF AuditTyped
<1>3. /\ auditRows[e] > 0 => auditRows'[e] > 0
      /\ auditSession[s].rows[e] > 0 => auditRows'[e] > 0
  <2>1. CASE auditSession[s].tx = "open"
    BY <1>2, <2>1 DEF FlushCommits
  <2>2. CASE auditSession[s].tx # "open"
    BY <1>2, <2>2 DEF FlushCommits, AuditTyped, SessionsFine
  <2> QED
    BY <2>1, <2>2
<1>4. UNCHANGED <<auditQueue, auditDropped, auditTorn>>
      /\ auditFlush' = [auditFlush EXCEPT ![f] = IdleFlush]
      /\ auditSession' = [auditSession EXCEPT ![s] = FreshSession]
  BY DEF FlushCommits, logKept
<1>5. InTransaction(e) => InTransaction(e)' \/ auditRows'[e] > 0 \/ e \in auditTorn'
  BY <1>3, <1>4, FreshSessionRecord, WrittenStays
<1> QED
  BY <1>1, <1>3, <1>4, <1>5, FoundElsewhere

LEMMA FlushFailsKeeps ==
  ASSUME AuditTyped, NEW f \in AuditFlushes, FlushFails(f), NEW e \in AuditEntries, Located(e)
  PROVE  Located(e)'
<1>1. auditFlush[f].pc # "idle" /\ FlushGoes(f, "rollback")
  BY DEF FlushFails
<1>2. PICK new \in FlushRecords :
           /\ auditFlush' = [auditFlush EXCEPT ![f] = new]
           /\ new.pc = "rollback" /\ new.batch = auditFlush[f].batch
  BY <1>1, GoesRecord DEF AuditTyped
<1>3. Holding(auditFlush[f], e) => Holding(new, e)
  BY <1>2 DEF Holding
<1>4. UNCHANGED <<auditQueue, auditDropped, auditRows>>
  BY DEF FlushFails
<1>5. auditTorn \subseteq auditTorn'
      /\ (InTransaction(e) => InTransaction(e)' \/ auditRows'[e] > 0 \/ e \in auditTorn')
  <2>1. CASE UNCHANGED <<auditTorn, auditSession, auditFaults>>
    BY <2>1 DEF InTransaction
  <2>2. ASSUME NEW s \in AuditSessions, Torn(s),
               NEW after \in {FreshSession, [tx |-> "aborted", rows |-> NoRows]},
               auditSession' = [auditSession EXCEPT ![s] = after]
        PROVE  auditTorn \subseteq auditTorn'
               /\ (InTransaction(e) => InTransaction(e)' \/ auditRows'[e] > 0 \/ e \in auditTorn')
    <3>1. after \in SessionRecords
      BY FreshSessionRecord, AbortedSession
    <3>2. auditSession[s].rows[e] > 0 => e \in auditTorn'
      BY <2>2 DEF Torn
    <3>3. auditTorn \subseteq auditTorn'
      BY <2>2 DEF Torn
    <3> QED
      BY <2>2, <3>1, <3>2, <3>3, WrittenStays
  <2>3. \/ UNCHANGED <<auditTorn, auditSession, auditFaults>>
        \/ \E s \in AuditSessions : Torn(s) /\
             \E after \in {FreshSession, [tx |-> "aborted", rows |-> NoRows]} :
                  auditSession' = [auditSession EXCEPT ![s] = after]
    BY DEF FlushFails
  <2> QED
    BY <2>1, <2>2, <2>3
<1> QED
  BY <1>2, <1>3, <1>4, <1>5, FoundElsewhere

LEMMA FlushRollsBackKeeps ==
  ASSUME AuditTyped, NEW f \in AuditFlushes, NEW s \in AuditSessions, FlushRollsBack(f, s),
         NEW e \in AuditEntries, Located(e)
  PROVE  Located(e)'
<1>1. /\ auditDropped \subseteq auditDropped'
      /\ \A x \in ToSet(auditFlush[f].batch) \cup ToSet(auditQueue) :
           x \in auditDropped' \/ x \in ToSet(auditQueue')
  BY RequeuedKeeps DEF FlushRollsBack
<1>2. Holding(auditFlush[f], e) => e \in ToSet(auditFlush[f].batch)
  BY HeldInSnapshot
<1>3. UNCHANGED auditRows /\ auditFlush' = [auditFlush EXCEPT ![f] = IdleFlush]
      /\ auditSession' = [auditSession EXCEPT ![s] = FreshSession]
  BY DEF FlushRollsBack
<1>4. auditTorn \subseteq auditTorn' /\ (auditSession[s].rows[e] > 0 => e \in auditTorn')
  BY DEF FlushRollsBack, Torn
<1>5. InTransaction(e) => InTransaction(e)' \/ auditRows'[e] > 0 \/ e \in auditTorn'
  BY <1>3, <1>4, FreshSessionRecord, WrittenStays
<1> QED
  BY <1>1, <1>2, <1>3, <1>4, <1>5, FoundElsewhere

LEMMA RollbackThrowsKeeps ==
  ASSUME AuditTyped, NEW f \in AuditFlushes, RollbackThrows(f), NEW e \in AuditEntries, Located(e)
  PROVE  Located(e)'
<1>1. UNCHANGED <<auditQueue, auditDropped, auditRows, auditSession>>
      /\ auditFlush' = [auditFlush EXCEPT ![f] = IdleFlush]
  BY DEF RollbackThrows
<1>2. auditTorn \subseteq auditTorn' /\ ToSet(auditFlush[f].batch) \subseteq auditTorn'
  BY DEF RollbackThrows
<1>3. Holding(auditFlush[f], e) => e \in ToSet(auditFlush[f].batch)
  BY HeldInSnapshot
<1>4. InTransaction(e) => InTransaction(e)'
  BY <1>1 DEF InTransaction
<1> QED
  BY <1>1, <1>2, <1>3, <1>4, FoundElsewhere

LEMMA SessionTimesOutKeeps ==
  ASSUME AuditTyped, NEW s \in AuditSessions, SessionTimesOut(s), NEW e \in AuditEntries, Located(e)
  PROVE  Located(e)'
<1>1. UNCHANGED <<auditQueue, auditDropped, auditFlush, auditRows>>
      /\ auditSession' = [auditSession EXCEPT ![s] = FreshSession]
  BY DEF SessionTimesOut
<1>2. auditTorn \subseteq auditTorn' /\ (auditSession[s].rows[e] > 0 => e \in auditTorn')
  BY DEF SessionTimesOut, Torn
<1>3. InTransaction(e) => InTransaction(e)' \/ auditRows'[e] > 0 \/ e \in auditTorn'
  BY <1>1, <1>2, FreshSessionRecord, WrittenStays
<1> QED
  BY <1>1, <1>2, <1>3 DEF Located, InTransaction

\* A new entry is queued, or dropped by a full queue.
LEMMA LogEntryKeeps ==
  ASSUME AuditTyped, LogEntry, NEW e \in 1..auditLogged', e \in 1..auditLogged => Located(e)
  PROVE  Located(e)'
<1> USE AuditAssumption
<1>1. auditLogged \in Nat /\ auditQueue \in Seq(AuditEntries) /\ auditLogged + 1 \in AuditEntries
  BY DEF AuditTyped, AuditTypes, LogEntry, AuditEntries
<1>2. /\ ToSet(auditQueue) \subseteq ToSet(auditQueue') /\ auditDropped \subseteq auditDropped'
      /\ auditLogged + 1 \in ToSet(auditQueue') \/ auditLogged + 1 \in auditDropped'
  <2>1. CASE auditQueue' = Append(auditQueue, auditLogged + 1) /\ UNCHANGED auditDropped
    BY <1>1, <2>1, RowAppended DEF ToSet
  <2>2. CASE auditDropped' = auditDropped \cup {auditLogged + 1} /\ UNCHANGED auditQueue
    BY <2>2
  <2> QED
    BY <2>1, <2>2 DEF LogEntry, Enqueued
<1>3. UNCHANGED <<auditTorn, auditFlush, auditSession, auditRows>>
  BY DEF LogEntry
<1>4. CASE e = auditLogged + 1
  BY <1>2, <1>4 DEF Located
<1>5. CASE e \in 1..auditLogged
  BY <1>2, <1>3, <1>5 DEF Located
<1>6. e = auditLogged + 1 \/ e \in 1..auditLogged
  BY <1>1 DEF LogEntry
<1> QED
  BY <1>4, <1>5, <1>6

\* How often an entry is in a sequence.
LEMMA CountIs ==
  ASSUME NEW S, NEW seq \in Seq(S), NEW e
  PROVE  /\ Count(seq, e) \in Nat
         /\ Count(seq, e) >= 1 <=> e \in ToSet(seq)
         /\ Count(seq, e) <= 1 =>
              \A i, j \in DOMAIN seq : seq[i] = e /\ seq[j] = e => i = j
<1> DEFINE at == {i \in DOMAIN seq : seq[i] = e}
<1>1. DOMAIN seq = 1..Len(seq) /\ Len(seq) \in Nat
  BY LenProperties
<1>2. IsFiniteSet(DOMAIN seq) /\ at \subseteq DOMAIN seq
  BY <1>1, FS_Interval
<1>3. IsFiniteSet(at) /\ Cardinality(at) \in Nat
  BY <1>2, FS_Subset, FS_CardinalityType
<1>4. Count(seq, e) = Cardinality(at)
  BY DEF Count
<1>5. e \in ToSet(seq) <=> at # {}
  BY DEF ToSet
<1>6. \A i, j \in DOMAIN seq : seq[i] = e /\ seq[j] = e => {i, j} \subseteq at
  OBVIOUS
<1> HIDE DEF at
<1>7. at # {} <=> Cardinality(at) >= 1
  BY <1>3, FS_EmptySet
<1>8. ASSUME NEW i \in DOMAIN seq, NEW j \in DOMAIN seq, seq[i] = e, seq[j] = e, i # j
      PROVE  Cardinality(at) >= 2
  <2>1. i \in at /\ j \in at
    BY <1>6, <1>8
  <2>2. Cardinality(at \ {i}) = Cardinality(at) - 1 /\ IsFiniteSet(at \ {i}) /\ j \in at \ {i}
    BY <1>3, <1>8, <2>1, LessOne
  <2>3. Cardinality(at \ {i}) >= 1 /\ Cardinality(at \ {i}) \in Nat
    BY <2>2, LessOne
  <2> QED
    BY <1>3, <2>2, <2>3
<1>9. Cardinality(at) <= 1 => \A i, j \in DOMAIN seq : seq[i] = e /\ seq[j] = e => i = j
  BY <1>3, <1>8
<1> QED
  BY <1>3, <1>4, <1>5, <1>7, <1>9

LEMMA CountOfNone == ASSUME NEW e PROVE Count(<<>>, e) = 0
<1>1. {i \in DOMAIN <<>> : <<>>[i] = e} = {}
  OBVIOUS
<1> QED
  BY <1>1, FS_EmptySet DEF Count

LEMMA CountAppended ==
  ASSUME NEW S, NEW seq \in Seq(S), NEW x \in S, NEW e
  PROVE  Count(Append(seq, x), e) = Count(seq, e) + (IF x = e THEN 1 ELSE 0)
<1> DEFINE at == {i \in DOMAIN seq : seq[i] = e}
           after == {i \in DOMAIN Append(seq, x) : Append(seq, x)[i] = e}
<1>1. DOMAIN seq = 1..Len(seq) /\ Len(seq) \in Nat
  BY LenProperties
<1>2. IsFiniteSet(at) /\ Cardinality(at) \in Nat
  <2>1. IsFiniteSet(DOMAIN seq) /\ at \subseteq DOMAIN seq
    BY <1>1, FS_Interval
  <2> QED
    BY <2>1, FS_Subset, FS_CardinalityType
<1>3. /\ DOMAIN Append(seq, x) = DOMAIN seq \cup {Len(seq) + 1} /\ Len(seq) + 1 \notin DOMAIN seq
      /\ Append(seq, x)[Len(seq) + 1] = x
      /\ \A j \in DOMAIN seq : Append(seq, x)[j] = seq[j]
  BY RowAppended
<1>4. Len(seq) + 1 \notin at /\ after = IF x = e THEN at \cup {Len(seq) + 1} ELSE at
  BY <1>3
<1>5. Count(seq, e) = Cardinality(at) /\ Count(Append(seq, x), e) = Cardinality(after)
  BY DEF Count
<1> HIDE DEF at, after
<1> QED
  BY <1>2, <1>4, <1>5, CountMore

\* The flushes that have an entry in hand, where one flush changes.
Held(flush, e) == IF Holding(flush, e) THEN 1 ELSE 0

LEMMA InHandIs ==
  ASSUME NEW e
  PROVE  InHand(e) \in Nat /\ (InHand(e) >= 1 <=> \E f \in AuditFlushes : Holding(auditFlush[f], e))
<1> DEFINE holders == {f \in AuditFlushes : Holding(auditFlush[f], e)}
<1>1. IsFiniteSet(holders) /\ Cardinality(holders) \in Nat
  BY AuditAssumption, FS_Subset, FS_CardinalityType
<1>2. InHand(e) = Cardinality(holders)
  BY DEF InHand
<1>3. holders # {} <=> \E f \in AuditFlushes : Holding(auditFlush[f], e)
  OBVIOUS
<1> HIDE DEF holders
<1> QED
  BY <1>1, <1>2, <1>3, FS_EmptySet

LEMMA InHandChanges ==
  ASSUME AuditTyped, NEW f \in AuditFlushes, NEW new \in FlushRecords \cup {IdleFlush},
         auditFlush' = [auditFlush EXCEPT ![f] = new], NEW e
  PROVE  InHand(e)' = InHand(e) + Held(new, e) - Held(auditFlush[f], e)
<1> DEFINE before == {q \in AuditFlushes : Holding(auditFlush[q], e)}
           after == {q \in AuditFlushes : Holding(auditFlush'[q], e)}
<1>1. \A q \in AuditFlushes : auditFlush'[q] = IF q = f THEN new ELSE auditFlush[q]
  BY FlushChanges DEF AuditTyped
<1>2. IsFiniteSet(before) /\ Cardinality(before) \in Nat
  BY AuditAssumption, FS_Subset, FS_CardinalityType
<1>3. f \in before <=> Holding(auditFlush[f], e)
  OBVIOUS
<1>4. after = IF Holding(new, e) THEN before \cup {f} ELSE before \ {f}
  BY <1>1
<1>5. InHand(e) = Cardinality(before) /\ InHand(e)' = Cardinality(after)
  BY DEF InHand
<1> HIDE DEF before, after
<1>6. CASE f \in before /\ Holding(new, e)
  <2>1. after = before
    BY <1>4, <1>6
  <2> QED
    BY <1>2, <1>3, <1>5, <1>6, <2>1 DEF Held
<1>7. CASE f \in before /\ ~Holding(new, e)
  <2>1. Cardinality(after) = Cardinality(before) - 1
    BY <1>2, <1>4, <1>7, CountLess
  <2> QED
    BY <1>2, <1>3, <1>5, <1>7, <2>1 DEF Held
<1>8. CASE f \notin before /\ Holding(new, e)
  <2>1. Cardinality(after) = Cardinality(before) + 1
    BY <1>2, <1>4, <1>8, CountMore
  <2> QED
    BY <1>2, <1>3, <1>5, <1>8, <2>1 DEF Held
<1>9. CASE f \notin before /\ ~Holding(new, e)
  <2>1. after = before
    BY <1>4, <1>9
  <2> QED
    BY <1>2, <1>3, <1>5, <1>9, <2>1 DEF Held
<1> QED
  BY <1>6, <1>7, <1>8, <1>9

\* The rows of an entry in transactions, where one session changes.
RowsOpen(e) == [s \in AuditSessions |-> auditSession[s].rows[e]]

LEMMA RowsOpenAre ==
  ASSUME AuditTyped, NEW e \in AuditEntries
  PROVE  RowsOpen(e) \in [AuditSessions -> Nat] /\ RowsOpen(e) \in [AuditSessions -> Int]
  BY SessionOfPool DEF AuditTyped, RowsOpen

LEMMA WrittenChanges ==
  ASSUME AuditTyped, NEW e \in AuditEntries, NEW s \in AuditSessions, NEW after \in SessionRecords,
         auditSession' = [auditSession EXCEPT ![s] = after], auditRows'[e] \in Nat
  PROVE  /\ Written(e) \in Int
         /\ Written(e)' = Written(e) + (auditRows'[e] - auditRows[e])
                           + (after.rows[e] - auditSession[s].rows[e])
<1>1. RowsOpen(e) \in [AuditSessions -> Int]
  BY RowsOpenAre
<1>2. /\ auditSession' \in [AuditSessions -> SessionRecords]
      /\ \A q \in AuditSessions : auditSession'[q] = IF q = s THEN after ELSE auditSession[q]
  BY SessionChanges DEF AuditTyped
<1>3. PICK h : h = [q \in AuditSessions |-> auditSession'[q].rows[e]]
  OBVIOUS
<1>4. h \in [AuditSessions -> Int]
  <2>1. \A q \in AuditSessions : auditSession'[q].rows[e] \in Int
    BY <1>2 DEF SessionRecords
  <2> QED
    BY <1>3, <2>1
<1>5. /\ h[s] = after.rows[e] /\ RowsOpen(e)[s] = auditSession[s].rows[e]
      /\ \A q \in AuditSessions \ {s} : RowsOpen(e)[q] = h[q]
  BY <1>2, <1>3 DEF RowsOpen
<1>6. /\ SumFunction(RowsOpen(e)) \in Int /\ SumFunction(h) \in Int
      /\ SumFunction(h) = SumFunction(RowsOpen(e)) + (h[s] - RowsOpen(e)[s])
  BY <1>1, <1>4, <1>5, AuditAssumption, SumChanges
<1>7. /\ Written(e) = auditRows[e] + SumFunction(RowsOpen(e))
      /\ Written(e)' = auditRows'[e] + SumFunction(h)
  BY <1>3 DEF Written, RowsOpen
<1>8. auditRows[e] \in Int /\ auditRows'[e] \in Int /\ h[s] \in Int /\ RowsOpen(e)[s] \in Int
  <2>1. auditRows[e] \in Nat
    BY DEF AuditTyped, AuditTypes
  <2>2. h[s] \in Int /\ RowsOpen(e)[s] \in Int
    BY <1>1, <1>4
  <2> QED
    BY <2>1, <2>2
<1> QED
  BY <1>5, <1>6, <1>7, <1>8

LEMMA WrittenIs ==
  ASSUME AuditTyped, NEW e \in AuditEntries
  PROVE  Written(e) \in Nat /\ (auditRows[e] > 0 \/ InTransaction(e) => Written(e) >= 1)
<1>1. PICK f \in [AuditSessions -> Nat] : f = RowsOpen(e)
  BY RowsOpenAre
<1>2. SumFunction(f) \in Nat /\ \A s \in AuditSessions : SumFunction(f) >= f[s]
  BY AuditAssumption, SumOfNaturals
<1>3. auditRows[e] \in Nat /\ Written(e) = auditRows[e] + SumFunction(f)
  BY <1>1 DEF AuditTyped, AuditTypes, Written, RowsOpen
<1>4. InTransaction(e) => \E s \in AuditSessions : f[s] > 0
  BY <1>1 DEF InTransaction, RowsOpen
<1>5. InTransaction(e) => SumFunction(f) >= 1
  BY <1>2, <1>4
<1> QED
  BY <1>2, <1>3, <1>5

DropOf(e) == IF e \in auditDropped THEN 1 ELSE 0

LEMMA PlacesAre ==
  ASSUME AuditTyped, NEW e \in AuditEntries
  PROVE  /\ Places(e) = Count(auditQueue, e) + InHand(e) + Written(e) + DropOf(e)
         /\ Count(auditQueue, e) \in Nat /\ InHand(e) \in Nat /\ Written(e) \in Nat
         /\ DropOf(e) \in Nat
<1>1. Count(auditQueue, e) \in Nat
  BY CountIs DEF AuditTyped, AuditTypes
<1> QED
  BY <1>1, InHandIs, WrittenIs DEF Places, DropOf

LEMMA LogEntryOnePlace ==
  ASSUME AuditTyped, AuditTyped', LogEntry, NEW e \in AuditEntries,
         Places(e) = IF e <= auditLogged THEN 1 ELSE 0
  PROVE  Places(e)' = IF e <= auditLogged' THEN 1 ELSE 0
<1> USE AuditAssumption
<1>1. auditLogged \in Nat /\ auditQueue \in Seq(AuditEntries) /\ auditLogged + 1 \in AuditEntries
      /\ auditLogged' = auditLogged + 1 /\ e \in Int
  BY DEF AuditTyped, AuditTypes, LogEntry, AuditEntries
<1>2. InHand(e)' = InHand(e) /\ Written(e)' = Written(e)
  BY DEF LogEntry, InHand, Written
<1>3. Places(e)' = Count(auditQueue', e) + InHand(e) + Written(e) + DropOf(e)'
  BY <1>2 DEF Places, DropOf
<1>4. /\ Places(e) = Count(auditQueue, e) + InHand(e) + Written(e) + DropOf(e)
      /\ Count(auditQueue, e) \in Nat /\ InHand(e) \in Nat /\ Written(e) \in Nat
      /\ DropOf(e) \in Nat
  BY PlacesAre
<1>5. CASE auditQueue' = Append(auditQueue, auditLogged + 1) /\ UNCHANGED auditDropped
  <2>1. Count(auditQueue', e) = Count(auditQueue, e) + (IF auditLogged + 1 = e THEN 1 ELSE 0)
    BY <1>1, <1>5, CountAppended
  <2>2. DropOf(e)' = DropOf(e)
    BY <1>5 DEF DropOf
  <2> QED
    BY <1>1, <1>3, <1>4, <2>1, <2>2
<1>6. CASE auditDropped' = auditDropped \cup {auditLogged + 1} /\ UNCHANGED auditQueue
  <2>1. CASE e = auditLogged + 1
    <3>1. DropOf(e) = 0 /\ Count(auditQueue, e) + InHand(e) + Written(e) = 0
      BY <1>1, <1>4, <2>1
    <3>2. DropOf(e)' = 1
      BY <1>6, <2>1 DEF DropOf
    <3> QED
      BY <1>1, <1>3, <1>4, <1>6, <2>1, <3>1, <3>2
  <2>2. CASE e # auditLogged + 1
    <3>1. DropOf(e)' = DropOf(e)
      BY <1>6, <2>2 DEF DropOf
    <3> QED
      BY <1>1, <1>3, <1>4, <1>6, <2>2, <3>1
  <2> QED
    BY <2>1, <2>2
<1> QED
  BY <1>5, <1>6 DEF LogEntry, Enqueued

\* A flush takes the queue over.
LEMMA FlushStartsOnePlace ==
  ASSUME AuditTyped, NEW f \in AuditFlushes, FlushStarts(f), NEW e \in AuditEntries, Places(e) <= 1
  PROVE  Places(e)' = Places(e)
<1>1. PICK new \in FlushRecords : new = [pc |-> "begin", batch |-> auditQueue, at |-> 1]
  BY DEF AuditTyped, AuditTypes, FlushRecords
<1>2. auditFlush' = [auditFlush EXCEPT ![f] = new] /\ auditQueue' = <<>>
      /\ UNCHANGED <<auditDropped, auditSession, auditRows>>
  BY <1>1 DEF FlushStarts, logKept
<1>3. Holding(new, e) <=> e \in ToSet(auditQueue)
  <2>1. DOMAIN auditQueue = 1..Len(auditQueue)
    BY LenProperties DEF AuditTyped, AuditTypes
  <2>2. \A i \in DOMAIN auditQueue : 1 <= i
    BY <2>1
  <2>3. new.pc = "begin" /\ new.batch = auditQueue /\ new.at = 1
    BY <1>1
  <2> QED
    BY <2>2, <2>3 DEF Holding, ToSet
<1>4. Held(auditFlush[f], e) = 0
  BY DEF Holding, FlushStarts, Held
<1>5. InHand(e)' = InHand(e) + Held(new, e)
  <2>1. InHand(e)' = InHand(e) + Held(new, e) - Held(auditFlush[f], e)
    BY <1>2, InHandChanges
  <2>2. InHand(e) \in Nat /\ Held(new, e) \in Nat
    BY InHandIs DEF Held
  <2> QED
    BY <1>4, <2>1, <2>2
<1>6. Written(e)' = Written(e) /\ DropOf(e)' = DropOf(e) /\ Count(auditQueue', e) = 0
  BY <1>2, CountOfNone DEF Written, DropOf
<1>7. /\ Places(e) = Count(auditQueue, e) + InHand(e) + Written(e) + DropOf(e)
      /\ Count(auditQueue, e) \in Nat /\ InHand(e) \in Nat /\ Written(e) \in Nat
      /\ DropOf(e) \in Nat
  BY PlacesAre
<1>8. Held(new, e) = Count(auditQueue, e)
  <2>1. Count(auditQueue, e) >= 1 <=> e \in ToSet(auditQueue)
    BY CountIs DEF AuditTyped, AuditTypes
  <2>2. Count(auditQueue, e) <= 1
    BY <1>7
  <2> QED
    BY <1>3, <1>7, <2>1, <2>2 DEF Held
<1>9. Places(e)' = Count(auditQueue', e) + InHand(e)' + Written(e)' + DropOf(e)'
  BY DEF Places, DropOf
<1> QED
  BY <1>5, <1>6, <1>7, <1>8, <1>9

\* Where only a flush and a session change, and the committed rows.
LEMMA OnePlaceStays ==
  ASSUME AuditTyped, UNCHANGED <<auditQueue, auditDropped>>, NEW e \in AuditEntries,
         InHand(e)' + Written(e)' = InHand(e) + Written(e),
         InHand(e)' \in Int, Written(e)' \in Int
  PROVE  Places(e)' = Places(e)
<1>1. Places(e)' = Count(auditQueue, e) + InHand(e)' + Written(e)' + DropOf(e)
  BY DEF Places, DropOf
<1> QED
  BY <1>1, PlacesAre

LEMMA FlushBeginsOnePlace ==
  ASSUME AuditTyped, NEW f \in AuditFlushes, NEW s \in AuditSessions, FlushBegins(f, s),
         NEW e \in AuditEntries
  PROVE  Places(e)' = Places(e)
<1>1. auditFlush[f].pc = "begin" /\ FlushGoes(f, "insert")
  BY DEF FlushBegins
<1>2. PICK new \in FlushRecords :
           /\ auditFlush' = [auditFlush EXCEPT ![f] = new]
           /\ new.pc = "insert" /\ new.batch = auditFlush[f].batch /\ new.at = auditFlush[f].at
  BY <1>1, GoesRecord DEF AuditTyped
<1>3. Held(auditFlush[f], e) = Held(new, e) /\ Held(new, e) \in Nat
  BY <1>1, <1>2 DEF Holding, Held
<1>4. PICK after : after = [auditSession[s] EXCEPT !.tx = "open"]
  OBVIOUS
<1>5. after \in SessionRecords /\ after.rows = auditSession[s].rows
  BY <1>4, SessionOfPool DEF AuditTyped, SessionRecords
<1>6. auditSession' = [auditSession EXCEPT ![s] = after]
      /\ UNCHANGED <<auditQueue, auditDropped, auditRows>>
  BY <1>4 DEF FlushBegins, logKept
<1>7. InHand(e)' = InHand(e) + Held(new, e) - Held(auditFlush[f], e) /\ InHand(e) \in Nat
  BY <1>2, InHandChanges, InHandIs
<1>8. auditRows[e] \in Nat /\ after.rows[e] \in Nat
  BY <1>5, SessionOfPool DEF AuditTyped
<1>9. /\ Written(e) \in Int
      /\ Written(e)' = Written(e) + (auditRows'[e] - auditRows[e])
                           + (after.rows[e] - auditSession[s].rows[e])
  BY <1>5, <1>6, <1>8, WrittenChanges
<1>10. InHand(e)' = InHand(e) /\ Written(e)' = Written(e)
  BY <1>3, <1>5, <1>6, <1>7, <1>8, <1>9
<1> QED
  BY <1>6, <1>7, <1>9, <1>10, OnePlaceStays

\* An INSERT takes an entry out of the flush's hands and writes it.
LEMMA FlushInsertsOnePlace ==
  ASSUME AuditTyped, NEW f \in AuditFlushes, NEW s \in AuditSessions, FlushInserts(f, s),
         \A i, j \in DOMAIN auditFlush[f].batch :
           auditFlush[f].batch[i] = auditFlush[f].batch[j] => i = j,
         NEW e \in AuditEntries
  PROVE  Places(e)' = Places(e)
<1>1. auditFlush[f].pc = "insert" /\ auditFlush[f] \in FlushRecords
      /\ auditFlush[f].at \in 1..Len(auditFlush[f].batch)
  BY FlushOfProcess DEF FlushInserts, AuditTyped, SnapshotsFine
<1>2. PICK x \in AuditEntries : x = auditFlush[f].batch[auditFlush[f].at]
  BY <1>1 DEF FlushRecords
<1>3. PICK new \in FlushRecords :
        new = Advanced(auditFlush[f]) /\ auditFlush' = [auditFlush EXCEPT ![f] = new]
  BY <1>1, AdvancedRecord DEF FlushInserts
<1>4. /\ Holding(new, e) => Holding(auditFlush[f], e)
      /\ Holding(auditFlush[f], e) => Holding(new, e) \/ e = x
  BY <1>1, <1>2, <1>3, AdvancedHolds
<1>5. Holding(auditFlush[f], x) /\ ~Holding(new, x)
  <2>1. DOMAIN auditFlush[f].batch = 1..Len(auditFlush[f].batch) /\ auditFlush[f].at \in Nat
        /\ Len(auditFlush[f].batch) \in Nat
    BY <1>1 DEF FlushRecords
  <2>2. /\ new.batch = auditFlush[f].batch /\ new.at = auditFlush[f].at + 1
        /\ new.pc = IF auditFlush[f].at = Len(auditFlush[f].batch) THEN "commit" ELSE "insert"
    BY <1>1, <1>3, AdvancedRecord
  <2>3. auditFlush[f].at \in DOMAIN auditFlush[f].batch /\ auditFlush[f].at <= auditFlush[f].at
        /\ ~(new.at <= auditFlush[f].at)
    BY <1>1, <2>1, <2>2
  <2>4. \A i \in DOMAIN auditFlush[f].batch : auditFlush[f].batch[i] = x => i = auditFlush[f].at
    BY <1>2, <2>3
  <2> QED
    BY <1>1, <1>2, <2>2, <2>3, <2>4 DEF Holding
<1>6. Held(new, e) = Held(auditFlush[f], e) - (IF e = x THEN 1 ELSE 0)
      /\ Held(auditFlush[f], e) \in Nat
  BY <1>4, <1>5 DEF Held
<1>7. InHand(e)' = InHand(e) - (IF e = x THEN 1 ELSE 0) /\ InHand(e) \in Nat
  <2>1. InHand(e)' = InHand(e) + Held(new, e) - Held(auditFlush[f], e) /\ InHand(e) \in Nat
    BY <1>3, InHandChanges, InHandIs
  <2> QED
    BY <1>6, <2>1
<1>8. Written(e)' = Written(e) + (IF e = x THEN 1 ELSE 0) /\ Written(e) \in Nat
  <2>1. auditRows[e] \in Nat /\ auditSession[s].rows[e] \in Nat /\ Written(e) \in Nat
    BY SessionOfPool, WrittenIs DEF AuditTyped
  <2>2. CASE UNCHANGED auditRows
                 /\ auditSession' = [auditSession EXCEPT ![s] = WithRow(auditSession[s], x)]
    <3>1. PICK after \in SessionRecords :
            /\ after = WithRow(auditSession[s], x) /\ after.rows[x] = auditSession[s].rows[x] + 1
            /\ \A y \in AuditEntries \ {x} : after.rows[y] = auditSession[s].rows[y]
      BY WithRowRecord, SessionOfPool DEF AuditTyped
    <3>2. Written(e)' = Written(e) + (auditRows'[e] - auditRows[e])
                           + (after.rows[e] - auditSession[s].rows[e])
      BY <2>1, <2>2, <3>1, WrittenChanges
    <3>3. after.rows[e] = auditSession[s].rows[e] + (IF e = x THEN 1 ELSE 0)
      BY <2>1, <3>1
    <3> QED
      BY <2>1, <2>2, <3>2, <3>3
  <2>3. CASE UNCHANGED auditSession /\ auditRows' = [auditRows EXCEPT ![x] = @ + 1]
    <3>1. auditRows \in [AuditEntries -> Nat]
      BY DEF AuditTyped, AuditTypes
    <3>2. auditRows'[e] = auditRows[e] + (IF e = x THEN 1 ELSE 0)
      BY <2>3, <3>1
    <3>3. PICK sum : sum = SumFunction(RowsOpen(e))
      OBVIOUS
    <3>4. Written(e) = auditRows[e] + sum /\ Written(e)' = auditRows'[e] + sum
      BY <2>3, <3>3 DEF Written, RowsOpen
    <3>5. sum \in Nat
      BY <3>3, RowsOpenAre, AuditAssumption, SumOfNaturals
    <3> QED
      BY <2>1, <3>2, <3>4, <3>5
  <2> QED
    BY <1>2, <2>1, <2>2, <2>3 DEF FlushInserts
<1>9. UNCHANGED <<auditQueue, auditDropped>>
  BY DEF FlushInserts, logKept
<1>10. InHand(e)' + Written(e)' = InHand(e) + Written(e)
       /\ InHand(e)' \in Int /\ Written(e)' \in Int
  BY <1>7, <1>8
<1> QED
  BY <1>9, <1>10, OnePlaceStays

LEMMA FlushCommitsOnePlace ==
  ASSUME AuditTyped, NEW f \in AuditFlushes, NEW s \in AuditSessions, FlushCommits(f, s),
         NEW e \in AuditEntries
  PROVE  Places(e)' = Places(e)
<1>1. Held(auditFlush[f], e) = 0
  <2>1. auditFlush[f].pc = "commit" /\ auditFlush[f] \in FlushRecords
        /\ auditFlush[f].at = Len(auditFlush[f].batch) + 1
    BY FlushOfProcess DEF FlushCommits, AuditTyped, SnapshotsFine
  <2>2. DOMAIN auditFlush[f].batch = 1..Len(auditFlush[f].batch) /\ Len(auditFlush[f].batch) \in Nat
    BY <2>1 DEF FlushRecords
  <2>3. \A i \in DOMAIN auditFlush[f].batch : ~(auditFlush[f].at <= i)
    BY <2>1, <2>2
  <2> QED
    BY <2>1, <2>3 DEF Holding, Held
<1>2. auditRows[e] \in Nat /\ auditSession[s].rows[e] \in Nat /\ FreshSession.rows[e] = 0
      /\ FreshSession \in SessionRecords
  BY SessionOfPool, FreshSessionRecord DEF AuditTyped
<1>3. auditRows'[e] = auditRows[e] + auditSession[s].rows[e]
  <2>1. CASE auditSession[s].tx = "open"
    BY <1>2, <2>1 DEF FlushCommits
  <2>2. CASE auditSession[s].tx # "open"
    BY <1>2, <2>2 DEF FlushCommits, AuditTyped, SessionsFine
  <2> QED
    BY <2>1, <2>2
<1>4. UNCHANGED <<auditQueue, auditDropped>>
      /\ auditFlush' = [auditFlush EXCEPT ![f] = IdleFlush]
      /\ auditSession' = [auditSession EXCEPT ![s] = FreshSession]
  BY DEF FlushCommits, logKept
<1>5. InHand(e)' = InHand(e) /\ InHand(e) \in Nat
  <2>1. PICK new \in FlushRecords \cup {IdleFlush} : new = IdleFlush
    OBVIOUS
  <2>2. InHand(e)' = InHand(e) + Held(new, e) - Held(auditFlush[f], e)
    BY <1>4, <2>1, InHandChanges
  <2>3. Held(new, e) = 0
    BY <2>1, IdleFlushHolds DEF Held
  <2> QED
    BY <1>1, <2>2, <2>3, InHandIs
<1>6. /\ Written(e) \in Int
      /\ Written(e)' = Written(e) + (auditRows'[e] - auditRows[e])
                           + (FreshSession.rows[e] - auditSession[s].rows[e])
  <2>1. auditRows'[e] \in Nat
    BY <1>2, <1>3
  <2> QED
    BY <1>2, <1>4, <2>1, WrittenChanges
<1>7. Written(e)' = Written(e)
  BY <1>2, <1>3, <1>6
<1> QED
  BY <1>4, <1>5, <1>6, <1>7, OnePlaceStays

\* While nothing fails, these are the steps.
QuietStep ==
  \/ LogEntry \/ ShutdownStarts \/ UNCHANGED auditVars
  \/ \E f \in AuditFlushes : FlushStarts(f)
  \/ \E f \in AuditFlushes, s \in AuditSessions :
       FlushBegins(f, s) \/ FlushInserts(f, s) \/ FlushCommits(f, s)

LEMMA OnlyQuietSteps ==
  ASSUME AuditTyped, Calm, [AuditNext]_auditVars, Faultless'
  PROVE  Faultless /\ QuietStep
<1>1. auditFaults \in Nat
  BY AuditAssumption DEF AuditTyped, AuditTypes
<1>2. ASSUME AuditFault PROVE FALSE
  BY <1>1, <1>2 DEF AuditFault, Faultless
<1>3. ASSUME NEW f \in AuditFlushes, NEW s \in AuditSessions,
             FlushBegins(f, s) \/ FlushInserts(f, s) \/ FlushCommits(f, s)
      PROVE  Faultless /\ QuietStep
  <2>1. UNCHANGED <<auditPhase, auditFaults>>
    BY <1>3 DEF FlushBegins, FlushInserts, FlushCommits
  <2>2. QuietStep
    BY <1>3 DEF QuietStep
  <2>3. Faultless
    BY <2>1 DEF Faultless, PoolOpen
  <2> QED
    BY <2>2, <2>3
<1>4. ASSUME NEW f \in AuditFlushes, NEW s \in AuditSessions, FlushRollsBack(f, s)
      PROVE  FALSE
  <2>1. UNCHANGED <<auditPhase, auditFaults>> /\ auditFlush[f].pc = "rollback"
    BY <1>4 DEF FlushRollsBack
  <2>2. Faultless
    BY <2>1 DEF Faultless, PoolOpen
  <2> QED
    BY <2>1, <2>2 DEF Calm
<1>5. ASSUME NEW f \in AuditFlushes, FlushFails(f) PROVE FALSE
  <2>1. UNCHANGED auditPhase /\ PoolOpen
    BY <1>5 DEF FlushFails, Faultless, PoolOpen
  <2>2. UNCHANGED auditFaults /\ \E s \in AuditSessions : auditSession[s].tx = "aborted"
    BY <1>2, <1>5, <2>1 DEF FlushFails
  <2>3. Faultless
    BY <2>1, <2>2 DEF Faultless
  <2> QED
    BY <2>2, <2>3 DEF Calm
<1>6. ASSUME NEW f \in AuditFlushes, RollbackThrows(f) PROVE FALSE
  <2>1. UNCHANGED auditPhase /\ PoolOpen /\ auditFlush[f].pc = "rollback"
    BY <1>6 DEF RollbackThrows, Faultless, PoolOpen
  <2>2. FALSE
    BY <1>2, <1>6, <2>1 DEF RollbackThrows
  <2> QED
    BY <2>2
<1>7. ASSUME NEW s \in AuditSessions, SessionTimesOut(s) PROVE FALSE
  BY <1>2, <1>7 DEF SessionTimesOut
<1>8. ASSUME CloseDb \/ AuditShutdown PROVE FALSE
  BY <1>8 DEF CloseDb, AuditShutdown, Faultless, PoolOpen
<1>9. ASSUME LogEntry \/ ShutdownStarts \/ UNCHANGED auditVars PROVE Faultless /\ QuietStep
  <2>1. QuietStep
    BY <1>9 DEF QuietStep
  <2>2. Faultless
    BY <1>9 DEF LogEntry, ShutdownStarts, auditVars, Faultless, PoolOpen
  <2> QED
    BY <2>1, <2>2
<1>10. ASSUME NEW f \in AuditFlushes, FlushStarts(f) PROVE Faultless /\ QuietStep
  <2>1. QuietStep
    BY <1>10 DEF QuietStep
  <2>2. Faultless
    BY <1>10 DEF FlushStarts, Faultless, PoolOpen
  <2> QED
    BY <2>1, <2>2
<1> QED
  BY <1>3, <1>4, <1>5, <1>6, <1>7, <1>8, <1>9, <1>10 DEF AuditNext, FlushStep

\* The snapshots that are taken over have every entry once.
LEMMA StaysCalm ==
  ASSUME AuditTyped, Faultless, Calm, OnePlace, QuietStep
  PROVE  /\ \A s \in AuditSessions : auditSession'[s].tx # "aborted"
         /\ \A f \in AuditFlushes :
              /\ auditFlush'[f].pc # "rollback"
              /\ auditFlush'[f].pc # "idle" =>
                   \A i, j \in DOMAIN auditFlush'[f].batch :
                     auditFlush'[f].batch[i] = auditFlush'[f].batch[j] => i = j
<1> DEFINE Single(flush) ==
             /\ flush.pc # "rollback"
             /\ flush.pc # "idle" =>
                  \A i, j \in DOMAIN flush.batch : flush.batch[i] = flush.batch[j] => i = j
<1>1. /\ \A s \in AuditSessions : auditSession[s].tx # "aborted"
      /\ \A f \in AuditFlushes : Single(auditFlush[f])
  BY DEF Calm
<1>2. ASSUME NEW f \in AuditFlushes, NEW new \in FlushRecords \cup {IdleFlush},
             auditFlush' = [auditFlush EXCEPT ![f] = new], Single(new)
      PROVE  \A q \in AuditFlushes : Single(auditFlush'[q])
  <2>1. \A q \in AuditFlushes : auditFlush'[q] = IF q = f THEN new ELSE auditFlush[q]
    BY <1>2, FlushChanges DEF AuditTyped
  <2> HIDE DEF Single
  <2> QED
    BY <1>1, <1>2, <2>1
<1>3. ASSUME NEW s \in AuditSessions, NEW after \in SessionRecords,
             auditSession' = [auditSession EXCEPT ![s] = after], after.tx # "aborted"
      PROVE  \A q \in AuditSessions : auditSession'[q].tx # "aborted"
  <2>1. \A q \in AuditSessions : auditSession'[q] = IF q = s THEN after ELSE auditSession[q]
    BY <1>3, SessionChanges DEF AuditTyped
  <2> QED
    BY <1>1, <1>3, <2>1
<1>4. Single(IdleFlush)
  BY IdleFlushHolds
<1> SUFFICES /\ \A s \in AuditSessions : auditSession'[s].tx # "aborted"
             /\ \A f \in AuditFlushes : Single(auditFlush'[f])
  OBVIOUS
<1>5. CASE LogEntry \/ ShutdownStarts \/ UNCHANGED auditVars
  <2>1. UNCHANGED <<auditFlush, auditSession>>
    BY <1>5 DEF LogEntry, ShutdownStarts, auditVars
  <2> HIDE DEF Single
  <2> QED
    BY <1>1, <2>1
<1>6. ASSUME NEW f \in AuditFlushes, FlushStarts(f)
      PROVE  /\ \A s \in AuditSessions : auditSession'[s].tx # "aborted"
             /\ \A q \in AuditFlushes : Single(auditFlush'[q])
  <2>1. PICK new \in FlushRecords : new = [pc |-> "begin", batch |-> auditQueue, at |-> 1]
    BY DEF AuditTyped, AuditTypes, FlushRecords
  <2>2. auditFlush' = [auditFlush EXCEPT ![f] = new] /\ UNCHANGED auditSession
    BY <1>6, <2>1 DEF FlushStarts
  <2>3. \A i, j \in DOMAIN auditQueue : auditQueue[i] = auditQueue[j] => i = j
    <3> TAKE i, j \in DOMAIN auditQueue
    <3>1. auditQueue \in Seq(AuditEntries)
      BY DEF AuditTyped, AuditTypes
    <3>2. PICK e \in AuditEntries : e = auditQueue[i]
      BY <3>1
    <3>3. Places(e) <= 1
      BY DEF OnePlace
    <3>4. Count(auditQueue, e) <= 1
      BY <3>3, PlacesAre
    <3> QED
      BY <3>1, <3>2, <3>4, CountIs
  <2>4. Single(new)
    BY <2>1, <2>3
  <2> HIDE DEF Single
  <2> QED
    BY <1>1, <1>2, <2>2, <2>4
<1>7. ASSUME NEW f \in AuditFlushes, NEW s \in AuditSessions, FlushBegins(f, s)
      PROVE  /\ \A q \in AuditSessions : auditSession'[q].tx # "aborted"
             /\ \A q \in AuditFlushes : Single(auditFlush'[q])
  <2>1. auditFlush[f].pc = "begin" /\ FlushGoes(f, "insert")
    BY <1>7 DEF FlushBegins
  <2>2. PICK new \in FlushRecords :
           /\ auditFlush' = [auditFlush EXCEPT ![f] = new]
           /\ new.pc = "insert" /\ new.batch = auditFlush[f].batch /\ new.at = auditFlush[f].at
    BY <2>1, GoesRecord DEF AuditTyped
  <2>3. Single(new)
    BY <1>1, <2>1, <2>2
  <2>4. PICK after : after = [auditSession[s] EXCEPT !.tx = "open"]
    OBVIOUS
  <2>5. after \in SessionRecords /\ after.tx = "open"
    BY <2>4, SessionOfPool DEF AuditTyped, SessionRecords
  <2>6. auditSession' = [auditSession EXCEPT ![s] = after]
    BY <1>7, <2>4 DEF FlushBegins
  <2>7. \A q \in AuditSessions : auditSession'[q].tx # "aborted"
    BY <1>3, <2>5, <2>6
  <2> HIDE DEF Single
  <2> QED
    BY <1>2, <2>2, <2>3, <2>7
<1>8. ASSUME NEW f \in AuditFlushes, NEW s \in AuditSessions, FlushInserts(f, s)
      PROVE  /\ \A q \in AuditSessions : auditSession'[q].tx # "aborted"
             /\ \A q \in AuditFlushes : Single(auditFlush'[q])
  <2>1. auditFlush[f].pc = "insert" /\ auditFlush[f] \in FlushRecords
        /\ auditFlush[f].at \in 1..Len(auditFlush[f].batch)
    BY <1>8, FlushOfProcess DEF FlushInserts, AuditTyped, SnapshotsFine
  <2>2. PICK x \in AuditEntries : x = auditFlush[f].batch[auditFlush[f].at]
    BY <2>1 DEF FlushRecords
  <2>3. PICK new \in FlushRecords :
          new = Advanced(auditFlush[f]) /\ auditFlush' = [auditFlush EXCEPT ![f] = new]
    BY <1>8, <2>1, AdvancedRecord DEF FlushInserts
  <2>4. new.batch = auditFlush[f].batch /\ new.pc \in {"insert", "commit"}
    BY <2>1, <2>3, AdvancedRecord
  <2>5. Single(new)
    BY <1>1, <2>1, <2>4
  <2>6. CASE UNCHANGED auditSession
    <3> HIDE DEF Single
    <3> QED
      BY <1>1, <1>2, <2>3, <2>5, <2>6
  <2>7. CASE auditSession[s].tx = "open"
                 /\ auditSession' = [auditSession EXCEPT ![s] = WithRow(auditSession[s], x)]
    <3>1. PICK after \in SessionRecords : after = WithRow(auditSession[s], x) /\ after.tx = "open"
      BY <2>7, WithRowRecord, SessionOfPool DEF AuditTyped
    <3>2. \A q \in AuditSessions : auditSession'[q].tx # "aborted"
      BY <1>3, <2>7, <3>1
    <3> HIDE DEF Single
    <3> QED
      BY <1>2, <2>3, <2>5, <3>2
  <2> QED
    BY <1>8, <2>2, <2>6, <2>7 DEF FlushInserts
<1>9. ASSUME NEW f \in AuditFlushes, NEW s \in AuditSessions, FlushCommits(f, s)
      PROVE  /\ \A q \in AuditSessions : auditSession'[q].tx # "aborted"
             /\ \A q \in AuditFlushes : Single(auditFlush'[q])
  <2>1. auditFlush' = [auditFlush EXCEPT ![f] = IdleFlush]
        /\ auditSession' = [auditSession EXCEPT ![s] = FreshSession]
    BY <1>9 DEF FlushCommits
  <2>2. \A q \in AuditSessions : auditSession'[q].tx # "aborted"
    BY <1>3, <2>1, FreshSessionRecord
  <2>3. PICK new \in FlushRecords \cup {IdleFlush} : new = IdleFlush
    OBVIOUS
  <2> HIDE DEF Single
  <2> QED
    BY <1>2, <1>4, <2>1, <2>2, <2>3
<1> HIDE DEF Single
<1> QED
  BY <1>5, <1>6, <1>7, <1>8, <1>9 DEF QuietStep

LEMMA StaysInOnePlace ==
  ASSUME AuditTyped, AuditTyped', Faultless, Calm, OnePlace, QuietStep, NEW e \in AuditEntries
  PROVE  Places(e)' = IF e <= auditLogged' THEN 1 ELSE 0
<1>1. Places(e) = IF e <= auditLogged THEN 1 ELSE 0
  BY DEF OnePlace
<1>2. CASE LogEntry
  BY <1>1, <1>2, LogEntryOnePlace
<1>3. CASE ShutdownStarts \/ UNCHANGED auditVars
  <2>1. UNCHANGED <<auditQueue, auditLogged, auditDropped, auditFlush, auditSession, auditRows>>
    BY <1>3 DEF ShutdownStarts, auditVars, logKept
  <2>2. Places(e)' = Places(e)
    BY <2>1 DEF Places, InHand, Written
  <2> QED
    BY <1>1, <2>1, <2>2
<1>4. ASSUME NEW f \in AuditFlushes, FlushStarts(f)
      PROVE  Places(e)' = Places(e) /\ UNCHANGED auditLogged
  <2>1. Places(e) <= 1
    BY <1>1
  <2>2. Places(e)' = Places(e)
    BY <1>4, <2>1, FlushStartsOnePlace
  <2> QED
    BY <1>4, <2>2 DEF FlushStarts, logKept
<1>5. ASSUME NEW f \in AuditFlushes, NEW s \in AuditSessions,
             FlushBegins(f, s) \/ FlushInserts(f, s) \/ FlushCommits(f, s)
      PROVE  Places(e)' = Places(e) /\ UNCHANGED auditLogged
  <2>1. UNCHANGED auditLogged
    BY <1>5 DEF FlushBegins, FlushInserts, FlushCommits, logKept
  <2>2. CASE FlushInserts(f, s)
    <3>1. \A i, j \in DOMAIN auditFlush[f].batch :
            auditFlush[f].batch[i] = auditFlush[f].batch[j] => i = j
      BY <2>2 DEF Calm, FlushInserts
    <3> QED
      BY <2>1, <2>2, <3>1, FlushInsertsOnePlace
  <2> QED
    BY <1>5, <2>1, <2>2, FlushBeginsOnePlace, FlushCommitsOnePlace
<1> QED
  BY <1>1, <1>2, <1>3, <1>4, <1>5 DEF QuietStep

LEMMA AuditStepTyped ==
  ASSUME AuditTyped, [AuditNext]_auditVars PROVE AuditTyped'
<1>1. CASE UNCHANGED auditVars
  BY <1>1 DEF AuditTyped, AuditTypes, SessionsFine, SnapshotsFine, auditVars
<1>2. CASE LogEntry
  BY <1>2, LogEntryTyped
<1>3. ASSUME NEW f \in AuditFlushes, FlushStarts(f) PROVE AuditTyped'
  BY <1>3, FlushStartsTyped
<1>4. ASSUME NEW f \in AuditFlushes, FlushStep(f) PROVE AuditTyped'
  BY <1>4, FlushBeginsTyped, FlushInsertsTyped, FlushCommitsTyped, FlushRollsBackTyped,
     FlushFailsTyped, RollbackThrowsTyped DEF FlushStep
<1>5. ASSUME NEW s \in AuditSessions, SessionTimesOut(s) PROVE AuditTyped'
  BY <1>5, SessionTimesOutTyped
<1>6. CASE ShutdownStarts \/ CloseDb \/ AuditShutdown
  BY <1>6, ShutdownTyped
<1> QED
  BY <1>1, <1>2, <1>3, <1>4, <1>5, <1>6 DEF AuditNext

LEMMA AuditStepKeeps ==
  ASSUME AuditTyped, NothingLost, [AuditNext]_auditVars PROVE NothingLost'
<1> SUFFICES ASSUME PoolOpen', NEW e \in 1..auditLogged' PROVE Located(e)'
  BY DEF NothingLost
<1>1. PoolOpen
  BY DEF AuditNext, FlushStep, auditVars, PoolOpen, LogEntry, FlushStarts, FlushBegins,
         FlushInserts, FlushCommits, FlushRollsBack, FlushFails, RollbackThrows, SessionTimesOut,
         ShutdownStarts, CloseDb, AuditShutdown
<1>2. CASE LogEntry
  BY <1>1, <1>2, LogEntryKeeps DEF NothingLost
<1>3. CASE ~LogEntry
  <2>1. UNCHANGED auditLogged
    BY <1>3 DEF AuditNext, FlushStep, auditVars, logKept, FlushStarts, FlushBegins,
         FlushInserts, FlushCommits, FlushRollsBack, FlushFails, RollbackThrows, SessionTimesOut,
         ShutdownStarts, CloseDb, AuditShutdown
  <2>2. e \in AuditEntries /\ Located(e)
    BY <1>1, <2>1, AuditAssumption DEF NothingLost, AuditTyped, AuditTypes, AuditEntries
  <2>3. CASE ShutdownStarts \/ UNCHANGED auditVars
    BY <2>2, <2>3 DEF Located, ShutdownStarts, auditVars, logKept
  <2>4. ASSUME NEW f \in AuditFlushes, FlushStarts(f) PROVE Located(e)'
    BY <2>2, <2>4, FlushStartsKeeps
  <2>5. ASSUME NEW f \in AuditFlushes, FlushStep(f) PROVE Located(e)'
    BY <2>2, <2>5, FlushBeginsKeeps, FlushInsertsKeeps, FlushCommitsKeeps, FlushRollsBackKeeps,
       FlushFailsKeeps, RollbackThrowsKeeps DEF FlushStep
  <2>6. ASSUME NEW s \in AuditSessions, SessionTimesOut(s) PROVE Located(e)'
    BY <2>2, <2>6, SessionTimesOutKeeps
  <2>7. ~CloseDb /\ ~AuditShutdown
    BY DEF CloseDb, AuditShutdown, PoolOpen
  <2> QED
    BY <1>3, <2>3, <2>4, <2>5, <2>6, <2>7 DEF AuditNext
<1> QED
  BY <1>2, <1>3

LEMMA AuditInitInv == AuditInit => AuditInv
<1> SUFFICES ASSUME AuditInit PROVE AuditInv
  OBVIOUS
<1>1. AuditTyped
  BY AuditInitTyped
<1>2. NothingLost
  BY DEF NothingLost, AuditInit
<1>3. /\ \A f \in AuditFlushes : auditFlush[f] = IdleFlush
      /\ \A s \in AuditSessions : auditSession[s] = FreshSession
  BY DEF AuditInit
<1>4. Calm
  BY <1>3, FreshSessionRecord, IdleFlushHolds DEF Calm
<1>5. ASSUME NEW e \in AuditEntries PROVE Places(e) = 0
  <2>1. Count(auditQueue, e) = 0 /\ DropOf(e) = 0
    BY CountOfNone DEF AuditInit, DropOf
  <2>2. InHand(e) = 0
    <3>1. InHand(e) \in Nat /\ ~(InHand(e) >= 1)
      BY <1>3, IdleFlushHolds, InHandIs
    <3> QED
      BY <3>1
  <2>3. Written(e) = 0
    <3>1. PICK f \in [AuditSessions -> Int] : f = RowsOpen(e)
      BY <1>1, RowsOpenAre
    <3>2. \A s \in AuditSessions : f[s] = 0
      BY <1>3, <3>1, FreshSessionRecord DEF RowsOpen
    <3>3. SumFunction(f) = 0
      BY <3>2, AuditAssumption, SumOfNothing
    <3>4. Written(e) = auditRows[e] + SumFunction(f)
      BY <3>1 DEF Written, RowsOpen
    <3>5. auditRows[e] = 0
      BY DEF AuditInit, NoRows
    <3> QED
      BY <3>3, <3>4, <3>5
  <2> QED
    BY <1>1, <2>1, <2>2, <2>3, PlacesAre
<1>6. \A e \in AuditEntries : ~(e <= auditLogged)
  BY DEF AuditInit, AuditEntries
<1> QED
  BY <1>1, <1>2, <1>4, <1>5, <1>6 DEF AuditInv, OnePlace

LEMMA AuditInvStep == AuditInv /\ [AuditNext]_auditVars => AuditInv'
<1> SUFFICES ASSUME AuditInv, [AuditNext]_auditVars PROVE AuditInv'
  OBVIOUS
<1>1. AuditTyped /\ NothingLost /\ Calm /\ OnePlace
  BY DEF AuditInv
<1>2. AuditTyped'
  BY <1>1, AuditStepTyped
<1>3. NothingLost'
  BY <1>1, AuditStepKeeps
<1>4. Calm'
  BY <1>1, OnlyQuietSteps, StaysCalm DEF Calm
<1>5. OnePlace'
  BY <1>1, <1>2, OnlyQuietSteps, StaysInOnePlace DEF OnePlace
<1> QED
  BY <1>2, <1>3, <1>4, <1>5 DEF AuditInv

LEMMA AuditInvAccounts == AuditInv => AuditAccounted
<1> SUFFICES ASSUME AuditInv, PoolOpen, NEW e \in 1..auditLogged
             PROVE  /\ e \notin auditTorn => Places(e) >= 1
                    /\ auditFaults = 0 => Places(e) = 1
  BY DEF AuditAccounted
<1>1. AuditTyped /\ NothingLost /\ OnePlace
  BY DEF AuditInv
<1>2. e \in AuditEntries /\ e <= auditLogged
  BY <1>1, AuditAssumption DEF AuditTyped, AuditTypes, AuditEntries
<1>3. auditFaults = 0 => Places(e) = 1
  BY <1>1, <1>2 DEF OnePlace, Faultless
<1>4. ASSUME e \notin auditTorn PROVE Places(e) >= 1
  <2>1. Located(e)
    BY <1>1 DEF NothingLost
  <2>2. /\ Places(e) = Count(auditQueue, e) + InHand(e) + Written(e) + DropOf(e)
        /\ Count(auditQueue, e) \in Nat /\ InHand(e) \in Nat /\ Written(e) \in Nat
        /\ DropOf(e) \in Nat
    BY <1>1, <1>2, PlacesAre
  <2>3. e \in ToSet(auditQueue) => Count(auditQueue, e) >= 1
    BY <1>1, CountIs DEF AuditTyped, AuditTypes
  <2>4. (\E f \in AuditFlushes : Holding(auditFlush[f], e)) => InHand(e) >= 1
    BY InHandIs
  <2>5. auditRows[e] > 0 \/ InTransaction(e) => Written(e) >= 1
    BY <1>1, <1>2, WrittenIs
  <2>6. e \in auditDropped => DropOf(e) >= 1
    BY DEF DropOf
  <2>7. Count(auditQueue, e) >= 1 \/ InHand(e) >= 1 \/ Written(e) >= 1 \/ DropOf(e) >= 1
    BY <1>4, <2>1, <2>3, <2>4, <2>5, <2>6 DEF Located, InTransaction
  <2> QED
    BY <2>2, <2>7
<1> QED
  BY <1>3, <1>4

\* Until the pool is closed, no entry that was logged is lost but with somebody
\* else's transaction or a ROLLBACK that threw, and while no statement fails
\* every entry is in exactly one place, however the flushes overlap and share
\* the sessions of the pool (auditLogger.ts:361-412).
THEOREM AuditTheorem == AuditSpec => []AuditAccounted
BY AuditInitInv, AuditInvStep, AuditInvAccounts, PTL DEF AuditSpec
-----------------------------------------------------------------------------
(* Types: whatever a step writes is in the sets the variables are declared by. *)

LEMMA IdemTyped == IdemTypeOK /\ [IdemNext]_idemVars => IdemTypeOK'
<1> SUFFICES ASSUME IdemTypeOK, [IdemNext]_idemVars PROVE IdemTypeOK'
  OBVIOUS
<1>1. idemReq \in [IdemRequests -> IdemRecords]
  BY DEF IdemTypeOK, IdemRecords
<1>2. /\ idemRedis \in Answers \cup {NoAnswer} /\ idemRow \in Answers \cup {NoAnswer}
      /\ idemDone \subseteq IdemRequests /\ idemBlind \in [IdemRequests -> SUBSET IdemRequests]
      /\ idemFaults \in 0..MaxIdemFaults
  BY DEF IdemTypeOK
<1>3. IdemFault => idemFaults' \in 0..MaxIdemFaults
  BY <1>2, IdemAssumption DEF IdemFault
<1>4. ASSUME NEW req \in IdemRecords, NEW pc \in IdemPhases
      PROVE  /\ [req EXCEPT !.pc = pc] \in IdemRecords
             /\ \A a \in Answers : [req EXCEPT !.pc = pc, !.answer = a] \in IdemRecords
  BY DEF IdemRecords
<1>5. {"run", "redis", "row", "end"} \subseteq IdemPhases
  BY DEF IdemPhases
<1>6. ASSUME NEW r \in IdemRequests, IdemLookup(r) PROVE IdemTypeOK'
  <2>1. idemFaults' \in 0..MaxIdemFaults
    BY <1>2, <1>3, <1>6 DEF IdemLookup
  <2>2. idemReq' \in [IdemRequests -> IdemRecords]
        /\ idemBlind' \in [IdemRequests -> SUBSET IdemRequests]
    <3>1. CASE Replayed(r)
      <4>1. [pc |-> "end", answer |-> idemRedis, replayed |-> TRUE] \in IdemRecords
        BY <1>2 DEF IdemRecords, IdemPhases
      <4> QED BY <1>1, <1>2, <3>1, <4>1 DEF Replayed
    <3>2. CASE Misses(r)
      <4>1. UnderWay \subseteq IdemRequests
        BY DEF UnderWay
      <4>2. [idemReq[r] EXCEPT !.pc = "run"] \in IdemRecords
        <5>1. idemReq[r] \in IdemRecords /\ "run" \in IdemPhases
          BY <1>1, <1>5
        <5> QED BY <1>4, <5>1, Zenon
      <4> QED BY <1>1, <1>2, <3>2, <4>1, <4>2 DEF Misses
    <3> QED BY <1>6, <3>1, <3>2 DEF IdemLookup
  <2> QED BY <1>2, <1>6, <2>1, <2>2 DEF IdemLookup, IdemTypeOK, IdemRecords
<1>7. ASSUME NEW r \in IdemRequests, IdemHandle(r) PROVE IdemTypeOK'
  <2>1. PICK ok \in BOOLEAN, done \in BOOLEAN :
          /\ idemReq' = [idemReq EXCEPT ![r] = [@ EXCEPT !.pc = "redis",
                                                !.answer = [of |-> r, ok |-> ok]]]
          /\ idemDone' = IF done THEN idemDone \cup {r} ELSE idemDone
    BY <1>7 DEF IdemHandle
  <2>2. [of |-> r, ok |-> ok] \in Answers
    BY DEF Answers
  <2>3. [idemReq[r] EXCEPT !.pc = "redis", !.answer = [of |-> r, ok |-> ok]] \in IdemRecords
    BY <1>1, <1>4, <2>2 DEF IdemPhases
  <2>4. idemReq' \in [IdemRequests -> IdemRecords]
    BY <1>1, <2>1, <2>3
  <2> QED BY <1>2, <1>7, <2>1, <2>4 DEF IdemHandle, IdemTypeOK, IdemRecords
<1>8. ASSUME NEW r \in IdemRequests, StoreInRedis(r) \/ StoreRow(r) PROVE IdemTypeOK'
  <2>1. PICK pc \in {"row", "end"} : idemReq' = [idemReq EXCEPT ![r].pc = pc]
    BY <1>8 DEF StoreInRedis, StoreRow
  <2>2. [idemReq[r] EXCEPT !.pc = pc] \in IdemRecords /\ idemReq[r].answer \in Answers \cup {NoAnswer}
    <3>1. idemReq[r] \in IdemRecords /\ pc \in IdemPhases
      BY <1>1, <1>5
    <3>2. [idemReq[r] EXCEPT !.pc = pc] \in IdemRecords
      BY <1>4, <3>1, Zenon
    <3> QED BY <3>1, <3>2 DEF IdemRecords
  <2>3. idemReq' \in [IdemRequests -> IdemRecords]
    BY <1>1, <2>1, <2>2
  <2>4. /\ idemRedis' \in Answers \cup {NoAnswer} /\ idemRow' \in Answers \cup {NoAnswer}
        /\ idemFaults' \in 0..MaxIdemFaults
    BY <1>2, <1>3, <1>8, <2>2 DEF StoreInRedis, StoreRow
  <2> QED BY <1>2, <1>8, <2>3, <2>4 DEF StoreInRedis, StoreRow, IdemTypeOK, IdemRecords
<1>9. CASE IdemExpires
  BY <1>2, <1>3, <1>9 DEF IdemExpires, IdemTypeOK
<1>10. CASE IdemCrash
  <2>1. idemReq' \in [IdemRequests -> IdemRecords]
    <3>1. ASSUME NEW r \in IdemRequests
          PROVE  idemReq[r] \in IdemRecords /\ [idemReq[r] EXCEPT !.pc = "end"] \in IdemRecords
      <4>1. idemReq[r] \in IdemRecords /\ "end" \in IdemPhases
        BY <1>1, <1>5
      <4> QED BY <1>4, <4>1, Zenon
    <3> QED BY <1>10, <3>1 DEF IdemCrash
  <2> QED BY <1>2, <1>3, <1>10, <2>1 DEF IdemCrash, IdemTypeOK, IdemRecords
<1>11. CASE UNCHANGED idemVars
  BY <1>11 DEF idemVars, IdemTypeOK
<1> QED
  BY <1>6, <1>7, <1>8, <1>9, <1>10, <1>11 DEF IdemNext

LEMMA IdemFirstTyped == IdemInit => IdemTypeOK
BY IdemAssumption DEF IdemInit, IdemTypeOK, IdemPhases

LEMMA PayTyped == PayTypeOK /\ [PayNext]_payVars => PayTypeOK'
<1> SUFFICES ASSUME PayTypeOK, [PayNext]_payVars PROVE PayTypeOK'
  OBVIOUS
<1> DEFINE Requests ==
      [pc : {"idle", "read", "sign", "store", "answered", "failed"}, found : BOOLEAN,
       signature : Signatures]
<1>1. /\ payGross \in 0..MaxGross /\ payClock \in 0..MaxPayClock
      /\ payRow \subseteq PayRows /\ Cardinality(payRow) <= 1
      /\ payReq \in [PayRequests -> Requests]
      /\ payAlone \in SUBSET PayRequests /\ payFaults \in 0..MaxPayFaults
  BY DEF PayTypeOK
<1>2. CASE GrossGrows \/ PayClockTicks
  BY <1>1, <1>2, PayAssumption DEF GrossGrows, PayClockTicks, PayTypeOK
<1>3. ASSUME NEW r \in PayRequests, PayslipLooked(r) \/ PayslipFails(r) PROVE PayTypeOK'
  <2>1. PICK pc \in {"read", "failed"}, found \in BOOLEAN :
          payReq' = [payReq EXCEPT ![r] = [@ EXCEPT !.pc = pc, !.found = found]]
    <3>1. payReq[r] \in Requests
      BY <1>1
    <3>2. [payReq[r] EXCEPT !.pc = "failed"]
            = [payReq[r] EXCEPT !.pc = "failed", !.found = payReq[r].found]
      BY <3>1
    <3> QED BY <1>1, <1>3, <3>1, <3>2 DEF PayslipLooked, PayslipFails
  <2>2. [payReq[r] EXCEPT !.pc = pc, !.found = found] \in Requests
    BY <1>1
  <2>3. payReq' \in [PayRequests -> Requests]
    BY <1>1, <2>1, <2>2
  <2>4. payFaults' \in 0..MaxPayFaults /\ payAlone' \in SUBSET PayRequests
    BY <1>1, <1>3, PayAssumption DEF PayslipLooked, PayslipFails
  <2> QED BY <1>1, <1>3, <2>3, <2>4 DEF PayslipLooked, PayslipFails, PayTypeOK
<1>4. ASSUME NEW r \in PayRequests, StreamsSummed(r) \/ PayslipSigned(r) PROVE PayTypeOK'
  <2>1. payReq[r] \in Requests /\ payReq[r].signature \in Signatures
    BY <1>1
  <2>2. /\ [payReq[r].signature EXCEPT !.gross = payGross] \in Signatures
        /\ [payReq[r].signature EXCEPT !.at = payClock] \in Signatures
    BY <1>1, <2>1 DEF Signatures
  <2>3. ASSUME NEW pc \in {"sign", "store"}, NEW signature \in Signatures
        PROVE  [payReq[r] EXCEPT !.pc = pc, !.signature = signature] \in Requests
    BY <2>1
  <2>4. PICK pc \in {"sign", "store"}, signature \in Signatures :
          payReq' = [payReq EXCEPT ![r] = [@ EXCEPT !.pc = pc, !.signature = signature]]
    <3>1. CASE StreamsSummed(r)
      <4>1. payReq' = [payReq EXCEPT ![r] = [@ EXCEPT !.pc = "sign",
                         !.signature = [payReq[r].signature EXCEPT !.gross = payGross]]]
        BY <1>1, <2>1, <3>1 DEF StreamsSummed
      <4> QED BY <2>2, <4>1
    <3>2. CASE PayslipSigned(r)
      <4>1. payReq' = [payReq EXCEPT ![r] = [@ EXCEPT !.pc = "store",
                         !.signature = [payReq[r].signature EXCEPT !.at = payClock]]]
        BY <1>1, <2>1, <3>2 DEF PayslipSigned
      <4> QED BY <2>2, <4>1
    <3> QED BY <1>4, <3>1, <3>2
  <2>5. payReq' \in [PayRequests -> Requests]
    BY <1>1, <2>3, <2>4
  <2> QED BY <1>1, <1>4, <2>5 DEF StreamsSummed, PayslipSigned, PayTypeOK
<1>5. ASSUME NEW r \in PayRequests, PayslipStored(r) PROVE PayTypeOK'
  <2>1. payReq[r] \in Requests /\ payReq[r].signature \in Signatures
    BY <1>1
  <2> DEFINE id == IF payRow = {} THEN r ELSE (CHOOSE x \in payRow : TRUE).payslip_id
             row == [payslip_id |-> id, gross |-> payReq[r].signature.gross,
                     generated_at |-> payClock, signature |-> payReq[r].signature]
  <2>2. id \in PayRequests
    <3>1. payRow # {} => (CHOOSE x \in payRow : TRUE) \in PayRows
      BY <1>1
    <3> QED BY <3>1 DEF PayRows
  <2>3. row \in PayRows
    BY <1>1, <2>1, <2>2 DEF PayRows, Signatures
  <2>4. payRow' = {row} \/ payRow' = payRow
    BY <1>5 DEF PayslipStored, RowsWith
  <2>5. payRow' \subseteq PayRows /\ Cardinality(payRow') <= 1
    <3> HIDE DEF row
    <3>1. Cardinality({row}) = 1
      BY FS_Singleton
    <3> QED BY <1>1, <2>3, <2>4, <3>1
  <2>6. payReq' \in [PayRequests -> Requests]
    <3>1. [payReq[r] EXCEPT !.pc = "answered"] \in Requests
      BY <2>1
    <3>2. payReq' = [payReq EXCEPT ![r] = [payReq[r] EXCEPT !.pc = "answered"]]
      BY <1>1, <1>5 DEF PayslipStored
    <3> QED BY <1>1, <3>1, <3>2
  <2> QED BY <1>1, <1>5, <2>5, <2>6 DEF PayslipStored, PayTypeOK
<1>6. CASE UNCHANGED payVars
  BY <1>6 DEF payVars, PayTypeOK
<1> QED
  BY <1>2, <1>3, <1>4, <1>5, <1>6 DEF PayNext

LEMMA PayFirstTyped == PayInit => PayTypeOK
<1>1. Cardinality({}) = 0
  BY FS_EmptySet
<1> QED
  BY <1>1, PayAssumption DEF PayInit, PayTypeOK, Signatures

\* A cycle that gets another record; the record is written by one of the steps.
LEMMA MonCycleTyped ==
  ASSUME MonTypeOK, NEW c \in MonCycles,
         NEW run \in [pc : {"idle", "read", "streams", "alert", "persist"},
                      todo : SUBSET MonEmployers, at : SUBSET MonEmployers,
                      balance : [MonEmployers -> MonAmounts \cup {NotRead}],
                      burn : [MonEmployers -> MonAmounts \cup {NotRead}], alert_sent : BOOLEAN],
         monRun' = [monRun EXCEPT ![c] = run], UNCHANGED monTables,
         monTrue' \in [MonCycles -> [MonEmployers -> SUBSET (MonAmounts \X MonAmounts)]],
         monChanged' \in [MonCycles -> [MonEmployers -> SUBSET {"balance", "burn"}]],
         monRows' \in [MonEmployers -> SUBSET [low : BOOLEAN, alert_sent : BOOLEAN]],
         monChanges' = monChanges, monFaults' \in 0..MaxMonFaults
  PROVE  MonTypeOK'
BY DEF MonTypeOK, monTables

LEMMA MonTyped == MonTypeOK /\ [MonNext]_monVars => MonTypeOK'
<1> SUFFICES ASSUME MonTypeOK, [MonNext]_monVars PROVE MonTypeOK'
  OBVIOUS
<1> DEFINE Readings == MonAmounts \cup {NotRead}
           Runs == [pc : {"idle", "read", "streams", "alert", "persist"},
                    todo : SUBSET MonEmployers, at : SUBSET MonEmployers,
                    balance : [MonEmployers -> Readings], burn : [MonEmployers -> Readings],
                    alert_sent : BOOLEAN]
<1>1. /\ monBalance \in [MonEmployers -> MonAmounts] /\ monBurn \in [MonEmployers -> MonAmounts]
      /\ monTrue \in [MonCycles -> [MonEmployers -> SUBSET (MonAmounts \X MonAmounts)]]
      /\ monChanged \in [MonCycles -> [MonEmployers -> SUBSET {"balance", "burn"}]]
      /\ monRows \in [MonEmployers -> SUBSET [low : BOOLEAN, alert_sent : BOOLEAN]]
      /\ monChanges \in 0..MaxMonChanges /\ monFaults \in 0..MaxMonFaults
      /\ \A c \in MonCycles : monRun[c] \in Runs
  BY DEF MonTypeOK
<1>2. MonFault => monFaults' \in 0..MaxMonFaults
  BY <1>1, MonAssumption DEF MonFault
<1>3. IdleMonitor \in Runs
  BY DEF IdleMonitor, NothingRead
<1>4. ASSUME NEW e \in MonEmployers, NEW balance \in MonAmounts, NEW burn \in MonAmounts,
             TableChanges(e, balance, burn)
      PROVE  MonTypeOK'
  <2>1. monBalance' \in [MonEmployers -> MonAmounts] /\ monBurn' \in [MonEmployers -> MonAmounts]
    BY <1>1, <1>4 DEF TableChanges
  <2>2. monChanges' \in 0..MaxMonChanges
    BY <1>1, <1>4, MonAssumption DEF TableChanges
  <2>3. monTrue' \in [MonCycles -> [MonEmployers -> SUBSET (MonAmounts \X MonAmounts)]]
    <3> DEFINE now == <<monBalance'[e], monBurn'[e]>>
               seen(c) == IF monRun[c].pc \in {"idle", "read"} THEN monTrue[c][e]
                          ELSE monTrue[c][e] \cup {now}
    <3>1. now \in MonAmounts \X MonAmounts
      BY <2>1
    <3>2. \A c \in MonCycles : seen(c) \in SUBSET (MonAmounts \X MonAmounts)
      BY <1>1, <3>1
    <3>3. monTrue' = [c \in MonCycles |-> [monTrue[c] EXCEPT ![e] = seen(c)]]
      BY <1>1, <1>4 DEF TableChanges
    <3> HIDE DEF seen
    <3> QED BY <1>1, <3>2, <3>3
  <2>4. monChanged' \in [MonCycles -> [MonEmployers -> SUBSET {"balance", "burn"}]]
    <3> DEFINE tables == Tables(e, balance, burn)
               moved(c) == IF monRun[c].pc = "streams" /\ e \in monRun[c].todo
                           THEN monChanged[c][e] \cup tables ELSE monChanged[c][e]
    <3>1. \A c \in MonCycles : moved(c) \in SUBSET {"balance", "burn"}
      BY <1>1 DEF Tables
    <3>2. monChanged' = [c \in MonCycles |-> [monChanged[c] EXCEPT ![e] = moved(c)]]
      BY <1>1, <1>4 DEF TableChanges
    <3> HIDE DEF moved
    <3> QED BY <1>1, <3>1, <3>2
  <2> QED BY <1>1, <1>4, <2>1, <2>2, <2>3, <2>4 DEF TableChanges, MonTypeOK
<1>5. ASSUME NEW c \in MonCycles, MonitorOver(c), UNCHANGED <<monTables, monChanges>>,
             monRows' \in [MonEmployers -> SUBSET [low : BOOLEAN, alert_sent : BOOLEAN]],
             monFaults' \in 0..MaxMonFaults
      PROVE  MonTypeOK'
  BY <1>1, <1>3, <1>5, MonCycleTyped DEF MonitorOver
<1>6. ASSUME NEW c \in MonCycles, MonitorRuns(c) PROVE MonTypeOK'
  <2>1. [monRun[c] EXCEPT !.pc = "read"] \in Runs
    BY <1>1
  <2> QED BY <1>1, <1>6, <2>1, MonCycleTyped DEF MonitorRuns, monHistory
<1>7. ASSUME NEW c \in MonCycles, BalancesRead(c) PROVE MonTypeOK'
  <2>1. [monRun[c] EXCEPT !.pc = "streams", !.todo = MonEmployers, !.balance = monBalance] \in Runs
    BY <1>1
  <2>2. monTrue' \in [MonCycles -> [MonEmployers -> SUBSET (MonAmounts \X MonAmounts)]]
    BY <1>1, <1>7 DEF BalancesRead
  <2> QED BY <1>1, <1>7, <2>1, <2>2, MonCycleTyped DEF BalancesRead
<1>8. ASSUME NEW c \in MonCycles, NEW e \in MonEmployers, StreamsRead(c, e) PROVE MonTypeOK'
  <2> DEFINE left == monRun[c].todo \ {e}
             todo == IF left = {} THEN MonEmployers ELSE left
             pc == IF left = {} THEN "alert" ELSE "streams"
             burn == [monRun[c].burn EXCEPT ![e] = monBurn[e]]
             run == [monRun[c] EXCEPT !.burn = burn, !.todo = todo, !.pc = pc]
  <2>1. todo \in SUBSET MonEmployers /\ pc \in {"alert", "streams"}
    BY <1>1
  <2>2. monRun' = [monRun EXCEPT ![c] = run]
    BY <1>8 DEF StreamsRead
  <2>3. burn \in [MonEmployers -> Readings]
    BY <1>1
  <2> HIDE DEF todo, pc, burn
  <2>4. run \in Runs
    <3>1. monRun[c] \in Runs
      BY <1>1
    <3> QED BY <2>1, <2>3, <3>1
  <2> HIDE DEF run
  <2> QED BY <1>1, <1>8, <2>2, <2>4, MonCycleTyped DEF StreamsRead, monHistory
<1>9. ASSUME NEW c \in MonCycles, NEW e \in MonEmployers, EmployerAlerted(c, e) PROVE MonTypeOK'
  <2>1. IsLow(c, e) \in BOOLEAN
    BY DEF IsLow
  <2>2. [monRun[c] EXCEPT !.pc = "persist", !.at = {e}, !.alert_sent = IsLow(c, e)] \in Runs
    BY <1>1, <2>1
  <2> QED BY <1>1, <1>9, <2>2, MonCycleTyped DEF EmployerAlerted, monHistory
<1>10. ASSUME NEW c \in MonCycles, NEW e \in MonEmployers, EmployerLogged(c, e) PROVE MonTypeOK'
  <2>1. [low |-> IsLow(c, e), alert_sent |-> monRun[c].alert_sent]
          \in [low : BOOLEAN, alert_sent : BOOLEAN]
    BY <1>1 DEF IsLow
  <2>2. monRows' \in [MonEmployers -> SUBSET [low : BOOLEAN, alert_sent : BOOLEAN]]
    <3> DEFINE Rows == [low : BOOLEAN, alert_sent : BOOLEAN]
               row == [low |-> IsLow(c, e), alert_sent |-> monRun[c].alert_sent]
    <3>1. \/ monRows' = [monRows EXCEPT ![e] = @ \cup {row}]
          \/ monRows' = monRows
      BY <1>10 DEF EmployerLogged
    <3>2. row \in Rows /\ monRows \in [MonEmployers -> SUBSET Rows]
      BY <1>1, <2>1
    <3> HIDE DEF Rows, row
    <3>3. monRows' \in [MonEmployers -> SUBSET Rows]
      BY <3>1, <3>2
    <3> QED BY <3>3 DEF Rows
  <2>3. monFaults' \in 0..MaxMonFaults
    BY <1>1, <1>2, <1>10 DEF EmployerLogged
  <2>4. CASE monRun[c].todo = {e}
    BY <1>5, <1>10, <2>2, <2>3, <2>4 DEF EmployerLogged
  <2>5. CASE monRun[c].todo # {e}
    <3> DEFINE run == [monRun[c] EXCEPT !.pc = "alert", !.todo = monRun[c].todo \ {e},
                                        !.at = {}, !.alert_sent = FALSE]
    <3>1. run \in Runs
      BY <1>1
    <3>2. /\ monRun' = [monRun EXCEPT ![c] = run]
          /\ UNCHANGED <<monTables, monHistory, monChanges>>
      BY <1>10, <2>5 DEF EmployerLogged
    <3> HIDE DEF run
    <3> QED BY <1>1, <2>2, <2>3, <3>1, <3>2, MonCycleTyped DEF monHistory
  <2> QED BY <2>4, <2>5
<1>11. ASSUME NEW c \in MonCycles, MonitorFails(c) PROVE MonTypeOK'
  BY <1>1, <1>2, <1>5, <1>11 DEF MonitorFails
<1>12. CASE UNCHANGED monVars
  BY <1>12 DEF monVars, MonTypeOK
<1> QED
  BY <1>4, <1>6, <1>7, <1>8, <1>9, <1>10, <1>11, <1>12 DEF MonNext

LEMMA MonFirstTyped == MonInit => MonTypeOK
BY MonAssumption DEF MonInit, MonTypeOK, MonAmounts, IdleMonitor, NothingRead

LEMMA NoticeTyped == NoticeTypeOK /\ [NoticeNext]_noticeVars => NoticeTypeOK'
<1> SUFFICES ASSUME NoticeTypeOK, [NoticeNext]_noticeVars PROVE NoticeTypeOK'
  OBVIOUS
<1> DEFINE Checks == CheckRecords
<1>1. /\ noticePrefs \in SUBSET SUBSET NoticeKinds /\ Cardinality(noticePrefs) <= 1
      /\ noticePatch \in [NoticePatches -> PatchRecords]
      /\ noticeAsked \in SUBSET NoticeKinds /\ noticeLost \in SUBSET NoticeKinds
      /\ noticeCheck \in [NoticeChecks -> Checks]
      /\ noticeKeys \in [NoticeReplicas -> SUBSET NoticeKinds]
      /\ noticeClosed \subseteq NoticeReplicas
      /\ noticeFaults \in 0..MaxNoticeFaults
  BY DEF NoticeTypeOK, PatchRecords, CheckRecords
<1>2. NoticeFault => noticeFaults' \in 0..MaxNoticeFaults
  BY <1>1, NoticeAssumption DEF NoticeFault
<1>3. IdleCheck \in Checks /\ [IdlePatch EXCEPT !.pc = "answered"] \in PatchRecords
  BY NoticeAssumption DEF IdleCheck, CheckRecords, IdlePatch, PatchRecords
<1>4. ASSUME NEW r \in NoticePatches, NEW on \in SUBSET NoticeKinds, NEW off \in SUBSET NoticeKinds,
             PatchReads(r, on, off)
      PROVE  NoticeTypeOK'
  <2>1. PICK alone \in BOOLEAN :
          noticePatch' = [q \in NoticePatches |->
            IF q = r
            THEN [pc |-> "write", on |-> on, off |-> off, row |-> noticePrefs, alone |-> alone]
            ELSE IF noticePatch[q].pc = "write" THEN [noticePatch[q] EXCEPT !.alone = FALSE]
            ELSE noticePatch[q]]
    BY <1>4 DEF PatchReads
  <2>2. [pc |-> "write", on |-> on, off |-> off, row |-> noticePrefs, alone |-> alone]
          \in PatchRecords
    BY <1>1 DEF PatchRecords
  <2>3. ASSUME NEW q \in NoticePatches
        PROVE  [noticePatch[q] EXCEPT !.alone = FALSE] \in PatchRecords
    <3>1. PICK patch \in PatchRecords : patch = noticePatch[q]
      BY <1>1
    <3>2. [patch EXCEPT !.alone = FALSE] \in PatchRecords
      BY DEF PatchRecords
    <3> QED BY <3>1, <3>2
  <2>4. noticePatch' \in [NoticePatches -> PatchRecords]
    BY <1>1, <2>1, <2>2, <2>3
  <2> QED BY <1>1, <1>4, <2>4 DEF PatchReads, NoticeTypeOK, PatchRecords, CheckRecords
<1>5. ASSUME NEW r \in NoticePatches, PatchWrites(r) PROVE NoticeTypeOK'
  <2> DEFINE patch == noticePatch[r]
  <2>1. /\ patch.on \in SUBSET NoticeKinds /\ patch.off \in SUBSET NoticeKinds
        /\ patch.row \in SUBSET SUBSET NoticeKinds
    BY <1>1 DEF PatchRecords
  <2>2. Merged(patch) \in SUBSET NoticeKinds
    <3> HIDE DEF patch
    <3>1. KindsOn(patch.row) \subseteq NoticeKinds
      BY <2>1, KindsOnRow
    <3> QED BY <2>1, <3>1 DEF Merged
  <2>3. /\ noticePrefs' = {Merged(patch)}
        /\ noticeAsked' = (noticeAsked \ patch.off) \cup patch.on
        /\ noticeLost' = IF patch.alone THEN noticeLost \ (patch.on \cup patch.off) ELSE NoticeKinds
        /\ noticePatch' = [noticePatch EXCEPT ![r] = [IdlePatch EXCEPT !.pc = "answered"]]
        /\ UNCHANGED <<noticeCheck, noticeKeys, noticeClosed, noticeFaults>>
    BY <1>5 DEF PatchWrites
  <2> HIDE DEF patch
  <2>4. Cardinality(noticePrefs') <= 1
    <3>1. Cardinality(noticePrefs') = 1
      BY <2>3, FS_Singleton
    <3> QED BY <3>1
  <2>5. noticePatch' \in [NoticePatches -> PatchRecords]
    BY <1>1, <1>3, <2>3
  <2>6. noticeAsked' \in SUBSET NoticeKinds /\ noticeLost' \in SUBSET NoticeKinds
    BY <1>1, <2>1, <2>3
  <2> QED BY <1>1, <2>2, <2>3, <2>4, <2>5, <2>6 DEF NoticeTypeOK, PatchRecords, CheckRecords
<1>6. ASSUME NEW r \in NoticePatches, PatchFails(r) PROVE NoticeTypeOK'
  <2> DEFINE patch == noticePatch[r]
  <2>1. noticePatch' \in [NoticePatches -> PatchRecords]
    BY <1>1, <1>3, <1>6 DEF PatchFails
  <2>2. CASE UNCHANGED <<noticePrefs, noticeAsked, noticeLost>>
    BY <1>1, <1>2, <1>6, <2>1, <2>2 DEF PatchFails, NoticeTypeOK, PatchRecords, CheckRecords
  <2>3. CASE /\ noticePrefs' = {Merged(patch)}
             /\ noticeAsked' = noticeAsked \cup patch.on
             /\ noticeLost' = IF patch.alone THEN noticeLost ELSE NoticeKinds
    <3>1. /\ patch.on \in SUBSET NoticeKinds /\ patch.row \in SUBSET SUBSET NoticeKinds
      BY <1>1 DEF PatchRecords
    <3> HIDE DEF patch
    <3>2. Merged(patch) \in SUBSET NoticeKinds
      <4>1. KindsOn(patch.row) \subseteq NoticeKinds
        BY <3>1, KindsOnRow
      <4> QED BY <3>1, <4>1 DEF Merged
    <3>3. Cardinality(noticePrefs') <= 1
      <4>1. Cardinality(noticePrefs') = 1
        BY <2>3, FS_Singleton
      <4> QED BY <4>1
    <3>4. noticeAsked' \in SUBSET NoticeKinds /\ noticeLost' \in SUBSET NoticeKinds
      BY <1>1, <2>3, <3>1
    <3>5. noticePrefs' \in SUBSET SUBSET NoticeKinds
      BY <2>3, <3>2
    <3>6. UNCHANGED <<noticeCheck, noticeKeys, noticeClosed>> /\ noticeFaults' \in 0..MaxNoticeFaults
      BY <1>2, <1>6 DEF PatchFails
    <3> QED
      BY <1>1, <2>1, <3>3, <3>4, <3>5, <3>6 DEF NoticeTypeOK, PatchRecords, CheckRecords
  <2> QED BY <1>6, <2>2, <2>3 DEF PatchFails
<1>7. ASSUME NEW c \in NoticeChecks, NEW check \in Checks, NEW keys \in SUBSET NoticeKinds, NEW p,
             noticeCheck' = [noticeCheck EXCEPT ![c] = check],
             noticeKeys' \in {noticeKeys, [noticeKeys EXCEPT ![p] = keys]},
             UNCHANGED <<noticePatchVars, noticeClosed>>, noticeFaults' \in 0..MaxNoticeFaults
      PROVE  NoticeTypeOK'
  <2>1. noticeCheck' \in [NoticeChecks -> Checks] /\ noticeKeys' \in [NoticeReplicas -> SUBSET NoticeKinds]
    BY <1>1, <1>7
  <2> QED BY <1>1, <1>7, <2>1 DEF noticePatchVars, NoticeTypeOK, PatchRecords,
                                   CheckRecords
<1>8. ASSUME NEW c \in NoticeChecks, NEW p \in NoticeReplicas, NEW kind \in NoticeKinds,
             CheckStarts(c, p, kind)
      PROVE  NoticeTypeOK'
  <2>1. [IdleCheck EXCEPT !.pc = "prefs", !.at = p, !.kind = kind] \in Checks
    BY <1>3 DEF CheckRecords
  <2> QED BY <1>1, <1>7, <1>8, <2>1 DEF CheckStarts
<1>9. ASSUME NEW c \in NoticeChecks, CheckReadsPrefs(c) PROVE NoticeTypeOK'
  <2> DEFINE check == noticeCheck[c]
             blind == check.at \in noticeClosed
             going == [check EXCEPT !.pc = "send", !.asked = noticeAsked \cup noticeLost,
                                    !.blind = blind]
  <2>1. check \in Checks /\ going \in Checks
    <3>1. check \in Checks /\ noticeAsked \cup noticeLost \in SUBSET NoticeKinds
      BY <1>1
    <3>2. blind \in BOOLEAN
      OBVIOUS
    <3> HIDE DEF check, blind
    <3> QED BY <3>1, <3>2 DEF CheckRecords
  <2>2. noticeCheck' \in {[noticeCheck EXCEPT ![c] = going], [noticeCheck EXCEPT ![c] = IdleCheck]}
    BY <1>9 DEF CheckReadsPrefs
  <2>3. noticeKeys' \in {noticeKeys,
          [noticeKeys EXCEPT ![check.at] = noticeKeys[check.at] \cup {"low_runway"}]}
    BY <1>9 DEF CheckReadsPrefs
  <2>4. UNCHANGED <<noticePatchVars, noticeClosed, noticeFaults>>
    BY <1>9 DEF CheckReadsPrefs
  <2> HIDE DEF check, blind, going
  <2>5. noticeKeys' \in [NoticeReplicas -> SUBSET NoticeKinds]
    <3>1. CASE check.at \in NoticeReplicas
      BY <1>1, <2>3, <3>1, NoticeAssumption
    <3>2. CASE check.at \notin NoticeReplicas
      BY <1>1, <2>3, <3>2
    <3> QED BY <3>1, <3>2
  <2>6. noticeCheck' \in [NoticeChecks -> Checks]
    BY <1>1, <1>3, <2>1, <2>2
  <2> QED BY <1>1, <2>4, <2>5, <2>6 DEF noticePatchVars, NoticeTypeOK, PatchRecords,
                                   CheckRecords
<1>10. ASSUME NEW c \in NoticeChecks, NoticeSent(c) PROVE NoticeTypeOK'
  <2> DEFINE check == noticeCheck[c]
  <2>1. check.kind \in NoticeKinds
    BY <1>1 DEF CheckRecords
  <2>2. /\ noticeKeys' = [noticeKeys EXCEPT ![check.at] = noticeKeys[check.at] \cup {check.kind}]
        /\ noticeCheck' = [noticeCheck EXCEPT ![c] = IdleCheck]
        /\ UNCHANGED <<noticePatchVars, noticeClosed, noticeFaults>>
    BY <1>10 DEF NoticeSent
  <2> HIDE DEF check
  <2>3. noticeKeys' \in [NoticeReplicas -> SUBSET NoticeKinds]
    <3>1. CASE check.at \in NoticeReplicas
      BY <1>1, <2>1, <2>2, <3>1
    <3>2. CASE check.at \notin NoticeReplicas
      BY <1>1, <2>2, <3>2
    <3> QED BY <3>1, <3>2
  <2>4. noticeCheck' \in [NoticeChecks -> Checks]
    BY <1>1, <1>3, <2>2
  <2> QED BY <1>1, <2>2, <2>3, <2>4 DEF noticePatchVars, NoticeTypeOK, PatchRecords,
                                   CheckRecords
<1>11. ASSUME NEW c \in NoticeChecks, CheckFails(c) PROVE NoticeTypeOK'
  BY <1>1, <1>2, <1>3, <1>7, <1>11 DEF CheckFails
<1>12. ASSUME NEW p \in NoticeReplicas, NoticeCrash(p) PROVE NoticeTypeOK'
  <2>1. noticeCheck' \in [NoticeChecks -> Checks]
    BY <1>1, <1>3, <1>12 DEF NoticeCrash
  <2>2. noticeKeys' \in [NoticeReplicas -> SUBSET NoticeKinds]
    BY <1>1, <1>12 DEF NoticeCrash
  <2> QED BY <1>1, <1>2, <1>12, <2>1, <2>2 DEF NoticeCrash, noticePatchVars, NoticeTypeOK, PatchRecords,
                                   CheckRecords
<1>13. ASSUME NEW p \in NoticeReplicas, PoolCloses(p) PROVE NoticeTypeOK'
  BY <1>1, <1>13 DEF PoolCloses, noticePatchVars, NoticeTypeOK
<1>14. CASE UNCHANGED noticeVars
  BY <1>14 DEF noticeVars, NoticeTypeOK
<1> QED
  BY <1>4, <1>5, <1>6, <1>8, <1>9, <1>10, <1>11, <1>12, <1>13, <1>14 DEF NoticeNext

LEMMA NoticeFirstTyped == NoticeInit => NoticeTypeOK
<1>1. Cardinality({}) = 0
  BY FS_EmptySet
<1> QED
  BY <1>1, NoticeAssumption DEF NoticeInit, NoticeTypeOK, IdlePatch, IdleCheck
=============================================================================
