------------------------------- MODULE Payslips --------------------------------
(* Payslips of one worker and one period (src/routes/payslips.ts,              *)
(* src/services/signatureService.ts): every request makes a new payslip with a *)
(* new identifier, time and signature; only the one that finds no row in       *)
(* payslip_records stores one.  A signature is what it was made over.          *)
EXTENDS Integers, FiniteSets

CONSTANTS
  PayRequests,     \* requests for the payslip; the identifier each generates
  MaxGross,        \* bound on the withdrawn amount of the period's streams
  MaxPayClock,     \* bound on the clock
  MaxPayFaults,    \* bound on failed requests
  KeysConfigured   \* whether PAYSLIP_SIGNING_KEY_PRIVATE and _PUBLIC are set

ASSUME PayAssumption == MaxGross \in Nat /\ MaxPayClock \in Nat /\ MaxPayFaults \in Nat

VARIABLES
  payGross,        \* withdrawn amount of the period's streams
  payClock,        \* time, as processes and database see it
  payRow,          \* the row of payslip_records, or none: a set of at most one
  payReq,          \* a request: step, whether it found a row, what it signed
  payAlone,        \* history: requests no other one overlapped so far
  payFaults

payVars == <<payGross, payClock, payRow, payReq, payAlone, payFaults>>

Signatures == [payslip_id : PayRequests, gross : 0..MaxGross, at : 0..MaxPayClock]
PayRows == [payslip_id : PayRequests, gross : 0..MaxGross, generated_at : 0..MaxPayClock,
            signature : Signatures]
PayUnderWay(r) == payReq[r].pc \in {"read", "sign", "store"}

PayTypeOK ==
  /\ payGross \in 0..MaxGross /\ payClock \in 0..MaxPayClock
  /\ payRow \subseteq PayRows /\ Cardinality(payRow) <= 1
  /\ payReq \in [PayRequests ->
       [pc : {"idle", "read", "sign", "store", "answered", "failed"}, found : BOOLEAN,
        signature : Signatures]]
  /\ payAlone \in SUBSET PayRequests /\ payFaults \in 0..MaxPayFaults

PayInit ==
  /\ payGross = 0 /\ payClock = 0 /\ payRow = {} /\ payAlone = PayRequests /\ payFaults = 0
  /\ payReq = [r \in PayRequests |-> [pc |-> "idle", found |-> FALSE,
                  signature |-> [payslip_id |-> r, gross |-> 0, at |-> 0]]]

\* A withdrawal of one of the streams, or the start of another.
GrossGrows ==
  /\ payGross < MaxGross /\ payGross' = payGross + 1
  /\ UNCHANGED <<payClock, payRow, payReq, payAlone, payFaults>>

PayClockTicks ==
  /\ payClock < MaxPayClock /\ payClock' = payClock + 1
  /\ UNCHANGED <<payGross, payRow, payReq, payAlone, payFaults>>

-----------------------------------------------------------------------------
(* GET /api/workers/:address/payslip *)

\* getPayslipByWorkerAndPeriod
PayslipLooked(r) ==
  LET others == {o \in PayRequests \ {r} : PayUnderWay(o)} IN
  /\ payReq[r].pc = "idle"
  /\ payReq' = [payReq EXCEPT ![r].pc = "read", ![r].found = payRow # {}]
  /\ payAlone' = payAlone \ (IF others = {} THEN {} ELSE others \cup {r})
  /\ UNCHANGED <<payGross, payClock, payRow, payFaults>>

\* The query of the streams, whose withdrawn amounts are the gross amount.
StreamsSummed(r) ==
  /\ payReq[r].pc = "read"
  /\ payReq' = [payReq EXCEPT ![r].pc = "sign", ![r].signature.gross = payGross]
  /\ UNCHANGED <<payGross, payClock, payRow, payAlone, payFaults>>

\* The withdrawals and the branding have been read: payslipId, generatedAt, and
\* signPayslip over both.
PayslipSigned(r) ==
  /\ payReq[r].pc = "sign"
  /\ payReq' = [payReq EXCEPT ![r].pc = "store", ![r].signature.at = payClock]
  /\ UNCHANGED <<payGross, payClock, payRow, payAlone, payFaults>>

\* Mutation of Stores: the row is written whether or not there was one.
StoresAlways(r) == TRUE
Stores(r) == ~payReq[r].found

\* Mutation of RowsWith: no conflict on worker and period.
RowsWithAnother(row) == payRow \cup {row}
\* ON CONFLICT (worker_address, period) DO UPDATE.
RowsWith(row) == {row}

\* The PDF is made.  insertPayslipRecord: a row that has appeared meanwhile
\* keeps its payslip_id and takes the rest; generated_at is the database's time.
PayslipStored(r) ==
  LET signature == payReq[r].signature
      row == [payslip_id |-> IF payRow = {} THEN r ELSE (CHOOSE x \in payRow : TRUE).payslip_id,
              gross |-> signature.gross, generated_at |-> payClock, signature |-> signature]
  IN /\ payReq[r].pc = "store"
     /\ payRow' = IF Stores(r) THEN RowsWith(row) ELSE payRow
     /\ payReq' = [payReq EXCEPT ![r].pc = "answered"]
     /\ UNCHANGED <<payGross, payClock, payAlone, payFaults>>

\* 404 for a period without streams, 500, or a crash.
PayslipFails(r) ==
  /\ PayUnderWay(r) /\ payFaults < MaxPayFaults /\ payFaults' = payFaults + 1
  /\ payReq' = [payReq EXCEPT ![r].pc = "failed"]
  /\ UNCHANGED <<payGross, payClock, payRow, payAlone>>

PayNext ==
  \/ GrossGrows \/ PayClockTicks
  \/ \E r \in PayRequests : PayslipLooked(r) \/ StreamsSummed(r) \/ PayslipSigned(r)
                            \/ PayslipStored(r) \/ PayslipFails(r)

PaySpec == PayInit /\ [][PayNext]_payVars

\* POST /api/verify-signature: the row with the signature, and the signature
\* against the row.  Without keys, each call makes a pair of its own.
VerifySignature(signature) ==
  \E row \in payRow :
    /\ row.signature = signature
    /\ KeysConfigured
    /\ signature = [payslip_id |-> row.payslip_id, gross |-> row.gross, at |-> row.generated_at]

-----------------------------------------------------------------------------
\* The payslip a worker was given first can still be looked up by its signature
\* when she has asked again, whatever was withdrawn meanwhile, unless another
\* request overlapped the one that stored it (payslips.ts:247-396).
PayslipFound ==
  \A r \in payAlone :
    payReq[r].pc = "answered" /\ ~payReq[r].found =>
      \E row \in payRow : row.signature = payReq[r].signature

\* The payslip says "cryptographically signed. Verify authenticity at
\* /verify-signature" (pdfGeneratorService.ts:446): what is stored verifies.
PayslipVerifies == \A row \in payRow : VerifySignature(row.signature)
=============================================================================
