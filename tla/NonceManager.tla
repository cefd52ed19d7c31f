----------------------------- MODULE NonceManager -----------------------------
(* The sequence numbers of the hot wallet (src/services/nonceManager.ts), one  *)
(* manager per replica.  initialize and getNonce run one after the other in a  *)
(* PQueue of concurrency 1; releaseNonce runs at once, outside the queue.      *)
(* Horizon answers, fails or lets the 10 s timeout win.                        *)
EXTENDS Integers, Sequences, FiniteSets, SequencesExt

CONSTANTS
  NonceCallers,   \* transactions being built
  AccountSeqs,    \* sequence numbers the account may have when it is read
  MaxNonces,      \* bound on numbers handed out beyond the account's own
  NoNonce         \* null

ASSUME NonceAssumption ==
  /\ AccountSeqs \subseteq Int /\ NoNonce \notin Int
  /\ IsFiniteSet(NonceCallers) /\ MaxNonces \in Nat
  /\ "initialize" \notin NonceCallers

VARIABLES
  nonceSeq,       \* currentSequence
  nonceFree,      \* availableNonces, of which the lowest is taken first
  nonceLine,      \* requestQueue: the jobs that wait, and the one that runs first
  nonceLoading,   \* the running job awaits loadAccount
  nonceHand,      \* the number a caller has been given
  nonceHealthy,   \* isInitialized /\ initializationError = null
  nonceStart,     \* history: the account's sequence as it was read
  nonceUsed       \* history: numbers whose transaction was submitted

nonceVars == <<nonceSeq, nonceFree, nonceLine, nonceLoading, nonceHand,
               nonceHealthy, nonceStart, nonceUsed>>

\* The job that index.ts queues when the process starts.
InitJob == "initialize"
Nonces == {s + i : s \in AccountSeqs, i \in 1..MaxNonces}

NonceTypeOK ==
  /\ nonceSeq \in AccountSeqs \cup Nonces \cup {NoNonce}
  /\ nonceFree \subseteq Nonces /\ nonceUsed \subseteq Nonces
  /\ nonceLine \in Seq(NonceCallers \cup {InitJob})
  /\ nonceLoading \in BOOLEAN /\ nonceHealthy \in BOOLEAN
  /\ nonceHand \in [NonceCallers -> Nonces \cup {NoNonce}]
  /\ nonceStart \in AccountSeqs \cup {NoNonce}

NonceInit ==
  /\ nonceSeq = NoNonce /\ nonceStart = NoNonce
  /\ nonceFree = {} /\ nonceUsed = {}
  /\ nonceLine = <<InitJob>>
  /\ nonceLoading = FALSE /\ nonceHealthy = FALSE
  /\ nonceHand = [c \in NonceCallers |-> NoNonce]

\* POST /test/concurrent-tx and every other caller of getNonce.
GetNonce(c) ==
  /\ nonceHand[c] = NoNonce /\ ~Contains(nonceLine, c)
  /\ Cardinality(nonceUsed) + Cardinality(NonceCallers) <= MaxNonces
  /\ nonceLine' = Append(nonceLine, c)
  /\ UNCHANGED <<nonceSeq, nonceFree, nonceLoading, nonceHand, nonceHealthy,
                 nonceStart, nonceUsed>>

\* The lowest free number, or else the one after the sequence.
Served(c, seq, free) ==
  IF free # {}
  THEN \E lowest \in free :
       /\ \A o \in free : lowest <= o
       /\ nonceHand' = [nonceHand EXCEPT ![c] = lowest]
       /\ nonceFree' = free \ {lowest} /\ nonceSeq' = seq
  ELSE /\ nonceHand' = [nonceHand EXCEPT ![c] = seq + 1]
       /\ nonceFree' = free /\ nonceSeq' = seq + 1

\* The next job of the queue runs: up to its end, or to the first loadAccount.
NonceTurn ==
  /\ nonceLine # <<>> /\ ~nonceLoading
  /\ LET job == Head(nonceLine) IN
     IF job = InitJob \/ nonceSeq = NoNonce
     THEN /\ nonceLoading' = TRUE
          /\ UNCHANGED <<nonceSeq, nonceFree, nonceHand, nonceLine>>
     ELSE /\ Served(job, nonceSeq, nonceFree)
          /\ nonceLine' = Tail(nonceLine) /\ UNCHANGED nonceLoading
  /\ UNCHANGED <<nonceHealthy, nonceStart, nonceUsed>>

\* loadAccount answers in time; a getNonce goes on with the fresh sequence.
AccountLoaded(s) ==
  /\ nonceLoading /\ nonceLoading' = FALSE
  /\ nonceStart' = s /\ nonceHealthy' = TRUE
  /\ LET job == Head(nonceLine) IN
     IF job = InitJob
     THEN nonceSeq' = s /\ nonceFree' = {} /\ UNCHANGED nonceHand
     ELSE Served(job, s, {})
  /\ nonceLine' = Tail(nonceLine)
  /\ UNCHANGED nonceUsed

\* loadAccount fails or comes too late: the job throws, and nobody listens to
\* what arrives after the timeout.
AccountFails ==
  /\ nonceLoading /\ nonceLoading' = FALSE
  /\ nonceHealthy' = FALSE
  /\ nonceLine' = Tail(nonceLine)
  /\ UNCHANGED <<nonceSeq, nonceFree, nonceHand, nonceStart, nonceUsed>>

\* Mutation of ReleaseNonce: the number is not kept.
ReleaseNonceDropped(c) ==
  /\ nonceHand[c] # NoNonce
  /\ nonceHand' = [nonceHand EXCEPT ![c] = NoNonce]
  /\ UNCHANGED <<nonceFree, nonceSeq, nonceLine, nonceLoading, nonceHealthy,
                 nonceStart, nonceUsed>>

\* releaseNonce, by the holder of the number, whose transaction failed.
ReleaseNonce(c) ==
  /\ nonceHand[c] # NoNonce
  /\ nonceFree' = nonceFree \cup {nonceHand[c]}
  /\ nonceHand' = [nonceHand EXCEPT ![c] = NoNonce]
  /\ UNCHANGED <<nonceSeq, nonceLine, nonceLoading, nonceHealthy, nonceStart, nonceUsed>>

\* The transaction is submitted with the number.
SpendNonce(c) ==
  /\ nonceHand[c] # NoNonce
  /\ nonceUsed' = nonceUsed \cup {nonceHand[c]}
  /\ nonceHand' = [nonceHand EXCEPT ![c] = NoNonce]
  /\ UNCHANGED <<nonceSeq, nonceFree, nonceLine, nonceLoading, nonceHealthy, nonceStart>>

NonceJob == NonceTurn \/ AccountFails \/ \E s \in AccountSeqs : AccountLoaded(s)

NonceNext ==
  \/ NonceJob
  \/ \E c \in NonceCallers : GetNonce(c) \/ ReleaseNonce(c) \/ SpendNonce(c)

NonceSpec == NonceInit /\ [][NonceNext]_nonceVars /\ WF_nonceVars(NonceJob)

-----------------------------------------------------------------------------
\* Every number from the account's sequence to the manager's is in exactly one
\* place, used, free or in the hand of one caller, whatever releases, failed
\* loads and requests overlap: no number twice and no gap, which would block
\* every later transaction of the account (nonceManager.ts:58-92, 121-143).
NonceAccounted ==
  LET held == {nonceHand[c] : c \in NonceCallers} \ {NoNonce} IN
  /\ nonceSeq # NoNonce =>
       nonceUsed \cup nonceFree \cup held = nonceStart + 1 .. nonceSeq
  /\ nonceUsed \cap nonceFree = {}
  /\ held \cap (nonceUsed \cup nonceFree) = {}
  /\ \A c, d \in NonceCallers : nonceHand[c] = nonceHand[d] => c = d \/ nonceHand[c] = NoNonce

\* A caller in the queue is served or refused in the end: the helper that loads
\* the account from inside the queue must not wait for the queue
\* (nonceManager.ts:120), and a dead Horizon blocks it for 10 s only.
NonceAnswered == \A c \in NonceCallers : Contains(nonceLine, c) ~> ~Contains(nonceLine, c)
=============================================================================
