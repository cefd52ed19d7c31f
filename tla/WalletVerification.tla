-------------------------- MODULE WalletVerification --------------------------
(* Wallet challenges (src/services/walletVerification.ts and its routes in     *)
(* src/routes/workers.ts).  Asking for a challenge is a DELETE and an INSERT,  *)
(* answering one a SELECT, an UPDATE of the worker and a DELETE, and nothing   *)
(* holds them together.  A worker sends one request at a time here: what two   *)
(* of the same worker do when they overlap is left out.                        *)
EXTENDS Integers, FiniteSets, FiniteSetsExt

CONSTANTS
  WalletUsers,      \* workers
  Wallets,          \* addresses of a chain
  MaxChallenges,    \* bound on challenges asked for
  NoWallet          \* NULL

ASSUME WalletAssumption == IsFiniteSet(WalletUsers) /\ MaxChallenges \in Nat

VARIABLES
  walletRows,       \* wallet_challenges
  walletNext,       \* the id of the next row
  walletCall,       \* what a worker's request is about to do
  walletOf,         \* workers: the address of the chain
  walletVerified,   \* workers: its verified column
  walletKnown,      \* workers with a row
  walletCrossed     \* history: addresses two requests asked about at once

walletVars == <<walletRows, walletNext, walletCall, walletOf, walletVerified,
                walletKnown, walletCrossed>>
workerRow == <<walletOf, walletVerified, walletKnown>>

IdleWalletCall == [pc |-> "idle"]
ChallengeIds == 1..MaxChallenges

WalletTypeOK ==
  /\ walletRows \subseteq
       [id : ChallengeIds, wallet : Wallets, user : WalletUsers, expired : BOOLEAN]
  /\ walletNext \in 1..MaxChallenges + 1
  /\ walletCall \in [WalletUsers ->
       [pc : {"insert"}, wallet : Wallets]
       \cup [pc : {"link", "clean"}, wallet : Wallets, id : ChallengeIds]
       \cup {IdleWalletCall}]
  /\ walletOf \in [WalletUsers -> Wallets \cup {NoWallet}]
  /\ walletVerified \in [WalletUsers -> BOOLEAN]
  /\ walletKnown \subseteq WalletUsers /\ walletCrossed \subseteq Wallets

WalletInit ==
  /\ walletRows = {} /\ walletNext = 1
  /\ walletCall = [u \in WalletUsers |-> IdleWalletCall]
  /\ walletOf = [u \in WalletUsers |-> NoWallet]
  /\ walletVerified = [u \in WalletUsers |-> FALSE]
  /\ walletKnown = {} /\ walletCrossed = {}

WalletRequests(u) == walletCall[u].pc = "idle"
WalletReturns(u) == walletCall' = [walletCall EXCEPT ![u] = IdleWalletCall]

\* POST /me/register: an address that is given replaces the stored one.
RegisterWorker(u, w) ==
  /\ WalletRequests(u)
  /\ walletKnown' = walletKnown \cup {u}
  /\ walletOf' = [walletOf EXCEPT ![u] = IF w = NoWallet THEN @ ELSE w]
  /\ UNCHANGED <<walletRows, walletNext, walletCall, walletVerified, walletCrossed>>

\* Somebody else stands between the DELETE and the INSERT for this address.
Crossing(u, w) == \E v \in WalletUsers \ {u} :
  walletCall[v].pc = "insert" /\ walletCall[v].wallet = w

\* Mutation of DropChallenges: only the worker's own challenges are dropped.
DropChallengesOwn(u, w) ==
  /\ WalletRequests(u)
  /\ walletNext + Cardinality({v \in WalletUsers : walletCall[v].pc = "insert"})
       <= MaxChallenges
  /\ walletRows' = {r \in walletRows : r.wallet # w \/ r.user # u}
  /\ walletCall' = [walletCall EXCEPT ![u] = [pc |-> "insert", wallet |-> w]]
  /\ walletCrossed' = IF Crossing(u, w) THEN walletCrossed \cup {w} ELSE walletCrossed
  /\ UNCHANGED <<walletNext, workerRow>>

\* createChallenge, first half: whoever asked, the address's challenges go.
DropChallenges(u, w) ==
  /\ WalletRequests(u)
  /\ walletNext + Cardinality({v \in WalletUsers : walletCall[v].pc = "insert"})
       <= MaxChallenges
  /\ walletRows' = {r \in walletRows : r.wallet # w}
  /\ walletCall' = [walletCall EXCEPT ![u] = [pc |-> "insert", wallet |-> w]]
  /\ walletCrossed' = IF Crossing(u, w) THEN walletCrossed \cup {w} ELSE walletCrossed
  /\ UNCHANGED <<walletNext, workerRow>>

\* Second half.
InsertChallenge(u) ==
  /\ walletCall[u].pc = "insert"
  /\ walletRows' = walletRows \cup
       {[id |-> walletNext, wallet |-> walletCall[u].wallet, user |-> u, expired |-> FALSE]}
  /\ walletNext' = walletNext + 1
  /\ WalletReturns(u)
  /\ UNCHANGED <<workerRow, walletCrossed>>

ChallengeExpires(r) ==
  /\ ~r.expired
  /\ walletRows' = (walletRows \ {r}) \cup {[r EXCEPT !.expired = TRUE]}
  /\ UNCHANGED <<walletNext, walletCall, workerRow, walletCrossed>>

\* verifyAndLink up to its first write: the newest challenge of the worker for
\* the address; an expired one is dropped, and an answer that does not fit it
\* changes nothing.
VerifyChallenge(u, w) ==
  LET mine == {r \in walletRows : r.wallet = w /\ r.user = u} IN
  /\ WalletRequests(u)
  /\ \E newest \in mine :
       /\ \A o \in mine : o.id <= newest.id
       /\ IF newest.expired
          THEN walletRows' = walletRows \ {newest} /\ UNCHANGED walletCall
          ELSE /\ walletCall' = [walletCall EXCEPT ![u] =
                    [pc |-> "link", wallet |-> w, id |-> newest.id]]
               /\ UNCHANGED walletRows
  /\ UNCHANGED <<walletNext, workerRow, walletCrossed>>

\* The UPDATE of the worker, which may find no row: an address that is stored
\* stays.
LinkWallet(u) ==
  /\ walletCall[u].pc = "link"
  /\ IF u \in walletKnown
     THEN /\ walletVerified' = [walletVerified EXCEPT ![u] = TRUE]
          /\ walletOf' = [walletOf EXCEPT ![u] =
               IF @ = NoWallet THEN walletCall[u].wallet ELSE @]
     ELSE UNCHANGED <<walletOf, walletVerified>>
  /\ walletCall' = [walletCall EXCEPT ![u].pc = "clean"]
  /\ UNCHANGED <<walletRows, walletNext, walletKnown, walletCrossed>>

\* The DELETE of the challenge by id, if it is still there.
CleanChallenge(u) ==
  /\ walletCall[u].pc = "clean"
  /\ walletRows' = {r \in walletRows : r.id # walletCall[u].id}
  /\ WalletReturns(u)
  /\ UNCHANGED <<walletNext, workerRow, walletCrossed>>

\* A statement throws, or the process dies.
WalletCallFails(u) ==
  /\ walletCall[u].pc # "idle"
  /\ WalletReturns(u)
  /\ UNCHANGED <<walletRows, walletNext, workerRow, walletCrossed>>

\* cleanupExpiredChallenges.
CleanupExpired ==
  /\ \E r \in walletRows : r.expired
  /\ walletRows' = {r \in walletRows : ~r.expired}
  /\ UNCHANGED <<walletNext, walletCall, workerRow, walletCrossed>>

WalletNext ==
  \/ \E u \in WalletUsers :
       \/ InsertChallenge(u) \/ LinkWallet(u) \/ CleanChallenge(u) \/ WalletCallFails(u)
       \/ \E w \in Wallets : DropChallenges(u, w) \/ VerifyChallenge(u, w)
       \/ \E w \in Wallets \cup {NoWallet} : RegisterWorker(u, w)
  \/ \E r \in walletRows : ChallengeExpires(r)
  \/ CleanupExpired

WalletSpec == WalletInit /\ [][WalletNext]_walletVars

-----------------------------------------------------------------------------
\* An address has at most one challenge, of whichever worker asked last, unless
\* two of them asked at the same moment (walletVerification.ts:22-32).
OneChallengePerWallet ==
  \A w \in Wallets \ walletCrossed :
    Cardinality({r \in walletRows : r.wallet = w}) <= 1
=============================================================================
