---------------------------- MODULE TreasuryPromise ----------------------------
(* What the stream tables promise of an employer's money, whatever is asked for *)
(* twice, replayed or lost: a contract is charged once, to one employer, and    *)
(* closed at most once, when some of its charge is given back; and nothing else *)
(* changes a treasury but its owner's deposits.  Modules StreamApi and          *)
(* LedgerSync are shown to keep the promise.                                    *)
EXTENDS Integers

CONSTANTS
  Contracts, Payers,
  Amounts,       \* charges that are asked for
  Depositors     \* payers whose deposits may change their treasury

VARIABLES
  state,         \* "absent", "open" or "closed"
  payer,         \* whom a contract was charged to
  charged,       \* and how much
  returned,      \* what was given back
  treasury

treasuryVars == <<state, payer, charged, returned, treasury>>

TreasuryInit ==
  /\ state = [c \in Contracts |-> "absent"]
  /\ charged = [c \in Contracts |-> 0] /\ returned = [c \in Contracts |-> 0]
  /\ treasury = [p \in Payers |-> 0]

\* The charge, the record of it and the contract are one step.
Charges(c) ==
  /\ state[c] = "absent" /\ state' = [state EXCEPT ![c] = "open"]
  /\ \E p \in Payers, n \in Amounts \ {0} :
       /\ payer' = [payer EXCEPT ![c] = p] /\ charged' = [charged EXCEPT ![c] = n]
       /\ treasury' = [treasury EXCEPT ![p] = @ - n]
  /\ UNCHANGED returned

\* What comes back goes to who was charged, and is no more than the charge.
Closes(c) ==
  /\ state[c] = "open" /\ state' = [state EXCEPT ![c] = "closed"]
  /\ \E n \in 0..charged[c] :
       /\ returned' = [returned EXCEPT ![c] = n]
       /\ treasury' = [treasury EXCEPT ![payer[c]] = @ + n]
  /\ UNCHANGED <<payer, charged>>

MovesByOwner(p) ==
  /\ \A q \in Payers \ {p} : treasury'[q] = treasury[q]
  /\ UNCHANGED <<state, payer, charged, returned>>

TreasuryNext ==
  \/ \E c \in Contracts : Charges(c) \/ Closes(c)
  \/ \E p \in Depositors : MovesByOwner(p)

TreasurySpec == TreasuryInit /\ [][TreasuryNext]_treasuryVars
=============================================================================
