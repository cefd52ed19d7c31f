--------------------------- MODULE DeadLetterPromise ---------------------------
(* What the dead-letter queue promises of an item, whatever the code does about *)
(* it: an item waits, is tried, is closed for good, and may be buried.  Module  *)
(* WebhookDelivery is shown to keep the promise.                                *)
EXTENDS Integers

CONSTANTS
  DeadLetters,   \* items that may ever enter the queue
  TryLimit       \* tries after which an item is given up

VARIABLES
  item,      \* "absent", "waiting" or "closed"
  tries,     \* deliveries the worker has tried
  buried,    \* records of its permanent failure
  again,     \* per item, how often it was taken up while it was still in hand
  mishaps    \* failed statements and crashes so far

promiseVars == <<item, tries, buried, again, mishaps>>

PromiseInit ==
  /\ item = [i \in DeadLetters |-> "absent"] /\ tries = [i \in DeadLetters |-> 0]
  /\ buried = [i \in DeadLetters |-> 0] /\ again = [i \in DeadLetters |-> 0]
  /\ mishaps = 0

Enters(i) ==
  /\ item[i] = "absent" /\ item' = [item EXCEPT ![i] = "waiting"]
  /\ UNCHANGED <<tries, buried, again, mishaps>>

\* Items are taken up a second time while they are in hand.
TakenAgain(S) ==
  /\ \A i \in S : item[i] = "waiting"
  /\ again' = [i \in DeadLetters |-> again[i] + (IF i \in S THEN 1 ELSE 0)]
  /\ UNCHANGED <<item, tries, buried, mishaps>>

\* A mishap may cost the record of a try, and so allows for one more, as does
\* every time the item was taken up again.  An item that was closed by hand in
\* mid-batch is still tried.
IsTried(i) ==
  /\ item[i] # "absent" /\ tries[i] < TryLimit + mishaps + again[i]
  /\ tries' = [tries EXCEPT ![i] = @ + 1]
  /\ UNCHANGED <<item, buried, again, mishaps>>

Closes(i) ==
  /\ item[i] = "waiting" /\ item' = [item EXCEPT ![i] = "closed"]
  /\ UNCHANGED <<tries, buried, again, mishaps>>

\* Only when it was tried as often as the limit says, and once, unless it was
\* taken up again: a mishap alone never buries an item twice.
IsBuried(i) ==
  /\ item[i] = "closed" /\ tries[i] >= TryLimit /\ buried[i] <= again[i]
  /\ buried' = [buried EXCEPT ![i] = @ + 1]
  /\ UNCHANGED <<item, tries, again, mishaps>>

Mishap == mishaps' = mishaps + 1 /\ UNCHANGED <<item, tries, buried, again>>

PromiseNext ==
  \/ \E i \in DeadLetters : Enters(i) \/ IsTried(i) \/ Closes(i) \/ IsBuried(i)
  \/ \E S \in SUBSET DeadLetters : TakenAgain(S)
  \/ Mishap

PromiseSpec == PromiseInit /\ [][PromiseNext]_promiseVars
=============================================================================
