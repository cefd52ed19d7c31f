----------------------------- MODULE AdvisoryLock -----------------------------
(* withAdvisoryLock (src/utils/lock.ts) over the shared pg pool             *)
(* (src/db/pool.ts).  One lock id; several replicas, each with its own pool. *)
(* pg_try_advisory_lock is a SESSION lock: it belongs to the connection that *)
(* ran the statement, it is re-entrant on that connection, and it goes away  *)
(* when the connection is closed.  pool.query() checks a connection out for  *)
(* one statement only, so the statement that locks, the task, and the        *)
(* statement that unlocks may all run on different connections.              *)
EXTENDS Integers, FiniteSets

CONSTANTS
  Replicas,   \* server processes, each with a pool of its own
  Conns,      \* database sessions
  Calls,      \* call sites of withAdvisoryLock(lockId, ...) with the same id
  PoolOf,     \* PoolOf[c]: the replica whose pool the session belongs to
  HomeOf,     \* HomeOf[t]: the replica the call runs in
  MaxHeld     \* bound on the re-entrancy count of one session

ASSUME CallsAssumption == IsFiniteSet(Calls) /\ IsFiniteSet(Conns)
ASSUME HomeAssumption == PoolOf \in [Conns -> Replicas] /\ HomeOf \in [Calls -> Replicas]
ASSUME MaxHeldAssumption == MaxHeld \in Nat

VARIABLES
  held,     \* held[c]: how often session c holds the lock (PostgreSQL's count)
  pc,       \* pc[t]: where call t of withAdvisoryLock is
  churned   \* history: a session of the replica that held the lock was closed
            \* under a call that is still inside

vars == <<held, pc, churned>>

Phases == {"idle", "running", "unlocking", "skipped"}

\* The calls that have acquired the lock and not yet returned.
Inside(r) == {t \in Calls : HomeOf[t] = r /\ pc[t] \in {"running", "unlocking"}}

TypeOK ==
  /\ held \in [Conns -> 0..MaxHeld]
  /\ pc \in [Calls -> Phases]
  /\ churned \in [Replicas -> BOOLEAN]

Init ==
  /\ held = [c \in Conns |-> 0]
  /\ pc = [t \in Calls |-> "idle"]
  /\ churned = [r \in Replicas |-> FALSE]

-----------------------------------------------------------------------------
\* PostgreSQL grants the lock to session c unless another session holds it.
Grantable(c) == \A d \in Conns \ {c} : held[d] = 0

\* Bookkeeping for the history variable: a replica with no call inside starts
\* afresh; a close under a call that stays inside is remembered.
ChurnAfter(r, closing) ==
  churned' = [churned EXCEPT ![r] = Inside(r)' # {} /\ (@ \/ closing)]

\* Mutation of Skip: the result of the lock statement is not looked at.
RunAnyway(t, c) ==
  /\ pc[t] \in {"idle", "skipped"}
  /\ PoolOf[c] = HomeOf[t]
  /\ ~Grantable(c)
  /\ pc' = [pc EXCEPT ![t] = "running"]
  /\ UNCHANGED <<held, churned>>

\* The lock statement runs on session c and returns true.
Acquire(t, c) ==
  /\ pc[t] \in {"idle", "skipped"}
  /\ PoolOf[c] = HomeOf[t]
  /\ Grantable(c)
  /\ held[c] < MaxHeld
  /\ held' = [held EXCEPT ![c] = @ + 1]
  /\ pc' = [pc EXCEPT ![t] = "running"]
  /\ UNCHANGED churned

\* It returns false: the task is skipped and the call returns.
Skip(t, c) ==
  /\ pc[t] \in {"idle", "skipped"}
  /\ PoolOf[c] = HomeOf[t]
  /\ ~Grantable(c)
  /\ pc' = [pc EXCEPT ![t] = "skipped"]
  /\ UNCHANGED <<held, churned>>

\* The task resolves or throws; `finally` runs either way.
TaskEnds(t) ==
  /\ pc[t] = "running"
  /\ pc' = [pc EXCEPT ![t] = "unlocking"]
  /\ UNCHANGED <<held, churned>>

\* Mutation of Unlock: pg_advisory_unlock_all, which drops every count of the
\* session.
UnlockAll(t, c) ==
  /\ pc[t] = "unlocking"
  /\ PoolOf[c] = HomeOf[t]
  /\ held' = [held EXCEPT ![c] = 0]
  /\ pc' = [pc EXCEPT ![t] = "idle"]
  /\ ChurnAfter(HomeOf[t], FALSE)

\* Mutation of Unlock: the server would count below zero.
UnlockBlindly(t, c) ==
  /\ pc[t] = "unlocking"
  /\ PoolOf[c] = HomeOf[t]
  /\ held' = [held EXCEPT ![c] = @ - 1]
  /\ pc' = [pc EXCEPT ![t] = "idle"]
  /\ ChurnAfter(HomeOf[t], FALSE)

\* pg_advisory_unlock runs on session c of the pool.  On a session that does
\* not hold the lock it only warns and returns false, which nobody looks at.
Unlock(t, c) ==
  /\ pc[t] = "unlocking"
  /\ PoolOf[c] = HomeOf[t]
  /\ held' = [held EXCEPT ![c] = IF @ > 0 THEN @ - 1 ELSE 0]
  /\ pc' = [pc EXCEPT ![t] = "idle"]
  /\ ChurnAfter(HomeOf[t], FALSE)

\* The unlock statement fails (timeout, lost session): the pool removes the
\* session and withAdvisoryLock rethrows to its caller.
UnlockThrows(t, c) ==
  /\ pc[t] = "unlocking"
  /\ PoolOf[c] = HomeOf[t]
  /\ held' = [held EXCEPT ![c] = 0]
  /\ pc' = [pc EXCEPT ![t] = "idle"]
  /\ ChurnAfter(HomeOf[t], held[c] > 0)

\* The pool closes session c and later opens a fresh one in its place: idle
\* for idleTimeoutMillis, used maxUses times, or a statement on it failed.
CloseConn(c) ==
  /\ held' = [held EXCEPT ![c] = 0]
  /\ UNCHANGED pc
  /\ ChurnAfter(PoolOf[c], held[c] > 0)

\* The process dies: its calls and its sessions are gone.
Crash(r) ==
  /\ held' = [c \in Conns |-> IF PoolOf[c] = r THEN 0 ELSE held[c]]
  /\ pc' = [t \in Calls |-> IF HomeOf[t] = r THEN "idle" ELSE pc[t]]
  /\ ChurnAfter(r, TRUE)

Next ==
  \/ \E t \in Calls, c \in Conns :
       Acquire(t, c) \/ Skip(t, c) \/ Unlock(t, c) \/ UnlockThrows(t, c)
  \/ \E t \in Calls : TaskEnds(t)
  \/ \E c \in Conns : CloseConn(c)
  \/ \E r \in Replicas : Crash(r)

Spec == Init /\ [][Next]_vars

-----------------------------------------------------------------------------
Overlap(t, u) ==
  HomeOf[t] # HomeOf[u] /\ pc[t] = "running" /\ pc[u] = "running"

\* PostgreSQL's own promise: at most one session holds the lock.
OneHolder == \A c, d \in Conns : held[c] > 0 /\ held[d] > 0 => c = d

\* One session of the replica carries a count for every call inside it.
Covered(r) ==
  \E c \in Conns : PoolOf[c] = r /\ held[c] >= Cardinality(Inside(r))

\* As long as no session that held the lock was closed under a replica's calls,
\* one session of its pool still carries a count for every call inside: the
\* unlocks of lock.ts:37 that hit the wrong session only leave counts behind,
\* they never take away one that a running task relies on.
HeldCoversInside ==
  /\ OneHolder
  /\ \A r \in Replicas : ~churned[r] /\ Inside(r) # {} => Covered(r)

\* What lock.ts does give: tasks of two replicas overlap only if the pool of
\* one of them closed a session while its task was running.
ExclusiveUnlessChurned ==
  \A t, u \in Calls : Overlap(t, u) => churned[HomeOf[t]] \/ churned[HomeOf[u]]

\* The same from the side of the call that enters: pg_try_advisory_lock
\* (lock.ts:18-23) never lets a call in while a call of another replica is
\* between its lock and its unlock, unless that replica lost a session.
NoEntryOverInside ==
  [][\A t, u \in Calls :
       /\ HomeOf[t] # HomeOf[u]
       /\ pc[t] # "running" /\ pc'[t] = "running"
       /\ pc[u] \in {"running", "unlocking"}
       => churned[HomeOf[u]]]_vars
=============================================================================
