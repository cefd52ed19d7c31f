-------------------------- MODULE AdvisoryLockProofs --------------------------
(* What withAdvisoryLock guarantees for any number of replicas, sessions and  *)
(* calls, checked by TLAPS.                                                   *)
EXTENDS AdvisoryLock, FiniteSetTheorems, TLAPS

IInv == TypeOK /\ HeldCoversInside

\* The calls inside a replica are finitely many, so they can be counted.
LEMMA InsideIsFinite ==
  ASSUME NEW r \in Replicas
  PROVE  /\ IsFiniteSet(Inside(r))
         /\ Cardinality(Inside(r)) \in Nat
         /\ Inside(r) # {} => Cardinality(Inside(r)) >= 1
<1>1. IsFiniteSet(Inside(r))
  <2>1. Inside(r) \subseteq Calls
    BY DEF Inside
  <2> QED
    BY <2>1, CallsAssumption, FS_Subset
<1> QED
  BY <1>1, FS_CardinalityType, FS_EmptySet, SMT

\* A call that enters or leaves changes the count of its replica by one.
LEMMA CountSteps ==
  ASSUME NEW S, IsFiniteSet(S), NEW t
  PROVE  /\ t \notin S => Cardinality(S \cup {t}) = Cardinality(S) + 1
         /\ t \in S => Cardinality(S \ {t}) = Cardinality(S) - 1
BY FS_AddElement, FS_RemoveElement, FS_CardinalityType

\* Init establishes the inductive invariant.
LEMMA InitIInv == Init => IInv
<1> SUFFICES ASSUME Init PROVE IInv
  OBVIOUS
<1>1. TypeOK
  BY MaxHeldAssumption DEF Init, TypeOK, Phases
<1>2. OneHolder
  BY DEF Init, OneHolder
<1>3. ASSUME NEW r \in Replicas PROVE Inside(r) = {}
  BY DEF Init, Inside
<1> QED
  BY <1>1, <1>2, <1>3 DEF IInv, HeldCoversInside

\* Every step keeps the variables in their types.
LEMMA TypeStep == TypeOK /\ [Next]_vars => TypeOK'
<1> SUFFICES ASSUME TypeOK, [Next]_vars PROVE TypeOK'
  OBVIOUS
<1> USE MaxHeldAssumption, HomeAssumption DEF TypeOK, Phases
<1>1. ASSUME NEW t \in Calls, NEW c \in Conns, Acquire(t, c) PROVE TypeOK'
  BY <1>1 DEF Acquire
<1>2. ASSUME NEW t \in Calls, NEW c \in Conns, Skip(t, c) PROVE TypeOK'
  BY <1>2 DEF Skip
<1>3. ASSUME NEW t \in Calls, TaskEnds(t) PROVE TypeOK'
  BY <1>3 DEF TaskEnds
<1>4. ASSUME NEW t \in Calls, NEW c \in Conns, Unlock(t, c) PROVE TypeOK'
  <2>1. held' \in [Conns -> 0..MaxHeld]
    BY <1>4 DEF Unlock
  <2>2. pc' \in [Calls -> Phases] /\ churned' \in [Replicas -> BOOLEAN]
    BY <1>4 DEF Unlock, ChurnAfter
  <2> QED BY <2>1, <2>2
<1>5. ASSUME NEW t \in Calls, NEW c \in Conns, UnlockThrows(t, c) PROVE TypeOK'
  BY <1>5 DEF UnlockThrows, ChurnAfter
<1>6. ASSUME NEW c \in Conns, CloseConn(c) PROVE TypeOK'
  BY <1>6 DEF CloseConn, ChurnAfter
<1>7. ASSUME NEW r \in Replicas, Crash(r) PROVE TypeOK'
  BY <1>7 DEF Crash, ChurnAfter
<1>8. CASE UNCHANGED vars
  BY <1>8 DEF vars
<1> QED
  BY <1>1, <1>2, <1>3, <1>4, <1>5, <1>6, <1>7, <1>8 DEF Next

\* Every step keeps a count for every call inside an unchurned replica.
LEMMA CoverStep == IInv /\ [Next]_vars => HeldCoversInside'
<1> SUFFICES ASSUME TypeOK, HeldCoversInside, [Next]_vars
             PROVE  HeldCoversInside'
  BY DEF IInv
<1> USE HomeAssumption
<1>1. ASSUME NEW t \in Calls, NEW c \in Conns, Acquire(t, c)
      PROVE  HeldCoversInside'
  <2> DEFINE q == HomeOf[t]
  <2>1. q \in Replicas /\ PoolOf[c] = q
    BY <1>1 DEF Acquire
  <2>2. /\ held' = [held EXCEPT ![c] = @ + 1]
        /\ \A d \in Conns \ {c} : held[d] = 0
        /\ churned' = churned
    BY <1>1 DEF Acquire, Grantable
  <2>3. t \notin Inside(q) /\ Inside(q)' = Inside(q) \cup {t}
    BY <1>1 DEF Acquire, Inside, TypeOK
  <2>4. ASSUME NEW r \in Replicas, r # q PROVE Inside(r)' = Inside(r)
    BY <1>1, <2>4 DEF Acquire, Inside, TypeOK
  <2>5. OneHolder'
    BY <2>2 DEF OneHolder, TypeOK
  <2>6. Covered(q)' \/ churned[q]
    <3>1. Cardinality(Inside(q)') = Cardinality(Inside(q)) + 1
      BY <2>1, <2>3, InsideIsFinite, CountSteps
    <3>2. CASE Inside(q) = {}
      BY <2>1, <2>2, <3>1, <3>2, FS_EmptySet DEF Covered, TypeOK
    <3>3. CASE Inside(q) # {} /\ ~churned[q]
      <4>1. PICK d \in Conns : PoolOf[d] = q /\ held[d] >= Cardinality(Inside(q))
        BY <2>1, <3>3 DEF HeldCoversInside, Covered
      <4>2. d = c
        BY <2>1, <2>2, <3>3, <4>1, InsideIsFinite DEF TypeOK
      <4>3. held'[c] >= Cardinality(Inside(q)')
        BY <2>1, <2>2, <3>1, <4>1, <4>2, InsideIsFinite DEF TypeOK
      <4> QED BY <2>1, <4>3 DEF Covered
    <3> QED BY <3>2, <3>3
  <2>7. ASSUME NEW r \in Replicas, r # q, ~churned[r] PROVE Inside(r) = {}
    <3> SUFFICES ASSUME Inside(r) # {} PROVE FALSE
      OBVIOUS
    <3>1. PICK d \in Conns : PoolOf[d] = r /\ held[d] >= Cardinality(Inside(r))
      BY <2>7 DEF HeldCoversInside, Covered
    <3> QED BY <2>1, <2>2, <2>7, <3>1, InsideIsFinite DEF TypeOK
  <2> QED
    BY <2>2, <2>4, <2>5, <2>6, <2>7 DEF HeldCoversInside
<1>2. ASSUME NEW t \in Calls,
             TaskEnds(t) \/ (\E c \in Conns : Skip(t, c))
      PROVE  HeldCoversInside'
  <2>1. held' = held /\ churned' = churned
    BY <1>2 DEF Skip, TaskEnds
  <2>2. ASSUME NEW r \in Replicas PROVE Inside(r)' = Inside(r)
    BY <1>2 DEF Skip, TaskEnds, Inside, TypeOK
  <2> QED
    BY <2>1, <2>2 DEF HeldCoversInside, OneHolder, Covered
<1>3. ASSUME NEW t \in Calls, NEW c \in Conns,
             Unlock(t, c) \/ UnlockThrows(t, c)
      PROVE  HeldCoversInside'
  <2> DEFINE q == HomeOf[t]
  <2>1. q \in Replicas /\ PoolOf[c] = q /\ t \in Inside(q)
    BY <1>3 DEF Unlock, UnlockThrows, Inside
  <2>2. Inside(q)' = Inside(q) \ {t}
    BY <1>3 DEF Unlock, UnlockThrows, Inside, TypeOK
  <2>3. ASSUME NEW r \in Replicas, r # q PROVE Inside(r)' = Inside(r)
    BY <1>3, <2>3 DEF Unlock, UnlockThrows, Inside, TypeOK
  <2>4. /\ \A d \in Conns \ {c} : held'[d] = held[d]
        /\ held'[c] \in Nat /\ held'[c] <= held[c]
    <3>1. held[c] \in Nat /\ held \in [Conns -> 0..MaxHeld]
      BY MaxHeldAssumption DEF TypeOK
    <3>2. CASE Unlock(t, c)
      BY <3>1, <3>2 DEF Unlock
    <3>3. CASE UnlockThrows(t, c)
      BY <3>1, <3>3 DEF UnlockThrows
    <3> QED BY <1>3, <3>2, <3>3
  <2>5. \A r \in Replicas \ {q} : churned'[r] = churned[r]
    BY <1>3, <2>1 DEF Unlock, UnlockThrows, ChurnAfter, TypeOK
  <2>6. OneHolder'
    BY <2>4 DEF HeldCoversInside, OneHolder, TypeOK
  <2>7. ASSUME ~churned'[q], Inside(q)' # {} PROVE Covered(q)'
    <3>1. ~churned[q] /\ held'[c] >= held[c] - 1
      <4>1. CASE Unlock(t, c)
        BY <2>1, <2>7, <4>1, MaxHeldAssumption DEF Unlock, ChurnAfter, TypeOK
      <4>2. CASE UnlockThrows(t, c)
        <5>1. churned' = [churned EXCEPT ![q] = Inside(q)' # {} /\ (@ \/ held[c] > 0)]
          BY <4>2 DEF UnlockThrows, ChurnAfter
        <5>2. ~churned[q] /\ ~(held[c] > 0)
          BY <2>1, <2>7, <5>1, Zenon DEF TypeOK
        <5> QED BY <2>4, <5>2 DEF TypeOK
      <4> QED BY <1>3, <4>1, <4>2
    <3>2. PICK d \in Conns : PoolOf[d] = q /\ held[d] >= Cardinality(Inside(q))
      BY <2>1, <3>1 DEF HeldCoversInside, Covered
    <3>3. Cardinality(Inside(q)') = Cardinality(Inside(q)) - 1
      BY <2>1, <2>2, InsideIsFinite, CountSteps
    <3>4. held'[d] >= Cardinality(Inside(q)')
      BY <2>1, <2>4, <3>1, <3>2, <3>3, InsideIsFinite DEF TypeOK
    <3> QED BY <3>2, <3>4 DEF Covered
  <2>8. ASSUME NEW r \in Replicas, r # q, ~churned'[r], Inside(r)' # {}
        PROVE  Covered(r)'
    <3>1. PICK d \in Conns : PoolOf[d] = r /\ held[d] >= Cardinality(Inside(r))
      BY <2>3, <2>5, <2>8 DEF HeldCoversInside, Covered
    <3>2. d # c
      BY <2>1, <2>8, <3>1
    <3> QED BY <2>3, <2>4, <2>8, <3>1, <3>2 DEF Covered
  <2> QED
    BY <2>6, <2>7, <2>8 DEF HeldCoversInside
<1>4. ASSUME NEW c \in Conns, CloseConn(c) PROVE HeldCoversInside'
  <2> DEFINE q == PoolOf[c]
  <2>1. q \in Replicas
    OBVIOUS
  <2>2. ASSUME NEW r \in Replicas PROVE Inside(r)' = Inside(r)
    BY <1>4 DEF CloseConn, Inside
  <2>3. held' = [held EXCEPT ![c] = 0]
    BY <1>4 DEF CloseConn
  <2>4. churned' = [churned EXCEPT ![q] = Inside(q)' # {} /\ (@ \/ held[c] > 0)]
    BY <1>4 DEF CloseConn, ChurnAfter
  <2>5. OneHolder'
    BY <2>3 DEF HeldCoversInside, OneHolder, TypeOK
  <2>6. ASSUME NEW r \in Replicas, ~churned'[r], Inside(r)' # {}
        PROVE  Covered(r)'
    <3>1. ~churned[r] /\ (r = q => ~(held[c] > 0))
      BY <2>1, <2>4, <2>6, Zenon DEF TypeOK
    <3>2. PICK d \in Conns : PoolOf[d] = r /\ held[d] >= Cardinality(Inside(r))
      BY <2>2, <2>6, <3>1 DEF HeldCoversInside, Covered
    <3>3. held'[d] = held[d]
      BY <2>2, <2>3, <2>6, <3>1, <3>2, InsideIsFinite DEF TypeOK
    <3> QED BY <2>2, <3>2, <3>3 DEF Covered
  <2> QED
    BY <2>5, <2>6 DEF HeldCoversInside
<1>5. ASSUME NEW q \in Replicas, Crash(q) PROVE HeldCoversInside'
  <2>1. Inside(q)' = {}
    BY <1>5 DEF Crash, Inside, TypeOK
  <2>2. ASSUME NEW r \in Replicas, r # q
        PROVE  Inside(r)' = Inside(r) /\ churned'[r] = churned[r]
    BY <1>5, <2>2 DEF Crash, Inside, ChurnAfter, TypeOK
  <2>3. held' = [c \in Conns |-> IF PoolOf[c] = q THEN 0 ELSE held[c]]
    BY <1>5 DEF Crash
  <2>4. OneHolder'
    BY <2>3 DEF HeldCoversInside, OneHolder
  <2>5. ASSUME NEW r \in Replicas, r # q, ~churned'[r], Inside(r)' # {}
        PROVE  Covered(r)'
    <3>1. PICK d \in Conns : PoolOf[d] = r /\ held[d] >= Cardinality(Inside(r))
      BY <2>2, <2>5 DEF HeldCoversInside, Covered
    <3> QED BY <2>2, <2>3, <2>5, <3>1 DEF Covered
  <2> QED
    BY <2>1, <2>4, <2>5 DEF HeldCoversInside
<1>6. CASE UNCHANGED vars
  BY <1>6 DEF vars, HeldCoversInside, OneHolder, Covered, Inside
<1> QED
  BY <1>1, <1>2, <1>3, <1>4, <1>5, <1>6 DEF Next

\* The invariant is inductive, so it holds in every reachable state.
THEOREM InductiveInvariant == Spec => []IInv
<1>1. IInv /\ [Next]_vars => IInv'
  BY TypeStep, CoverStep DEF IInv
<1> QED
  BY InitIInv, <1>1, PTL DEF Spec

\* Type correctness of the lock model (lock.ts:11-47).
THEOREM TypeCorrect == Spec => []TypeOK
<1>1. IInv => TypeOK
  BY DEF IInv
<1> QED
  BY InductiveInvariant, <1>1, PTL

\* The counts a session carries cover the calls inside its replica: unlocking
\* on the wrong session (lock.ts:37) never costs a running task its lock.
THEOREM CoverTheorem == Spec => []HeldCoversInside
<1>1. IInv => HeldCoversInside
  BY DEF IInv
<1> QED
  BY InductiveInvariant, <1>1, PTL

\* Tasks of two replicas run at the same time only when the pool of one of
\* them closed the session that carried the lock (lock.ts:18-37).
THEOREM ExclusionTheorem == Spec => []ExclusiveUnlessChurned
<1>1. IInv => ExclusiveUnlessChurned
  <2> SUFFICES ASSUME IInv, NEW t \in Calls, NEW u \in Calls, Overlap(t, u),
                      ~churned[HomeOf[t]], ~churned[HomeOf[u]]
               PROVE  FALSE
    BY DEF ExclusiveUnlessChurned
  <2>1. /\ HomeOf[t] \in Replicas /\ HomeOf[u] \in Replicas
        /\ Inside(HomeOf[t]) # {} /\ Inside(HomeOf[u]) # {}
    BY HomeAssumption DEF Overlap, Inside
  <2>2. PICK c \in Conns :
          PoolOf[c] = HomeOf[t] /\ held[c] >= Cardinality(Inside(HomeOf[t]))
    BY <2>1 DEF IInv, HeldCoversInside, Covered
  <2>3. PICK d \in Conns :
          PoolOf[d] = HomeOf[u] /\ held[d] >= Cardinality(Inside(HomeOf[u]))
    BY <2>1 DEF IInv, HeldCoversInside, Covered
  <2>4. held[c] > 0 /\ held[d] > 0
    BY <2>1, <2>2, <2>3, InsideIsFinite DEF IInv, TypeOK
  <2> QED
    BY <2>2, <2>3, <2>4 DEF IInv, HeldCoversInside, OneHolder, Overlap
<1> QED
  BY InductiveInvariant, <1>1, PTL

\* The lock statement admits no call while a call of another replica is between
\* its lock and its unlock, unless that replica lost the session (lock.ts:18-23):
\* the other replica's session carries a count, and one count anywhere else is
\* enough for PostgreSQL to refuse.
THEOREM NoEntryTheorem == Spec => NoEntryOverInside
<1> DEFINE NoEntry ==
      \A t, u \in Calls :
        /\ HomeOf[t] # HomeOf[u]
        /\ pc[t] # "running" /\ pc'[t] = "running"
        /\ pc[u] \in {"running", "unlocking"}
        => churned[HomeOf[u]]
<1>1. IInv /\ [Next]_vars => NoEntry
  <2> SUFFICES ASSUME TypeOK, HeldCoversInside, [Next]_vars,
                      NEW t \in Calls, NEW u \in Calls,
                      HomeOf[t] # HomeOf[u],
                      pc[t] # "running", pc'[t] = "running",
                      pc[u] \in {"running", "unlocking"},
                      ~churned[HomeOf[u]]
               PROVE  FALSE
    BY DEF IInv
  <2>1. PICK c \in Conns : PoolOf[c] = HomeOf[t] /\ Grantable(c)
    <3>1. ASSUME NEW v \in Calls, NEW c \in Conns, Acquire(v, c)
          PROVE  v = t /\ PoolOf[c] = HomeOf[t] /\ Grantable(c)
      BY <3>1 DEF Acquire, TypeOK
    <3>2. ASSUME NEW v \in Calls, NEW c \in Conns,
                 Skip(v, c) \/ Unlock(v, c) \/ UnlockThrows(v, c)
          PROVE  FALSE
      BY <3>2 DEF Skip, Unlock, UnlockThrows, TypeOK
    <3>3. ASSUME NEW v \in Calls, TaskEnds(v) PROVE FALSE
      BY <3>3 DEF TaskEnds, TypeOK
    <3>4. ASSUME NEW c \in Conns, CloseConn(c) PROVE FALSE
      BY <3>4 DEF CloseConn
    <3>5. ASSUME NEW r \in Replicas, Crash(r) PROVE FALSE
      BY <3>5 DEF Crash
    <3>6. CASE UNCHANGED vars
      BY <3>6 DEF vars
    <3> QED
      BY <3>1, <3>2, <3>3, <3>4, <3>5, <3>6 DEF Next
  <2>2. HomeOf[u] \in Replicas /\ Inside(HomeOf[u]) # {}
    BY HomeAssumption DEF Inside
  <2>3. PICK d \in Conns :
          PoolOf[d] = HomeOf[u] /\ held[d] >= Cardinality(Inside(HomeOf[u]))
    BY <2>2 DEF HeldCoversInside, Covered
  <2>4. held[d] # 0
    BY <2>2, <2>3, InsideIsFinite, MaxHeldAssumption DEF TypeOK
  <2> QED
    BY <2>1, <2>3, <2>4 DEF Grantable
<1> QED
  BY InductiveInvariant, <1>1, PTL DEF Spec, NoEntryOverInside

=============================================================================
