SPECIFICATION Spec
CONSTANTS
  r1 = r1
  r2 = r2
  c1 = c1
  c2 = c2
  c3 = c3
  c4 = c4
  t1 = t1
  t2 = t2
  t3 = t3
  Replicas = {r1, r2}
  Conns = {c1, c2, c3, c4}
  Calls = {t1, t2, t3}
  PoolOf <- MCPoolOf
  HomeOf <- MCHomeOf
  MaxHeld = 3
INVARIANTS TypeOK HeldCoversInside ExclusiveUnlessChurned
