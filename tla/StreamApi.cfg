SPECIFICATION Spec
SYMMETRY Symmetry
CONSTANTS
  StreamIds = {s1, s2}
  Employers = {e1, e2}
  Workers = {w1}
  NoRow = NoRow
  Totals = {0, 2}
  Withdrawn = {0, 3}
  Deposits = {d1, d2}
  DepositAmounts = {5}
INVARIANTS TypeOK ChargedOnceRefundedOnce BooksBalance
PROPERTIES RowIdentityKept KeepsTreasury
