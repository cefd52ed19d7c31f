------------------------------ MODULE MCServices -------------------------------
(* One or two of everything, for every service of module Services.            *)
EXTENDS Services, TLC

CONSTANTS k1, p1, p2, p3, p4, r1, r2, r3, s1, s2

MCVaultOrder == <<k1>>
MCReportDay == s1 :> 1 @@ s2 :> 0
MCFrequency == s1 :> "weekly" @@ s2 :> "monthly"
\* Months of two and of three days.
MCMonthStart == [m \in 0..LastMonth |-> (5 * m) \div 2]

\* The two processes (or the two requests, flushes, cycles) of a part are alike.
Symmetry == Permutations({p1, p2})
=============================================================================
