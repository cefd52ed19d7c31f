---------------------------- MODULE MCAdvisoryLock ----------------------------
(* Two replicas with two sessions each; two calls in one replica (a cron tick *)
(* and a manual trigger) and one in the other.                                *)
EXTENDS AdvisoryLock

CONSTANTS r1, r2, c1, c2, c3, c4, t1, t2, t3

MCPoolOf == [c \in {c1, c2, c3, c4} |-> IF c \in {c1, c2} THEN r1 ELSE r2]
MCHomeOf == [t \in {t1, t2, t3} |-> IF t \in {t1, t2} THEN r1 ELSE r2]
=============================================================================
