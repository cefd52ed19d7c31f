------------------------------ MODULE MCStreamApi ------------------------------
(* Two streams, two employers and one worker are enough for the unique-pair    *)
(* rule and for a replay that names another employer; two deposits for the     *)
(* lost update.  Streams, employers and requests are interchangeable.          *)
EXTENDS StreamApi, TLC

Symmetry ==
  Permutations(StreamIds) \cup Permutations(Employers) \cup Permutations(Deposits)
=============================================================================
