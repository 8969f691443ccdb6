---------------------------- MODULE MCJournalFast ----------------------------
(* JournalFast with two aggregators and an agent. *)
EXTENDS JournalFast, TLC

CONSTANTS m1, m2, d
EntityValues == [e \in {m1, m2, d} |-> IF e = m1 THEN {1, 2} ELSE {1}]
Symmetry == Permutations(Aggregators)
==============================================================================
