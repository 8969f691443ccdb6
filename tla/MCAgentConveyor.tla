--------------------------- MODULE MCAgentConveyor ---------------------------
(* AgentConveyor with one recent sender, two historic senders and the eraser. *)
EXTENDS AgentConveyor, TLC

Symmetry == Permutations(HistoricSenders)
=============================================================================
