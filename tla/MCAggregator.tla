---------------------------- MODULE MCAggregator ----------------------------
(* Aggregator of replica 1 started at second 12: the window is 9 .. 15, with    *)
(* the real ShortWindow and FutureWindow, and the historic window is three      *)
(* seconds.  Second 7 starts as recent, becomes historic, then too old; second  *)
(* 18 starts in the future, 13 goes to the third bucket, for 15.                 *)
EXTENDS Aggregator, TLC
Symmetry == Permutations(Requests) \cup Permutations(Inserters)
=============================================================================
