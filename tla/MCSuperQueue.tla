---------------------------- MODULE MCSuperQueue ----------------------------
(***************************************************************************)
(* SuperQueue with a ring of ten slots for resolutions of one and three    *)
(* seconds: the proportions of 128 slots and 60 seconds, with three spare  *)
(* slots instead of five.                                                  *)
(***************************************************************************)
EXTENDS SuperQueue

ClockTimes == 12 .. 23

\* For the constants of the code: an event one second ahead of 1017 is sent at 1139 at the
\* latest; then the machine sleeps for two minutes.
SleepTimes == {1017, 1020, 1141}
=============================================================================
