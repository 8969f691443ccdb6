--------------------------- MODULE MCCache2Memory ---------------------------
(* Cache2Memory with two requests of two blocks each. *)
EXTENDS Cache2Memory, TLC

NoLimit == [maxSize |-> 0, maxSizeSoft |-> 0]
Tight == [maxSize |-> 2, maxSizeSoft |-> 1]
SomeLimits == {NoLimit, Tight}
TightLimits == {Tight}
=============================================================================
