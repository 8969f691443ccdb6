--------------------------- MODULE MCCache2Chunks ---------------------------
(* Cache2Chunks with three chunks, the last of which is still growing. *)
EXTENDS Cache2Chunks, TLC

Symmetry == Permutations(Loaders)
Ends == [c \in 1 .. 3 |-> IF c = 3 THEN 3 ELSE 1]
Plain(i, j) == [from |-> i, to |-> j, forceLoad |-> FALSE, play |-> FALSE]
SomeRequests == {Plain(1, 3), [Plain(2, 3) EXCEPT !.play = TRUE], [Plain(2, 2) EXCEPT !.forceLoad = TRUE]}
PlainRequests == {Plain(1, 3), Plain(2, 2)}
=============================================================================
