--------------------------- MODULE MCMappingsCache ---------------------------
(* MappingsCache with three strings, of which two fit in the cache.           *)
EXTENDS MappingsCache, TLC

Symmetry == Permutations(Modifiers)
=============================================================================
