----------------------------- MODULE MCAttrCache -----------------------------
(* Small instances of AttrCache.                                              *)
EXTENDS AttrCache, TLC

CONSTANTS a1, a2, v1, v2

\* Accounts are, and so are values, interchangeable.
Symmetry == Permutations(Accounts) \cup Permutations(Values)
=============================================================================
