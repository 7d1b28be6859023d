---------------------------- MODULE MCD2CharLock ----------------------------
(* Small instances of D2CharLock: connections k1 and k2 come from server s1,  *)
(* k3 from server s2.                                                         *)
EXTENDS D2CharLock, TLC

CONSTANTS k1, k2, k3, s1, s2

FromAddr == [k \in Conns |-> IF k = k3 THEN s2 ELSE s1]

\* The two connections of s1 are interchangeable, and so are characters.
Symmetry == Permutations({k1, k2}) \cup Permutations(Chars)
=============================================================================
