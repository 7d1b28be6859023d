----------------------------- MODULE MCD2csGames -----------------------------
(***************************************************************************)
(* Small instances of D2csGames for TLC.                                   *)
(***************************************************************************)
EXTENDS D2csGames, TLC

CONSTANTS c1, c2, c3, n1, n2, k1, k2, p1

OneLink == [k \in Links |-> 1]
Symmetry == Permutations(Clients) \cup Permutations(Names)

=============================================================================
