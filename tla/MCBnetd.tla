------------------------------ MODULE MCBnetd ------------------------------
(***************************************************************************)
(* Instances of Bnetd: a lobby for two that is copied when it is full, the *)
(* void, and a channel "own" that its users create, for one.               *)
(***************************************************************************)
EXTENDS Bnetd

Lobbies == {"lobby-1", "lobby-2"}

MCConfigured == Rooms \cap {"lobby-1", "void"}
MCPermanent == Rooms \cap (Lobbies \cup {"void"})
MCShort == [r \in Rooms |-> IF r \in Lobbies THEN "lobby" ELSE r]
MCCopyNo == [r \in Rooms |-> IF r = "lobby-2" THEN 2 ELSE 1]
MCCap == [r \in Rooms |-> IF r = "void" THEN -1 ELSE IF r = "own" THEN 1 ELSE 2]

\* No cfg with one of these tells two ordinary accounts, or two games, apart.
ChatSymmetry == Permutations(Conns) \cup Permutations(Accounts \ Ops)
GameSymmetry == Permutations(Conns) \cup Permutations(Games) \cup Permutations(GameNames)
=============================================================================
