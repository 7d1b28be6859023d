------------------------------ MODULE Matches ------------------------------
(***************************************************************************)
(* What bnetd promises of its games: a board that shows under a name at    *)
(* most one match that can be entered, and players who are each in one     *)
(* match at most.  A match leaves the board when it starts or when its     *)
(* last player leaves, and nobody enters it from then on.                  *)
(***************************************************************************)
CONSTANTS Players, Places, Names, None

VARIABLES
    at,         \* at[p]: the match p is in
    board       \* board[n]: the match that can be entered under n

Init ==
    /\ at = [p \in Players |-> None]
    /\ board = [n \in Names |-> None]

InUse(m) == (\E p \in Players : at[p] = m) \/ (\E n \in Names : board[n] = m)

\* The board once p has left its match: without it if nobody else is there.
Left(p) ==
    [n \in Names |-> IF board[n] = at[p] /\ \A q \in Players \ {p} : at[q] # at[p]
                     THEN None ELSE board[n]]

\* p puts a new match on the board, and enters it unless it is refused.
Open(p, n, m) ==
    /\ at[p] = None /\ board[n] = None /\ ~InUse(m)
    /\ board' = [board EXCEPT ![n] = m]
    /\ at' \in {at, [at EXCEPT ![p] = m]}

Enter(p, n) ==
    /\ board[n] \notin {None, at[p]}
    /\ at' = [at EXCEPT ![p] = board[n]]
    /\ board' = Left(p)

Leave(p) ==
    /\ at[p] # None
    /\ at' = [at EXCEPT ![p] = None]
    /\ board' = Left(p)

Start(p, n) ==
    /\ at[p] # None /\ board[n] = at[p]
    /\ board' = [board EXCEPT ![n] = None]
    /\ UNCHANGED at

Next ==
    \E p \in Players :
       \/ \E n \in Names, m \in Places : Open(p, n, m)
       \/ \E n \in Names : Enter(p, n) \/ Start(p, n)
       \/ Leave(p)

Spec == Init /\ [][Next]_<<at, board>>
=============================================================================
