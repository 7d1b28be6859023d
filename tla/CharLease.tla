------------------------------ MODULE CharLease ------------------------------
(***************************************************************************)
(* What the character lock of d2dbs promises the game servers: a character *)
(* is leased to at most one of their sessions at a time, and it goes from  *)
(* one session to another only after the first has given it up or ended.   *)
(***************************************************************************)
CONSTANTS
    Chars,   \* characters
    Conns    \* sessions of the game servers with d2dbs

VARIABLE
    user     \* user[x]: the sessions that have been handed character x

Init == user = [x \in Chars |-> {}]

\* A free character is handed to session k.
Grant(x, k) == /\ user[x] = {}
               /\ user' = [user EXCEPT ![x] = {k}]

\* The characters of X are given up, by a player's leave or by the end of a session.
GiveUp(X) == user' = [x \in Chars |-> IF x \in X THEN {} ELSE user[x]]

Next == \/ \E x \in Chars, k \in Conns : Grant(x, k)
        \/ \E X \in SUBSET Chars : GiveUp(X)

Spec == Init /\ [][Next]_user
=============================================================================
