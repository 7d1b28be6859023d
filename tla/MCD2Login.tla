----------------------------- MODULE MCD2Login -----------------------------
(***************************************************************************)
(* A small instance of D2Login for TLC.                                    *)
(***************************************************************************)
EXTENDS D2Login

\* All clients are in the row of every character.
OneRow == [x \in Chars |-> Clients]
=============================================================================
