------------------------------ MODULE BnetConn ------------------------------
(***************************************************************************)
(* Connections of bnetd and the accounts logged in on them                 *)
(* (src/pvpgn/src/bnetd/connection.cpp, handle_bnet.cpp, server.cpp).      *)
(*                                                                         *)
(* A connection is created when a client is accepted, is logged in to one  *)
(* account, and is marked for destruction by an error, a command or a new  *)
(* login of its account.  A marked connection is on the list conn_dead: it *)
(* stays in its channel and in its game, and its account may be logged in  *)
(* again elsewhere, until connlist_reap destroys it at the end of a turn   *)
(* of the server's loop, and that waits until its output has been sent.    *)
(*                                                                         *)
(* The actions here are parts of the steps of module Bnetd, which says     *)
(* what the channels and games do in the same step.  A member of Conns is  *)
(* a place in memory: once freed it may hold another connection.           *)
(***************************************************************************)
EXTENDS FiniteSets

CONSTANTS
    Conns,          \* places for connections
    Accounts,       \* accounts
    NoConn,         \* a NULL connection
    NoAccount,      \* a NULL account
    KickOldLogin    \* kick_old_login

ASSUME ConnAssumption ==
    IsFiniteSet(Conns) /\ NoConn \notin Conns /\ NoAccount \notin Accounts /\ KickOldLogin \in BOOLEAN

VARIABLES
    cstate,         \* cstate[c]: protocol.state; "none" when there is no connection
    cacct,          \* cacct[c]: protocol.account
    connof,         \* connof[a]: the connection of an account
    sweep           \* the connections connlist_reap has still to look at

connVars == <<cstate, cacct, connof, sweep>>

ConnTypeOK ==
    /\ cstate \in [Conns -> {"none", "connected", "loggedin", "destroy"}]
    /\ cacct \in [Conns -> Accounts \cup {NoAccount}]
    /\ connof \in [Accounts -> Conns \cup {NoConn}]
    /\ sweep \subseteq Conns

ConnInit ==
    /\ cstate = [c \in Conns |-> "none"]
    /\ cacct = [c \in Conns |-> NoAccount]
    /\ connof = [a \in Accounts |-> NoConn]
    /\ sweep = {}

\* conn_dead, without its order.
Dead == {c \in Conns : cstate[c] = "destroy"}

\* A client is accepted and has said that it speaks the protocol.
Accept(c) ==
    /\ cstate[c] = "none"
    /\ cstate' = [cstate EXCEPT ![c] = "connected"]
    /\ UNCHANGED <<cacct, connof, sweep>>

(***************************************************************************)
(* A login that names an account and its password.  The connection the     *)
(* account had is marked, and is still in its channel and in its game.     *)
(***************************************************************************)
Login(c, a) ==
    LET other == connof[a] IN
    /\ cstate[c] = "connected"
    /\ other = NoConn \/ KickOldLogin
    /\ cstate' = [x \in Conns |-> IF x = c THEN "loggedin"
                                  ELSE IF x = other THEN "destroy" ELSE cstate[x]]
    /\ cacct' = [cacct EXCEPT ![c] = a]
    /\ connof' = [connof EXCEPT ![a] = c]
    /\ UNCHANGED sweep

\* The client closes, its socket fails, or /quit, /kill and their like: conn_close_read.
Doom(c) ==
    /\ cstate[c] \in {"connected", "loggedin"}
    /\ cstate' = [cstate EXCEPT ![c] = "destroy"]
    /\ UNCHANGED <<cacct, connof, sweep>>

\* The end of a turn: connlist_reap starts at the head of conn_dead.
StartSweep ==
    /\ sweep = {} /\ Dead # {}
    /\ sweep' = Dead
    /\ UNCHANGED <<cstate, cacct, connof>>

\* connlist_reap passes over a connection that has output to send.
Spare(c) ==
    /\ c \in sweep
    /\ sweep' = sweep \ {c}
    /\ UNCHANGED <<cstate, cacct, connof>>

\* Mutant of LoggedOut: the account forgets its connection whichever that is.
LoggedOutOfAll(c) == [a \in Accounts |-> IF a = cacct[c] THEN NoConn ELSE connof[a]]

\* The accounts once c is gone.  One that has logged in again keeps its connection.
LoggedOut(c) ==
    [a \in Accounts |-> IF a = cacct[c] /\ connof[a] = c THEN NoConn ELSE connof[a]]

\* conn_destroy frees it.
Free(c) ==
    /\ c \in sweep
    /\ sweep' = sweep \ {c}
    /\ cstate' = [cstate EXCEPT ![c] = "none"]
    /\ cacct' = [cacct EXCEPT ![c] = NoAccount]
    /\ connof' = LoggedOut(c)
=============================================================================
