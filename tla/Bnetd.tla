------------------------------- MODULE Bnetd -------------------------------
(***************************************************************************)
(* The steps of bnetd that connections, channels and games share           *)
(* (src/pvpgn/src/bnetd/server.cpp, handle_bnet.cpp, command.cpp,          *)
(* connection.cpp).                                                        *)
(*                                                                         *)
(* The server is one loop.  In a turn it handles what clients sent, one    *)
(* packet after the other, reads the configuration again when it was told  *)
(* to, and destroys marked connections.  What a client does to itself and  *)
(* to others reaches into all three of BnetConn, BnetChannel and BnetGame: *)
(* entering a channel leaves the game, joining a game leaves the channel,  *)
(* a command moves the connection of somebody else, and a connection that  *)
(* is destroyed leaves both.                                               *)
(*                                                                         *)
(* connlist_reap and channellist_reload are loops: each of their rounds is *)
(* a step, and no client acts until the loop is done (Turn).               *)
(***************************************************************************)
EXTENDS BnetChannel, BnetGame

vars == <<connVars, chatVars, gameVars>>

TypeOK == ConnTypeOK /\ ChatTypeOK /\ GameTypeOK

Init == ConnInit /\ ChatInit /\ GameInit

\* The server is not in the middle of a loop over connections or channels.
Turn == sweep = {} /\ ~Returning

\* handle_bnet_packet hands the packets of a client that is logged in to their handlers.
LoggedIn(c) == Turn /\ cstate[c] = "loggedin"

NewConn(c) == Turn /\ Accept(c) /\ UNCHANGED chatVars /\ NoGameStep

ClientLogin(c, a) == Turn /\ Login(c, a) /\ UNCHANGED chatVars /\ NoGameStep

DropConn(c) == Turn /\ Doom(c) /\ UNCHANGED chatVars /\ NoGameStep

(***************************************************************************)
(* JOIN_CHANNEL and /channel.  A client that asks for where it is stays.   *)
(***************************************************************************)
JoinChannel(c, n) ==
    /\ LoggedIn(c)
    /\ \E r \in Rooms :
          /\ LeadsTo(n, r)
          /\ IF r = where[c] THEN UNCHANGED chatVars /\ NoGameStep
                             ELSE Enter(c, r) /\ Quit(c)
    /\ UNCHANGED connVars

\* LEAVE_CHANNEL
LeaveChannel(c) == LoggedIn(c) /\ Part(c) /\ NoGameStep /\ UNCHANGED connVars

\* /rejoin
Rejoin(c) == LoggedIn(c) /\ Reenter(c) /\ Quit(c) /\ UNCHANGED connVars

\* /kick: who is sent to the void leaves its game too.
KickUser(c, a, to) ==
    /\ LoggedIn(c)
    /\ Kick(c, a, to)
    /\ IF to = Void THEN Quit(connof[a]) ELSE NoGameStep
    /\ UNCHANGED connVars

\* /ban
BanUser(c, a) ==
    /\ LoggedIn(c)
    /\ Ban(c, a)
    /\ IF Beside(c, a) /\ where[c] # Void THEN Quit(connof[a]) ELSE NoGameStep
    /\ UNCHANGED connVars

\* /unban, /tmpop, /op and /deop
ChatCommand(c, a) ==
    /\ LoggedIn(c)
    /\ Unban(c, a) \/ TmpOp(c, a) \/ Deop(c, a)
    /\ NoGameStep /\ UNCHANGED connVars

\* JOIN_GAME: the client leaves its channel whether there is such a game or not.
JoinGame(c, n, pw) ==
    /\ LoggedIn(c) /\ Part(c)
    /\ IF Available(n) = {} THEN NoGameStep
                            ELSE \E g \in Available(n) : Join(c, g, pw)
    /\ UNCHANGED connVars

(***************************************************************************)
(* STARTGAME1 and STARTGAME3 from a client in a game set its status; from  *)
(* another they join an available game of the name and type, or create it  *)
(* unless the name is taken.  The client stays in its channel.             *)
(***************************************************************************)
StartGame(c, g, n, ladder, pw) ==
    LET same == {h \in Available(n) : game[h].ladder = ladder} IN
    /\ LoggedIn(c) /\ cgame[c] = NoGame
    /\ \/ \E h \in same : Join(c, h, pw)
       \/ same = {} /\ Create(c, g, n, ladder, "open")
       \/ same = {} /\ Taken(n, ladder) /\ NoGameStep
    /\ UNCHANGED <<connVars, chatVars>>

GameStatus(c, s) == LoggedIn(c) /\ SetStatus(c, s) /\ UNCHANGED <<connVars, chatVars>>

\* STARTGAME4 leaves the channel; it creates a game, never joins one.
StartGame4(c, g, n, ladder, s) ==
    /\ LoggedIn(c) /\ Part(c)
    /\ \/ s # "started" /\ Create(c, g, n, ladder, s)
       \/ cgame[c] = NoGame /\ Taken(n, ladder) /\ NoGameStep
       \/ SetStatus(c, s)
    /\ UNCHANGED connVars

\* CLOSEGAME, but see GameStatus for Warcraft III; MOTD_W3 leaves a game as well.
CloseGame(c) == LoggedIn(c) /\ Quit(c) /\ UNCHANGED <<connVars, chatVars>>

\* GAME_REPORT
GameReport(c) == LoggedIn(c) /\ Report(c) /\ UNCHANGED <<connVars, chatVars>>

\* The main loop reads the configuration again.
ReloadConf == Turn /\ Reload /\ NoGameStep /\ UNCHANGED connVars

\* A round of channellist_reload: the member leaves its game if it enters a channel.
SendNext(r) ==
    /\ \E t \in Rooms :
          /\ SendBack(r, t)
          /\ LET c == Head(back[r]) IN
             IF where'[c] = NoRoom THEN NoGameStep ELSE Quit(c)
    /\ UNCHANGED connVars

StartReap == Turn /\ StartSweep /\ UNCHANGED chatVars /\ NoGameStep

ReapSkip(c) == Spare(c) /\ UNCHANGED chatVars /\ NoGameStep

\* conn_destroy
Reap(c) == Free(c) /\ Part(c) /\ Lost(c)

ClientStep(c) ==
    \/ NewConn(c) \/ DropConn(c)
    \/ \E a \in Accounts : ClientLogin(c, a)
    \/ \E n \in Names : JoinChannel(c, n)
    \/ LeaveChannel(c) \/ Rejoin(c)
    \/ \E a \in Accounts : \/ \E to \in {Void, NoRoom} : KickUser(c, a, to)
                           \/ BanUser(c, a) \/ ChatCommand(c, a)
    \/ \E n \in GameNames, pw \in BOOLEAN : JoinGame(c, n, pw)
    \/ \E g \in Games, n \in GameNames, l \in BOOLEAN :
          \/ \E pw \in BOOLEAN : StartGame(c, g, n, l, pw)
          \/ \E s \in Statuses \ {"done"} : StartGame4(c, g, n, l, s)
    \/ \E s \in Statuses : GameStatus(c, s)
    \/ CloseGame(c) \/ GameReport(c)

Next ==
    \/ \E c \in Conns : ClientStep(c) \/ ReapSkip(c) \/ Reap(c)
    \/ \E r \in Rooms : SendNext(r)
    \/ ReloadConf \/ StartReap

Spec == Init /\ [][Next]_vars

-----------------------------------------------------------------------------

\* An account is logged in at most once, and points to the connection where it is:
\* a login takes the account over, and the end of the old connection leaves it alone.
OneLogin ==
    /\ \A c \in Conns : cstate[c] = "loggedin" => connof[cacct[c]] = c
    /\ \A a \in Accounts : connof[a] # NoConn =>
          /\ cacct[connof[a]] = a
          /\ cstate[connof[a]] \in {"loggedin", "destroy"}

\* A connection is in the list of members of the channel it points to, once, and in no
\* other; a channel in use is in the list of channels, a temporary one only while it is
\* in use; and a temporary operator is one of the channel it is in.
ListsAgree ==
    /\ \A r \in Rooms : Elems(members[r]) = {c \in Conns : where[c] = r}
    /\ \A r \in Rooms : \A i, j \in DOMAIN members[r] :
          members[r][i] = members[r][j] => i = j
    /\ \A r \in Rooms : members[r] # <<>> => r \in live
    /\ \A r \in live \ Permanent : members[r] # <<>>
    /\ \A c \in Conns : op[c] \in {where[c], NoRoom}

\* When somebody who is no operator came in, the channel had room for one more.
RoomFits ==
    \A r \in Rooms : \A i \in DOMAIN members[r] :
        \/ cacct[members[r][i]] \in Ops
        \/ Cap[r] = -1 \/ Len(members[r]) - i < Cap[r]

\* An account is not logged in in a channel that it is banned from.
BannedStayOut ==
    \A c \in Conns : cstate[c] = "loggedin" /\ where[c] # NoRoom =>
        cacct[c] \notin banned[where[c]]

\* A client shows the others who are in its channel, and nobody else.
ViewsFollow ==
    \A c \in Conns : where[c] \notin {NoRoom, Void} =>
        seen[c] = {m \in Conns : where[m] = where[c]} \ {c}

\* Reading the configuration again leaves nobody out: all are sent back to a channel of
\* the same short name.
RejoinsAll ==
    [][\A r \in Rooms : Len(back'[r]) < Len(back[r]) =>
          LET c == Head(back[r]) IN where'[c] # NoRoom /\ Short[where'[c]] = Short[r]]_vars

\* A game counts its players right, a connection is in no game that is gone, and each
\* account holds as many places in a game as it has connections in it.
RosterExact ==
    /\ \A c \in Conns : cgame[c] # NoGame => cgame[c] \in DOMAIN game
    /\ \A g \in DOMAIN game :
          /\ game[g].ref = Cardinality(Held(game[g].slots))
          /\ \A a \in Accounts :
                Cardinality(HeldBy(game[g].slots, a))
                    = Cardinality({c \in Conns : cgame[c] = g /\ cacct[c] = a})

\* Of the games of one name, one at most can be joined.
NoTwinGames == \A n \in GameNames : Cardinality(Available(n)) <= 1

\* The games keep the promise of a board of matches: nobody enters one that has started
\* or ended, and it never waits for players again.
Board == [n \in GameNames |-> IF Available(n) = {} THEN NoGame
                                ELSE CHOOSE g \in Available(n) : TRUE]

M == INSTANCE Matches WITH
        Players <- Conns, Places <- Games, Names <- GameNames, None <- NoGame,
        at <- cgame, board <- Board

MatchesSpec == M!Spec

\* The end of a game gives each account one result.
CreditOnce == \A e, f \in credited : e.acct = f.acct => e = f
=============================================================================
