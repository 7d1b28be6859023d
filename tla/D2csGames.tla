------------------------------ MODULE D2csGames ------------------------------
(***************************************************************************)
(* The game side of the Diablo II realm server d2cs: the list of games     *)
(* (d2cs/game.cpp), the queue of clients that wait for room to create one  *)
(* (d2cs/gamequeue.cpp), the requests sent to game servers and not yet     *)
(* answered (d2cs/serverqueue.cpp), the game servers and their connections *)
(* (d2cs/d2gs.cpp) and the handlers that change them (handle_d2cs.cpp,     *)
(* handle_d2gs.cpp, handle_init.cpp, connection.cpp).                      *)
(*                                                                         *)
(* d2cs is one thread running an event loop: every handler runs to its end *)
(* before another event is looked at, except that game_destroy and         *)
(* on_d2gs_setgsinfo call gqlist_check_creategame, a loop that serves the  *)
(* queue.  That loop is unrolled: "budget" is the number of creations it   *)
(* may still attempt, and while it is positive only ServeQueue is enabled, *)
(* so a handler and the loop it runs are never separated by another event. *)
(*                                                                         *)
(* The game servers (D2GS) are a separate closed program: the Gs actions   *)
(* are what d2cs relies on, a process that answers requests in order, may  *)
(* refuse them and closes games when it wants.  Each TCP connection is a   *)
(* pair of FIFO channels.                                                  *)
(***************************************************************************)
EXTENDS Integers, FiniteSets, SequencesExt

CONSTANTS
    Clients,     \* client sessions
    Names,       \* game names
    Servers,     \* ids of the configured game servers, in list order
    Links,       \* connections from game servers
    ServerOf,    \* the server a link comes from: its IP address
    Kinds,       \* what charinfo makes of a create request: "ok", "dead", "low"
    Players,     \* characters the game servers report in games
    Capacities,  \* values a game server announces as its maxgame
    NoName,      \* conn->gamequeue is NULL
    NoLink,      \* gs->connection is NULL
    GsRoom,      \* games a game server can run: it refuses to create more
    MaxSq,       \* bound: unanswered requests when a client asks for another
    IdlePurge,   \* max_game_idletime is set: idle empty games are destroyed
    MaxMsgs      \* bound: messages in flight when a server volunteers one

ASSUME ServersAssumption == Servers \subseteq Nat /\ IsFiniteSet(Servers)
ASSUME LinksAssumption == ServerOf \in [Links -> Servers] /\ NoLink \notin Links
ASSUME NamesAssumption == NoName \notin Names
ASSUME CapacitiesAssumption == Capacities \subseteq Nat
ASSUME KindsAssumption == Kinds \subseteq {"ok", "dead", "low"} /\ Kinds # {}
ASSUME BoundsAssumption == GsRoom \in Nat /\ MaxSq \in Nat /\ MaxMsgs \in Nat /\ IdlePurge \in BOOLEAN

VARIABLES
    cstate,      \* conn->state of a client: "char", "destroy", or "gone"
    kind,        \* the part of conn->charinfo that a create request looks at
    gamequeue,   \* conn->gamequeue: the name of the queued request, or NoName
    gq,          \* gqlist_head, oldest request first
    game,        \* gamelist_head, by game id
    sq,          \* sqlist_head, by seqno
    link,        \* gs->connection; set exactly when gs->active is
    gamenum,     \* gs->gamenum
    maxgame,     \* gs->maxgame
    lstate,      \* conn->state of a game server's connection
    toGs,        \* what d2cs sent on a link and the server has not read
    fromGs,      \* what the server sent on a link and d2cs has not read
    hosted,      \* the games that run on the server at the end of a link
    budget       \* creations gqlist_check_creategame may still attempt

clientVars == <<cstate, kind, gamequeue>>
serverVars == <<link, gamenum, maxgame>>
netVars    == <<lstate, toGs, fromGs, hosted>>
vars == <<clientVars, gq, game, sq, serverVars, netVars, budget>>

-----------------------------------------------------------------------------
(* Records and identifiers.                                                *)

Entry == [clientid : Clients, gamename : Names]

Game == [name : Names, d2gs : Servers, created : BOOLEAN,
         gid : Nat, chars : SUBSET Players]

Request == [clientid : Clients, gameid : Nat]

ToGsMsg == [type : {"creategamereq"}, seqno : Nat]
             \cup [type : {"joingamereq"}, seqno : Nat, gid : Nat]

FromGsMsg ==
    [type : {"authreply"}, ok : BOOLEAN]
      \cup [type : {"setgsinfo"}, maxgame : Capacities]
      \cup [type : {"creategamereply"}, seqno : Nat, ok : BOOLEAN, gid : Nat]
      \cup [type : {"joingamereply"}, seqno : Nat]
      \cup [type : {"updategameinfo"}, gid : Nat, char : Players, enter : BOOLEAN]
      \cup [type : {"closegame"}, gid : Nat]

(* Identifiers come from counters (++game_id, ++sqlist_seqno) that are not *)
(* reused within 2^32 allocations: here, the first number that nothing     *)
(* refers to.                                                              *)
Fresh(used) ==
    {n \in 1 .. Cardinality(used) + 1 : n \notin used /\ 1 .. n - 1 \subseteq used}

InFlight(k) == {toGs[k][j].seqno : j \in DOMAIN toGs[k]}
                 \cup {fromGs[k][j].seqno : j \in
                         {x \in DOMAIN fromGs[k] : fromGs[k][x].type \in
                            {"creategamereply", "joingamereply"}}}

UsedSeqnos == DOMAIN sq \cup UNION {InFlight(k) : k \in Links}
UsedGameIds == DOMAIN game \cup {sq[q].gameid : q \in DOMAIN sq}

Without(f, S) == Restrict(f, DOMAIN f \ S)
With(f, x, v) == [y \in DOMAIN f \cup {x} |-> IF y = x THEN v ELSE f[y]]

GamesOn(s)   == {i \in DOMAIN game : game[i].d2gs = s}
GamesNamed(n) == {i \in DOMAIN game : game[i].name = n}

(* gamelist_find_game_by_d2gs_and_id *)
GamesWithGid(s, gid) == {i \in GamesOn(s) : game[i].created /\ game[i].gid = gid}

Alive(c) == cstate[c] # "gone"        \* found by sessionnum until it is reaped
Idle     == budget = 0                \* no handler is in the middle of its work

-----------------------------------------------------------------------------
(* Choice of a server: the least loaded in percent, the first on a tie.    *)

(* Mutant of Open: "full" is compared with > instead of >=.                *)
OpenOneMore == {s \in Servers : link[s] # NoLink /\ gamenum[s] <= maxgame[s] /\ maxgame[s] > 0}

Open == {s \in Servers : link[s] # NoLink /\ gamenum[s] < maxgame[s]}

Percent(s) == (100 * gamenum[s]) \div maxgame[s]

(* d2gslist_choose_server: the one server it returns, if there is any.     *)
Chosen ==
    {s \in Open : \A t \in Open :
        Percent(s) < Percent(t) \/ (Percent(s) = Percent(t) /\ s <= t)}

Send(k, m) == toGs' = [toGs EXCEPT ![k] = Append(@, m)]

-----------------------------------------------------------------------------
Init ==
    /\ cstate = [c \in Clients |-> "char"]
    /\ kind \in [Clients -> Kinds]
    /\ gamequeue = [c \in Clients |-> NoName]
    /\ gq = <<>>
    /\ game = <<>>
    /\ sq = <<>>
    /\ link = [s \in Servers |-> NoLink]
    /\ gamenum = [s \in Servers |-> 0]
    /\ maxgame = [s \in Servers |-> 0]
    /\ lstate = [k \in Links |-> "gone"]
    /\ toGs = [k \in Links |-> <<>>]
    /\ fromGs = [k \in Links |-> <<>>]
    /\ hosted = [k \in Links |-> {}]
    /\ budget = 0

-----------------------------------------------------------------------------
(* Client connections.                                                     *)

(* A new session has logged in with a character.  A session number is not  *)
(* given out again while a request still carries it.                       *)
ClientConnect(c) ==
    /\ Idle
    /\ cstate[c] = "gone"
    /\ \A q \in DOMAIN sq : sq[q].clientid # c
    /\ cstate' = [cstate EXCEPT ![c] = "char"]
    /\ \E x \in Kinds : kind' = [kind EXCEPT ![c] = x]
    /\ UNCHANGED <<gamequeue, gq, game, sq, serverVars, netVars, budget>>

(* on_client_charloginreq stores the charinfo of the character asked for   *)
(* at once, also while a request of the same client waits in the queue.    *)
ClientSwitchChar(c, x) ==
    /\ Idle
    /\ cstate[c] = "char"
    /\ kind' = [kind EXCEPT ![c] = x]
    /\ UNCHANGED <<cstate, gamequeue, gq, game, sq, serverVars, netVars, budget>>

(* The connection fails, idles too long or breaks the protocol: it is put  *)
(* on the dead list and stays findable until the loop reaps it.            *)
ClientDrop(c) ==
    /\ Idle
    /\ cstate[c] = "char"
    /\ cstate' = [cstate EXCEPT ![c] = "destroy"]
    /\ UNCHANGED <<kind, gamequeue, gq, game, sq, serverVars, netVars, budget>>

(* gq_destroy of the entry conn->gamequeue points at.                      *)
EntryOf(c) == [clientid |-> c, gamename |-> gamequeue[c]]

(* Mutant of DestroyEntryOf: the pointer is cleared, the entry stays.       *)
KeepEntryOf(c) == UNCHANGED gq

DestroyEntryOf(c) ==
    \/ /\ \A i \in DOMAIN gq : gq[i] # EntryOf(c)
       /\ UNCHANGED gq
    \/ \E i \in DOMAIN gq : gq[i] = EntryOf(c) /\ gq' = RemoveAt(gq, i)

(* The end of an event-loop iteration destroys a dead connection.          *)
ClientReap(c) ==
    /\ Idle
    /\ cstate[c] = "destroy"
    /\ cstate' = [cstate EXCEPT ![c] = "gone"]
    /\ gamequeue' = [gamequeue EXCEPT ![c] = NoName]
    /\ DestroyEntryOf(c)
    /\ UNCHANGED <<kind, game, sq, serverVars, netVars, budget>>

-----------------------------------------------------------------------------
(* Creating a game: on_client_creategamereq, run by a client's packet and, *)
(* for a queued request, by gqlist_check_creategame.                       *)

TooHard(c) == kind[c] = "low"         \* dropped without an answer

NameTaken(c, n) ==
    \/ GamesNamed(n) # {}
    \/ gamequeue[c] = NoName /\ \E i \in DOMAIN gq : gq[i].gamename = n

(* The request finds a server with room: it can create the game.           *)
Admitted(c, n) ==
    ~TooHard(c) /\ ~NameTaken(c, n) /\ Open # {} /\ kind[c] # "dead"

(* It finds none, and is put in the queue or taken out of it.              *)
MustWait(c, n) == ~TooHard(c) /\ ~NameTaken(c, n) /\ Open = {}

PlaceGame(c, n) ==
    \E s \in Chosen, i \in Fresh(UsedGameIds), q \in Fresh(UsedSeqnos) :
        /\ game' = With(game, i, [name |-> n, d2gs |-> s, created |-> FALSE,
                                  gid |-> 0, chars |-> {}])
        /\ gamenum' = [gamenum EXCEPT ![s] = @ + 1]
        /\ sq' = With(sq, q, [clientid |-> c, gameid |-> i])
        /\ Send(link[s], [type |-> "creategamereq", seqno |-> q])

CanAsk(c) == Idle /\ cstate[c] = "char" /\ Cardinality(UsedSeqnos) < MaxSq

CreateGame(c, n) ==
    /\ CanAsk(c)
    /\ Admitted(c, n)
    /\ PlaceGame(c, n)
    /\ UNCHANGED <<clientVars, gq, link, maxgame, lstate, fromGs, hosted, budget>>

(* Mutant of EnqueueGame: the request is put at the head of the list.      *)
EnqueueGameFirst(c, n) ==
    /\ CanAsk(c)
    /\ MustWait(c, n)
    /\ gamequeue[c] = NoName
    /\ gq' = <<[clientid |-> c, gamename |-> n]>> \o gq
    /\ gamequeue' = [gamequeue EXCEPT ![c] = n]
    /\ UNCHANGED <<cstate, kind, game, sq, serverVars, netVars, budget>>

(* No server has room: the request waits.                                  *)
EnqueueGame(c, n) ==
    /\ CanAsk(c)
    /\ MustWait(c, n)
    /\ gamequeue[c] = NoName
    /\ gq' = Append(gq, [clientid |-> c, gamename |-> n])
    /\ gamequeue' = [gamequeue EXCEPT ![c] = n]
    /\ UNCHANGED <<cstate, kind, game, sq, serverVars, netVars, budget>>

(* No server has room and the client already waits: it loses its place,    *)
(* and neither request is answered.                                        *)
LeaveQueueByAsking(c, n) ==
    /\ CanAsk(c)
    /\ MustWait(c, n)
    /\ gamequeue[c] # NoName
    /\ DestroyEntryOf(c)
    /\ gamequeue' = [gamequeue EXCEPT ![c] = NoName]
    /\ UNCHANGED <<cstate, kind, game, sq, serverVars, netVars, budget>>

(* on_client_cancelcreategame                                              *)
CancelCreate(c) ==
    /\ Idle
    /\ cstate[c] = "char"
    /\ gamequeue[c] # NoName
    /\ DestroyEntryOf(c)
    /\ gamequeue' = [gamequeue EXCEPT ![c] = NoName]
    /\ UNCHANGED <<cstate, kind, game, sq, serverVars, netVars, budget>>

(* gqlist_check_creategame starts with "room" creations to attempt.        *)
StartServing(room) == budget' = IF room > 0 /\ gq # <<>> THEN room ELSE 0

(* One round of its loop.  The request at the head leaves the queue and    *)
(* uses up one attempt, whether or not its game could be created.  When no *)
(* server has room, on_client_creategamereq has already destroyed the      *)
(* entry: destroying it again finds nothing and ends the loop.             *)
ServeQueue ==
    LET e == Head(gq)
        c == e.clientid
    IN  /\ budget > 0
        /\ IF Alive(c) /\ gamequeue[c] # NoName
             THEN /\ IF Admitted(c, e.gamename)
                       THEN PlaceGame(c, e.gamename)
                       ELSE UNCHANGED <<game, gamenum, sq, toGs>>
                  /\ gamequeue' = [gamequeue EXCEPT ![c] = NoName]
                  /\ budget' = IF Len(gq) = 1 \/ MustWait(c, e.gamename)
                                 THEN 0 ELSE budget - 1
             ELSE /\ UNCHANGED <<game, gamenum, sq, toGs, gamequeue>>
                  /\ budget' = IF Len(gq) = 1 THEN 0 ELSE budget
        /\ gq' = Tail(gq)
        /\ UNCHANGED <<cstate, kind, link, maxgame, lstate, fromGs, hosted>>

-----------------------------------------------------------------------------
(* Joining a game.  The other conditions of d2cs_try_joingame (character   *)
(* class, level, password, number of players) only decide that a request   *)
(* is refused, which changes nothing here: any request may be refused.     *)

JoinGame(c, i) ==
    /\ CanAsk(c)
    /\ game[i].created
    /\ \E q \in Fresh(UsedSeqnos) :
          /\ sq' = With(sq, q, [clientid |-> c, gameid |-> i])
          /\ Send(link[game[i].d2gs],
                  [type |-> "joingamereq", seqno |-> q, gid |-> game[i].gid])
    /\ UNCHANGED <<clientVars, gq, game, serverVars, lstate, fromGs, hosted, budget>>

-----------------------------------------------------------------------------
(* Timed events of d2cs.                                                   *)

(* sqlist_check_timeout: a request nobody answered in time is forgotten.   *)
SqExpire(q) ==
    /\ Idle
    /\ sq' = Without(sq, {q})
    /\ UNCHANGED <<clientVars, gq, game, serverVars, netVars, budget>>

(* Mutants of DestroyGame: the server's count is left alone; the queue is  *)
(* not told.                                                               *)
DestroyGameUncounted(i) ==
    LET s == game[i].d2gs
    IN  /\ game' = Without(game, {i})
        /\ StartServing(maxgame[s] - gamenum[s])
        /\ UNCHANGED gamenum

DestroyGameQuietly(i) ==
    /\ game' = Without(game, {i})
    /\ gamenum' = [gamenum EXCEPT ![game[i].d2gs] = @ - 1]
    /\ UNCHANGED budget

(* game_destroy: the game's place goes to the queue.                       *)
DestroyGame(i) ==
    LET s == game[i].d2gs
    IN  /\ game' = Without(game, {i})
        /\ gamenum' = [gamenum EXCEPT ![s] = @ - 1]
        /\ StartServing(maxgame[s] - (gamenum[s] - 1))

(* Mutants of VoidPurge: games that were never created are passed over;    *)
(* games with characters in them are not.                                  *)
VoidPurgeCreated(i) ==
    /\ Idle
    /\ IdlePurge
    /\ game[i].created /\ game[i].chars = {}
    /\ DestroyGame(i)
    /\ UNCHANGED <<clientVars, gq, sq, link, maxgame, netVars>>

VoidPurgeAny(i) ==
    /\ Idle
    /\ IdlePurge
    /\ DestroyGame(i)
    /\ UNCHANGED <<clientVars, gq, sq, link, maxgame, netVars>>

(* d2cs_gamelist_check_voidgame, one game at a time.                       *)
VoidPurge(i) ==
    /\ Idle
    /\ IdlePurge
    /\ game[i].chars = {}
    /\ DestroyGame(i)
    /\ UNCHANGED <<clientVars, gq, sq, link, maxgame, netVars>>

-----------------------------------------------------------------------------
(* What d2cs does with a message of a game server.                         *)

Arrives(k, type) == Idle /\ fromGs[k] # <<>> /\ Head(fromGs[k]).type = type

Receive(k) == fromGs' = [fromGs EXCEPT ![k] = Tail(@)]

Msg(k) == Head(fromGs[k])

(* The packet table names the connection state a message is valid in; any  *)
(* other is logged and dropped, and the connection stays.                  *)
Valid(k, type) ==
    Arrives(k, type) /\ lstate[k] = IF type = "authreply" THEN "connected" ELSE "authed"

OnMismatch(k) ==
    /\ Idle
    /\ fromGs[k] # <<>>
    /\ ~Valid(k, Msg(k).type)
    /\ Receive(k)
    /\ UNCHANGED <<clientVars, gq, game, sq, serverVars, lstate, toGs, hosted, budget>>

(* A refused server is told so; its connection is left as it is.           *)
OnAuthRefused(k) ==
    /\ Valid(k, "authreply")
    /\ ~Msg(k).ok
    /\ Receive(k)
    /\ UNCHANGED <<clientVars, gq, game, sq, serverVars, lstate, toGs, hosted, budget>>

(* Mutant of GamesWithout: a server is deactivated with its games listed.  *)
GamesKeptOn(s) == game

(* d2gs_deactive destroys the server's games.  maxgame is already zero, so *)
(* no game_destroy of the loop serves the queue.                           *)
GamesWithout(s) == Without(game, GamesOn(s))

(* Mutant of OnAuthAccepted: the old connection is not deactivated first.  *)
OnAuthAcceptedOverOld(k) ==
    LET s == ServerOf[k]
    IN  /\ Valid(k, "authreply")
        /\ Msg(k).ok
        /\ lstate' = [lstate EXCEPT ![k] = "authed"]
        /\ link' = [link EXCEPT ![s] = k]
        /\ gamenum' = [gamenum EXCEPT ![s] = 0]
        /\ maxgame' = [maxgame EXCEPT ![s] = 0]
        /\ Receive(k)
        /\ UNCHANGED <<clientVars, gq, game, sq, toGs, hosted, budget>>

(* d2gs_active, which first deactivates a connection the server still has. *)
OnAuthAccepted(k) ==
    LET s == ServerOf[k]
    IN  /\ Valid(k, "authreply")
        /\ Msg(k).ok
        /\ lstate' = [lstate EXCEPT ![k] = "authed"]
        /\ game' = IF link[s] # NoLink THEN GamesWithout(s) ELSE game
        /\ link' = [link EXCEPT ![s] = k]
        /\ gamenum' = [gamenum EXCEPT ![s] = 0]
        /\ maxgame' = [maxgame EXCEPT ![s] = 0]
        /\ Receive(k)
        /\ UNCHANGED <<clientVars, gq, sq, toGs, hosted, budget>>

(* Mutant of OnSetGsInfo: the queue is not told of the new room.           *)
OnSetGsInfoQuietly(k) ==
    /\ Valid(k, "setgsinfo")
    /\ maxgame' = [maxgame EXCEPT ![ServerOf[k]] = Msg(k).maxgame]
    /\ Receive(k)
    /\ UNCHANGED <<clientVars, gq, game, sq, link, gamenum, lstate, toGs, hosted, budget>>

OnSetGsInfo(k) ==
    LET s == ServerOf[k]
    IN  /\ Valid(k, "setgsinfo")
        /\ maxgame' = [maxgame EXCEPT ![s] = Msg(k).maxgame]
        /\ StartServing(Msg(k).maxgame - gamenum[s])
        /\ Receive(k)
        /\ UNCHANGED <<clientVars, gq, game, sq, link, gamenum, lstate, toGs, hosted>>

(* on_d2gs_creategamereply: a reply counts only while its request, the     *)
(* client and the game are still known; the request goes in any case.      *)
Answers(q) == q \in DOMAIN sq /\ Alive(sq[q].clientid) /\ sq[q].gameid \in DOMAIN game

OnCreateGameReply(k) ==
    LET q == Msg(k).seqno
        i == sq[q].gameid
    IN  /\ Valid(k, "creategamereply")
        /\ sq' = Without(sq, {q})
        /\ \/ /\ ~Answers(q)
              /\ UNCHANGED <<game, gamenum, budget>>
           \/ /\ Answers(q) /\ Msg(k).ok
              /\ game' = [game EXCEPT ![i].created = TRUE, ![i].gid = Msg(k).gid]
              /\ UNCHANGED <<gamenum, budget>>
           \/ /\ Answers(q) /\ ~Msg(k).ok
              /\ DestroyGame(i)
        /\ Receive(k)
        /\ UNCHANGED <<clientVars, gq, link, maxgame, lstate, toGs, hosted>>

(* on_d2gs_joingamereply only passes the answer on.                        *)
OnJoinGameReply(k) ==
    /\ Valid(k, "joingamereply")
    /\ sq' = Without(sq, {Msg(k).seqno})
    /\ Receive(k)
    /\ UNCHANGED <<clientVars, gq, game, serverVars, lstate, toGs, hosted, budget>>

OnUpdateGameInfo(k) ==
    /\ Valid(k, "updategameinfo")
    /\ LET found == GamesWithGid(ServerOf[k], Msg(k).gid)
       IN  \/ found = {} /\ UNCHANGED game
           \/ \E i \in found :
                game' = [game EXCEPT ![i].chars =
                           IF Msg(k).enter THEN @ \cup {Msg(k).char}
                                           ELSE @ \ {Msg(k).char}]
    /\ Receive(k)
    /\ UNCHANGED <<clientVars, gq, sq, serverVars, lstate, toGs, hosted, budget>>

(* Mutant of OnCloseGame: the game stays on the list.                      *)
OnCloseGameIgnored(k) ==
    /\ Valid(k, "closegame")
    /\ Receive(k)
    /\ UNCHANGED <<clientVars, gq, game, sq, serverVars, lstate, toGs, hosted, budget>>

OnCloseGame(k) ==
    /\ Valid(k, "closegame")
    /\ LET found == GamesWithGid(ServerOf[k], Msg(k).gid)
       IN  \/ found = {} /\ UNCHANGED <<game, gamenum, budget>>
           \/ \E i \in found : DestroyGame(i)
    /\ Receive(k)
    /\ UNCHANGED <<clientVars, gq, sq, link, maxgame, lstate, toGs, hosted>>

(* The connection of a game server is lost or idles too long ...           *)
LinkDrop(k) ==
    /\ Idle
    /\ lstate[k] \in {"connected", "authed"}
    /\ lstate' = [lstate EXCEPT ![k] = "destroy"]
    /\ UNCHANGED <<clientVars, gq, game, sq, serverVars, toGs, fromGs, hosted, budget>>

(* ... and d2cs_conn_destroy deactivates the server, if this is the        *)
(* connection it is active on.                                             *)
LinkReap(k) ==
    LET s == ServerOf[k]
    IN  /\ Idle
        /\ lstate[k] = "destroy"
        /\ lstate' = [lstate EXCEPT ![k] = "gone"]
        /\ toGs' = [toGs EXCEPT ![k] = <<>>]
        /\ fromGs' = [fromGs EXCEPT ![k] = <<>>]
        /\ hosted' = [hosted EXCEPT ![k] = {}]
        /\ \/ /\ link[s] # k
              /\ UNCHANGED <<game, serverVars>>
           \/ /\ link[s] = k
              /\ game' = GamesWithout(s)
              /\ link' = [link EXCEPT ![s] = NoLink]
              /\ gamenum' = [gamenum EXCEPT ![s] = 0]
              /\ maxgame' = [maxgame EXCEPT ![s] = 0]
        /\ UNCHANGED <<clientVars, gq, sq, budget>>

-----------------------------------------------------------------------------
(* The game servers.                                                       *)

(* on_d2gs_initconn: the connection comes from a listed address.           *)
LinkConnect(k) ==
    /\ Idle
    /\ lstate[k] = "gone"
    /\ lstate' = [lstate EXCEPT ![k] = "connected"]
    /\ UNCHANGED <<clientVars, gq, game, sq, serverVars, toGs, fromGs, hosted, budget>>

Says(k, m) == fromGs' = [fromGs EXCEPT ![k] = Append(@, m)]

GsVars == <<clientVars, gq, game, sq, serverVars, lstate, budget>>

GsAuthReply(k, ok) ==
    /\ Idle
    /\ lstate[k] = "connected"
    /\ fromGs[k] = <<>>
    /\ Says(k, [type |-> "authreply", ok |-> ok])
    /\ UNCHANGED <<GsVars, toGs, hosted>>

MayVolunteer(k) == Idle /\ lstate[k] = "authed" /\ Len(fromGs[k]) < MaxMsgs

GsSetInfo(k, n) ==
    /\ MayVolunteer(k)
    /\ Says(k, [type |-> "setgsinfo", maxgame |-> n])
    /\ UNCHANGED <<GsVars, toGs, hosted>>

Asked(k, type) ==
    Idle /\ lstate[k] = "authed" /\ toGs[k] # <<>> /\ Head(toGs[k]).type = type

GsRefuse(k) ==
    /\ Asked(k, "creategamereq")
    /\ toGs' = [toGs EXCEPT ![k] = Tail(@)]
    /\ Says(k, [type |-> "creategamereply", seqno |-> Head(toGs[k]).seqno,
                ok |-> FALSE, gid |-> 0])
    /\ UNCHANGED <<GsVars, hosted>>

GsCreate(k) ==
    /\ Asked(k, "creategamereq")
    /\ Cardinality(hosted[k]) < GsRoom
    /\ toGs' = [toGs EXCEPT ![k] = Tail(@)]
    /\ \E gid \in Fresh(hosted[k]) :
          /\ hosted' = [hosted EXCEPT ![k] = @ \cup {gid}]
          /\ Says(k, [type |-> "creategamereply", seqno |-> Head(toGs[k]).seqno,
                      ok |-> TRUE, gid |-> gid])
    /\ UNCHANGED GsVars

GsJoin(k) ==
    /\ Asked(k, "joingamereq")
    /\ toGs' = [toGs EXCEPT ![k] = Tail(@)]
    /\ Says(k, [type |-> "joingamereply", seqno |-> Head(toGs[k]).seqno])
    /\ UNCHANGED <<GsVars, hosted>>

GsPlayer(k, gid, p, enter) ==
    /\ MayVolunteer(k)
    /\ Says(k, [type |-> "updategameinfo", gid |-> gid, char |-> p, enter |-> enter])
    /\ UNCHANGED <<GsVars, toGs, hosted>>

GsClose(k, gid) ==
    /\ MayVolunteer(k)
    /\ hosted' = [hosted EXCEPT ![k] = @ \ {gid}]
    /\ Says(k, [type |-> "closegame", gid |-> gid])
    /\ UNCHANGED <<GsVars, toGs>>

-----------------------------------------------------------------------------
ClientStep(c) ==
    \/ ClientConnect(c)
    \/ ClientDrop(c)
    \/ ClientReap(c)
    \/ CancelCreate(c)
    \/ \E x \in Kinds : ClientSwitchChar(c, x)
    \/ \E n \in Names : CreateGame(c, n) \/ EnqueueGame(c, n) \/ LeaveQueueByAsking(c, n)
    \/ \E i \in DOMAIN game : JoinGame(c, i)

TimerStep ==
    \/ \E q \in DOMAIN sq : SqExpire(q)
    \/ \E i \in DOMAIN game : VoidPurge(i)

OnGsMessage(k) ==
    \/ OnMismatch(k)
    \/ OnAuthRefused(k) \/ OnAuthAccepted(k)
    \/ OnSetGsInfo(k)
    \/ OnCreateGameReply(k) \/ OnJoinGameReply(k)
    \/ OnUpdateGameInfo(k) \/ OnCloseGame(k)

GsAnswer(k) == GsJoin(k) \/ GsRefuse(k) \/ GsCreate(k)

GsStep(k) ==
    \/ LinkConnect(k)
    \/ \E ok \in BOOLEAN : GsAuthReply(k, ok)
    \/ \E n \in Capacities : GsSetInfo(k, n)
    \/ GsAnswer(k)
    \/ \E gid \in hosted[k] :
          \/ GsClose(k, gid)
          \/ \E p \in Players, enter \in BOOLEAN : GsPlayer(k, gid, p, enter)

Next ==
    \/ ServeQueue
    \/ TimerStep
    \/ \E c \in Clients : ClientStep(c)
    \/ \E k \in Links : OnGsMessage(k) \/ LinkDrop(k) \/ LinkReap(k) \/ GsStep(k)

Spec == Init /\ [][Next]_vars

-----------------------------------------------------------------------------
(* Fairness.  The event loop keeps running: it serves the queue, reaps the *)
(* dead, reads what arrived and, when IdlePurge is set, destroys games     *)
(* that stay empty.  A game server answers what it is asked and closes     *)
(* every game in the end.                                                  *)

LoopFairness ==
    /\ WF_vars(ServeQueue)
    /\ \A c \in Clients : WF_vars(ClientReap(c))
    /\ \A k \in Links : WF_vars(OnGsMessage(k)) /\ WF_vars(LinkReap(k))

(* Enough game ids for the bounds: each is in use by a request or a game.  *)
Ids == 1 .. 2 * (MaxSq + Cardinality(Clients))

PurgeFairness == \A i \in Ids :
                    WF_vars(i \in DOMAIN game /\ VoidPurge(i))

GsFairness == \A k \in Links :
                 /\ WF_vars(GsAnswer(k))
                 /\ WF_vars(\E gid \in hosted[k] : GsClose(k, gid))

FairSpec == Spec /\ LoopFairness /\ PurgeFairness /\ GsFairness

-----------------------------------------------------------------------------
(* Properties.                                                             *)

(* Every variable has its type.                                            *)
TypeOK ==
    /\ cstate \in [Clients -> {"char", "destroy", "gone"}]
    /\ kind \in [Clients -> Kinds]
    /\ gamequeue \in [Clients -> Names \cup {NoName}]
    /\ gq \in Seq(Entry)
    /\ DOMAIN game \subseteq Nat /\ \A i \in DOMAIN game : game[i] \in Game
    /\ DOMAIN sq \subseteq Nat /\ \A q \in DOMAIN sq : sq[q] \in Request
    /\ link \in [Servers -> Links \cup {NoLink}]
    /\ gamenum \in [Servers -> Nat]
    /\ maxgame \in [Servers -> Nat]
    /\ lstate \in [Links -> {"gone", "connected", "authed", "destroy"}]
    /\ toGs \in [Links -> Seq(ToGsMsg)]
    /\ fromGs \in [Links -> Seq(FromGsMsg)]
    /\ hosted \in [Links -> SUBSET Nat]
    /\ budget \in Nat

(* d2cs never counts the games of a server: gamenum is incremented,        *)
(* decremented and reset in five places (handle_d2cs.cpp:285,              *)
(* game.cpp:221, d2gs.cpp:312 and 345).  It is nevertheless exact.         *)
GamenumExact == \A s \in Servers : gamenum[s] = Cardinality(GamesOn(s))

(* No game outlives the activation of the server it was put on: d2gs.cpp   *)
(* frees servers and reuses connections while games point at them.         *)
HostedOnActive == \A i \in DOMAIN game : link[game[i].d2gs] # NoLink

(* The queue and the gamequeue pointers of the connections agree: an entry *)
(* belongs to a connection not yet destroyed, which points at it, and a    *)
(* connection that points at an entry has exactly one.                     *)
QueueLinked ==
    /\ \A j \in DOMAIN gq :
          LET c == gq[j].clientid
          IN  Alive(c) /\ gamequeue[c] = gq[j].gamename
    /\ \A c \in Clients : gamequeue[c] # NoName =>
          Cardinality({j \in DOMAIN gq : gq[j].clientid = c}) = 1

(* Room and queue match.  gqlist_check_creategame never tries a request    *)
(* without a server to put it on: the client would be dropped from the     *)
(* queue unanswered.  And between events nobody waits while a server has   *)
(* room.                                                                   *)
RoomServed ==
    /\ budget > 0 => Open # {}
    /\ Idle /\ gq # <<>> => Open = {}

(* A pending request whose game still exists is on its way on the          *)
(* connection the game's server is active on, and on no other, so the      *)
(* answer d2cs finds by seqno alone is about that game on that server.     *)
RequestOnItsLink ==
    \A q \in DOMAIN sq : sq[q].gameid \in DOMAIN game =>
        LET k == link[game[sq[q].gameid].d2gs]
        IN  /\ lstate[k] = "authed" => q \in InFlight(k)
            /\ \A l \in Links \ {k} : q \notin InFlight(l)

(* A game d2cs offers to clients runs on the server it names, unless the   *)
(* news of its end are on their way; no two such games share an id.        *)
OfferedGamesRun ==
    \A i \in DOMAIN game : game[i].created =>
        LET k == link[game[i].d2gs]
        IN  /\ lstate[k] = "authed" =>
                 \/ game[i].gid \in hosted[k]
                 \/ \E j \in DOMAIN fromGs[k] :
                       fromGs[k][j] = [type |-> "closegame", gid |-> game[i].gid]
            /\ GamesWithGid(game[i].d2gs, game[i].gid) = {i}

(* Room goes to the client at the head of the queue, if there is a queue,  *)
(* and nobody gets ahead of a client that waits: gqlist_head is appended   *)
(* to, removed from in the middle and served from the front by different   *)
(* handlers.                                                               *)
Ahead(queue, a, b) ==
    \E i, j \in DOMAIN queue : i < j /\ queue[i].clientid = a /\ queue[j].clientid = b

NoOvertaking ==
    [][/\ \A q \in DOMAIN sq' \ DOMAIN sq :
             sq'[q].gameid \notin DOMAIN game /\ gq # <<>> =>
                sq'[q].clientid = Head(gq).clientid
       /\ \A a, b \in Clients :
             gamequeue[a] # NoName /\ Ahead(gq', b, a) => Ahead(gq, b, a)]_vars

(* A game with characters in it leaves the list only because its server    *)
(* closed it or is lost: closegame finds the game by an id of the server,  *)
(* the purge by a count kept from updategameinfo.                          *)
PlayedGameKept ==
    [][\A i \in DOMAIN game \ DOMAIN game' :
          game[i].created /\ game[i].chars # {} =>
             LET k == link[game[i].d2gs]
             IN  \/ link'[game[i].d2gs] # k
                 \/ fromGs[k] # <<>> /\ Msg(k) = [type |-> "closegame", gid |-> game[i].gid]]_vars

(* The games and the announced maxgame of d2cs behave as GameSlots: d2cs   *)
(* never gives a server more games than it announced places for.           *)
Slots == INSTANCE GameSlots WITH
            hosting  <- [i \in DOMAIN game |-> game[i].d2gs],
            capacity <- maxgame

SlotsSpec == Slots!Spec

(* A game that was never confirmed by its server does not keep its place   *)
(* for ever.                                                               *)
Unconfirmed(i) == i \in DOMAIN game /\ ~game[i].created

PlacesReclaimed ==
    \A i \in Ids : Unconfirmed(i) ~> ~Unconfirmed(i)

(* With a server that stays up, every request gets out of the queue.       *)
Waiting(c) == gamequeue[c] # NoName

Serving(s) == link[s] # NoLink /\ lstate[link[s]] = "authed" /\ maxgame[s] > 0

QueueServed ==
    (\E s \in Servers : <>[]Serving(s)) => \A c \in Clients : Waiting(c) ~> ~Waiting(c)

=============================================================================
