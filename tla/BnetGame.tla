------------------------------ MODULE BnetGame ------------------------------
(***************************************************************************)
(* Games of bnetd (src/pvpgn/src/bnetd/game.cpp, connection.cpp,           *)
(* handle_bnet.cpp).                                                       *)
(*                                                                         *)
(* Clients create a game under a name, join it while it has not started,   *)
(* set its status and leave it, by saying so, by reporting its results or  *)
(* by losing their connection.  A game has one slot for each player it     *)
(* ever had: a slot whose player left keeps the account and the report,    *)
(* and the next one to join takes the first such slot.  A player who       *)
(* leaves is found by account, not by connection.  When the last one       *)
(* leaves, the results are evaluated, the accounts are credited and the    *)
(* game is destroyed.                                                      *)
(*                                                                         *)
(* All games are of one client, so a name stands for a name and a client   *)
(* tag.  The actions are parts of the steps of module Bnetd.               *)
(***************************************************************************)
EXTENDS BnetConn, Naturals, FiniteSets, Sequences, SequencesExt

CONSTANTS
    Games,          \* places for games
    NoGame,         \* a NULL game
    GameNames,      \* names of games
    Statuses,       \* statuses that clients set
    Results,        \* results that clients report
    Novices         \* accounts with less than ten won games

ASSUME GameAssumption ==
    /\ NoGame \notin Games /\ Novices \subseteq Accounts
    /\ Statuses \subseteq {"open", "full", "started", "done"}

Verdicts == Results \cup {"win", "loss", "draw", "disconnect", "none"}

VARIABLES
    game,           \* the games in the list
    cgame,          \* cgame[c]: protocol.game
    credited        \* what the game that ended in the last step gave to whom, by slot

gameVars == <<game, cgame, credited>>

\* An entry of the arrays connections, players and reported_results; no report is <<>>.
Slot == [acct : Accounts, conn : Conns \cup {NoConn}, report : Seq(Verdicts)]

Game == [name : GameNames, ladder : BOOLEAN,
         status : {"open", "full", "started", "done"},
         slots : Seq(Slot), ref : Nat, owner : Conns \cup {NoConn}]

GameTypeOK ==
    /\ DOMAIN game \subseteq Games
    /\ \A g \in DOMAIN game : game[g] \in Game
    /\ cgame \in [Conns -> Games \cup {NoGame}]
    /\ credited \subseteq [slot : Nat, acct : Accounts, result : Verdicts]

GameInit ==
    /\ game = [g \in {} |-> NoGame]
    /\ cgame = [c \in Conns |-> NoGame]
    /\ credited = {}

Put(G, g, r) == [h \in DOMAIN G \cup {g} |-> IF h = g THEN r ELSE G[h]]
Drop(G, g) == [h \in DOMAIN G \ {g} |-> G[h]]

First(S) == CHOOSE i \in S : \A j \in S : i <= j

\* gamelist_find_game_available: the games of this name that can be joined.
Available(n) == {g \in DOMAIN game : game[g].name = n /\ game[g].status \in {"open", "full"}}

\* The slots of s whose player is there, and those where that is account a.
Held(s) == {i \in DOMAIN s : s[i].conn # NoConn}
HeldBy(s, a) == {i \in Held(s) : s[i].acct = a}

\* game_choose_host
Host(s, old) == IF Held(s) = {} THEN old ELSE s[First(Held(s))].conn

\* game_add_player lets c into the game r; pw: is the password right?
Admits(r, c, pw) == pw /\ ~(r.ladder /\ cacct[c] \in Novices)

\* Mutant of Joined: who takes the place of one that left is not counted.
JoinedUncounted(r, c) ==
    LET s == r.slots
        free == DOMAIN s \ Held(s)
        new == [acct |-> cacct[c], conn |-> c, report |-> <<>>]
        s2 == IF free = {} THEN Append(s, new) ELSE [s EXCEPT ![First(free)] = new]
    IN [r EXCEPT !.slots = s2, !.ref = IF free = {} THEN @ + 1 ELSE @, !.owner = Host(s2, @)]

\* game_add_player
Joined(r, c) ==
    LET s == r.slots
        free == DOMAIN s \ Held(s)
        new == [acct |-> cacct[c], conn |-> c, report |-> <<>>]
        s2 == IF free = {} THEN Append(s, new) ELSE [s EXCEPT ![First(free)] = new]
    IN [r EXCEPT !.slots = s2, !.ref = @ + 1, !.owner = Host(s2, @)]

\* game_del_player for c in the game r, where others stay: the first slot of its account.
LeftBy(r, c) ==
    LET mine == HeldBy(r.slots, cacct[c])
        s2 == [r.slots EXCEPT ![First(mine)].conn = NoConn]
    IN IF mine = {} THEN r
       ELSE [r EXCEPT !.slots = s2, !.ref = @ - 1, !.owner = Host(s2, @)]

\* game_evaluate_results: what the reports say of slot i.
Votes(s, i, v) ==
    Cardinality({j \in DOMAIN s : s[j].report # <<>> /\ s[j].report[i] = v})

Verdict(s, i) ==
    LET wins == Votes(s, i, "win")      losses == Votes(s, i, "loss")
        draws == Votes(s, i, "draw")    discs == Votes(s, i, "disconnect")
    IN CASE wins + losses + draws + discs = 0 -> "none"
         [] discs >= draws /\ discs >= losses /\ discs >= wins -> "disconnect"
         [] losses >= wins /\ losses >= draws -> "loss"
         [] draws >= wins -> "draw"
         [] OTHER -> "win"

\* game_report: nothing when some, but not all, are said to have had a draw.
Credits(s) ==
    LET given == {[slot |-> i, acct |-> s[i].acct, result |-> Verdict(s, i)] : i \in DOMAIN s}
        real == {e \in given : e.result # "none"}
        drawn == {e \in real : e.result = "draw"}
    IN IF drawn \in {{}, real} THEN real ELSE {}

\* Is c the last in its game?
LastOut(G, c) ==
    /\ cgame[c] # NoGame
    /\ HeldBy(G[cgame[c]].slots, cacct[c]) # {}
    /\ G[cgame[c]].ref < 2

\* The games once c has left its own in G, if it is in one.
After(G, c) ==
    IF cgame[c] = NoGame THEN G
    ELSE IF LastOut(G, c) THEN Drop(G, cgame[c])
    ELSE Put(G, cgame[c], LeftBy(G[cgame[c]], c))

\* And what its end gives.
CreditedAfter(G, c) ==
    IF LastOut(G, c) THEN Credits(G[cgame[c]].slots) ELSE {}

\* A step of no game.
NoGameStep == UNCHANGED <<game, cgame>> /\ credited' = {}

\* conn_set_game with no name: c leaves its game, if it is in one.
Quit(c) ==
    /\ game' = After(game, c)
    /\ credited' = CreditedAfter(game, c)
    /\ cgame' = [cgame EXCEPT ![c] = NoGame]

(***************************************************************************)
(* conn_set_game with the name of the available game g.  A client in a     *)
(* game of that name stays where it is; one in another game leaves that.   *)
(***************************************************************************)
Join(c, g, pw) ==
    IF cgame[c] # NoGame /\ game[cgame[c]].name = game[g].name
    THEN NoGameStep
    ELSE LET G == After(game, c) IN
         /\ credited' = CreditedAfter(game, c)
         /\ IF Admits(G[g], c, pw)
            THEN /\ game' = Put(G, g, Joined(G[g], c))
                 /\ cgame' = [cgame EXCEPT ![c] = g]
            ELSE /\ game' = G
                 /\ cgame' = [cgame EXCEPT ![c] = NoGame]

\* Mutant of Taken: a game of the other type does not count.
TakenByType(n, ladder) == {g \in Available(n) : game[g].ladder = ladder} # {}

\* game_create: is there a game of that name already, of whatever type?
Taken(n, ladder) == Available(n) # {}

(***************************************************************************)
(* conn_set_game with a name no available game has: game_create, and c     *)
(* enters it.  A game that refuses its creator stays in the list.          *)
(***************************************************************************)
Create(c, g, n, ladder, status) ==
    LET new == [name |-> n, ladder |-> ladder, status |-> "open",
                slots |-> <<>>, ref |-> 0, owner |-> NoConn]
        enters == Admits(new, c, TRUE)
    IN
    /\ cgame[c] = NoGame /\ ~Taken(n, ladder) /\ g \in Games \ DOMAIN game
    /\ game' = Put(game, g, IF enters THEN [Joined(new, c) EXCEPT !.status = status] ELSE new)
    /\ cgame' = [cgame EXCEPT ![c] = IF enters THEN g ELSE NoGame]
    /\ credited' = {}

\* Mutant of Settable: any status can be set in a game that has not ended.
SettableUntilDone(old, new) == old # "done"

\* game_set_status: a game that has started or ended does not go back.
Settable(old, new) ==
    /\ old = "started" => new \notin {"open", "full"}
    /\ old # "done"

SetStatus(c, s) ==
    LET r == game[cgame[c]] IN
    /\ cgame[c] # NoGame
    /\ game' = [game EXCEPT ![cgame[c]].status = IF Settable(r.status, s) THEN s ELSE @]
    /\ UNCHANGED cgame
    /\ credited' = {}

\* game_set_reported_results: the first slot of account a reports f, if it has not reported.
Reporting(r, a, f) ==
    LET i == First({j \in DOMAIN r.slots : r.slots[j].acct = a}) IN
    IF r.slots[i].report = <<>> THEN [r EXCEPT !.slots[i].report = f] ELSE r

\* The slots that a report speaks of: it names accounts, and gets the first slot of each.
Spoken(s) == {i \in DOMAIN s : \A j \in 1..(i - 1) : s[j].acct # s[i].acct}

\* The reports of a client of account a that are kept: a result for itself, for others too or not.
Reports(s, a) ==
    {f \in [DOMAIN s -> Results \cup {"none"}] :
        \A i \in DOMAIN s : /\ i \notin Spoken(s) => f[i] = "none"
                            /\ i \in Spoken(s) /\ s[i].acct = a => f[i] # "none"}

(***************************************************************************)
(* GAME_REPORT of a game that has started: the results are kept, unless    *)
(* the client's own is missing, and the client leaves the game.            *)
(***************************************************************************)
Report(c) ==
    LET g == cgame[c] IN
    /\ g # NoGame /\ game[g].status \in {"started", "done"}
    /\ \E G \in {game} \cup {Put(game, g, Reporting(game[g], cacct[c], f)) :
                               f \in Reports(game[g].slots, cacct[c])} :
          game' = After(G, c) /\ credited' = CreditedAfter(G, c)
    /\ cgame' = [cgame EXCEPT ![c] = NoGame]

(***************************************************************************)
(* conn_destroy: who loses the connection while the game runs is reported  *)
(* by the server (game_set_self_report), in every slot of the account.     *)
(***************************************************************************)
Lost(c) ==
    LET g == cgame[c]
        f == [i \in DOMAIN game[g].slots |->
                 IF game[g].slots[i].acct = cacct[c] THEN "disconnect" ELSE "none"]
        G == IF g # NoGame /\ game[g].status = "started"
             THEN Put(game, g, Reporting(game[g], cacct[c], f)) ELSE game
    IN
    /\ game' = After(G, c)
    /\ credited' = CreditedAfter(G, c)
    /\ cgame' = [cgame EXCEPT ![c] = NoGame]
=============================================================================
