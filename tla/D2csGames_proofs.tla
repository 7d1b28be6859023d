-------------------------- MODULE D2csGames_proofs --------------------------
(***************************************************************************)
(* Proofs about D2csGames, for any number of clients, names, servers and   *)
(* connections and any bounds.                                             *)
(***************************************************************************)
EXTENDS D2csGames, FiniteSetTheorems, SequenceTheorems, TLAPS

(* What Without makes of a function.                                      *)
LEMMA WithoutFacts ==
    ASSUME NEW f, NEW S
    PROVE  /\ DOMAIN Without(f, S) = DOMAIN f \ S
           /\ \A y \in DOMAIN f \ S : Without(f, S)[y] = f[y]
    BY DEF Without, Restrict

(* The messages d2cs and the game servers send have their types.           *)
LEMMA MessageTypes ==
    /\ \A q \in Nat : [type |-> "creategamereq", seqno |-> q] \in ToGsMsg
    /\ \A q, g \in Nat : [type |-> "joingamereq", seqno |-> q, gid |-> g] \in ToGsMsg
    /\ \A ok \in BOOLEAN : [type |-> "authreply", ok |-> ok] \in FromGsMsg
    /\ \A n \in Capacities : [type |-> "setgsinfo", maxgame |-> n] \in FromGsMsg
    /\ \A q, g \in Nat, ok \in BOOLEAN :
         [type |-> "creategamereply", seqno |-> q, ok |-> ok, gid |-> g] \in FromGsMsg
    /\ \A q \in Nat : [type |-> "joingamereply", seqno |-> q] \in FromGsMsg
    /\ \A g \in Nat, p \in Players, b \in BOOLEAN :
         [type |-> "updategameinfo", gid |-> g, char |-> p, enter |-> b] \in FromGsMsg
    /\ \A g \in Nat : [type |-> "closegame", gid |-> g] \in FromGsMsg
    BY DEF ToGsMsg, FromGsMsg

LEMMA MessageFields ==
    /\ \A m \in ToGsMsg : m.seqno \in Nat
    /\ \A m \in FromGsMsg :
         /\ m.type = "setgsinfo" => m.maxgame \in Nat
         /\ m.type \in {"creategamereply", "joingamereply"} => m.seqno \in Nat
         /\ m.type = "creategamereply" => m.gid \in Nat
         /\ m.type = "updategameinfo" => m.char \in Players
    BY CapacitiesAssumption DEF ToGsMsg, FromGsMsg

LEMMA SeqFacts ==
    ASSUME NEW T, NEW s \in Seq(T)
    PROVE  /\ \A e \in T : Append(s, e) \in Seq(T)
           /\ s # <<>> => Head(s) \in T /\ Tail(s) \in Seq(T)
           /\ \A i \in DOMAIN s : RemoveAt(s, i) \in Seq(T)
    BY DEF RemoveAt

LEMMA FreshFacts == ASSUME NEW S, NEW n \in Fresh(S) PROVE n \in Nat /\ n \notin S
    BY DEF Fresh

-----------------------------------------------------------------------------
(* The inductive invariant.  gamenum stays a natural number only because   *)
(* it counts the games, and clearing an inactive server keeps the count    *)
(* only because no game is left on it.                                     *)
CountInv == IsFiniteSet(DOMAIN game) /\ GamenumExact /\ HostedOnActive

(* While the queue is served there is a request to serve.                  *)
LoopInv == budget > 0 => gq # <<>>

IInv == TypeOK /\ CountInv /\ LoopInv

LEMMA GamesOnFacts ==
    ASSUME CountInv, NEW s \in Servers
    PROVE  IsFiniteSet(GamesOn(s)) /\ Cardinality(GamesOn(s)) \in Nat
    <1>1. GamesOn(s) \subseteq DOMAIN game
          BY DEF GamesOn
    <1> QED BY <1>1, FS_Subset, FS_CardinalityType DEF CountInv

(* A server with a game has a positive count.                              *)
LEMMA CountedGame ==
    ASSUME IInv, NEW i \in DOMAIN game
    PROVE  game[i].d2gs \in Servers /\ gamenum[game[i].d2gs] - 1 \in Nat
    <1> DEFINE s == game[i].d2gs
    <1>1. s \in Servers
          BY DEF IInv, TypeOK, Game
    <1>2. i \in GamesOn(s)
          BY DEF GamesOn
    <1>3. Cardinality(GamesOn(s)) \in Nat /\ Cardinality(GamesOn(s)) # 0
          BY <1>1, <1>2, GamesOnFacts, FS_EmptySet DEF IInv
    <1> QED BY <1>1, <1>3 DEF IInv, CountInv, GamenumExact

LEMMA ChosenFacts ==
    ASSUME TypeOK, NEW s \in Chosen
    PROVE  s \in Servers /\ link[s] \in Links
    BY DEF TypeOK, Chosen, Open

(* Destroying a game and putting one on a server keep the types.           *)
LEMMA DestroyType ==
    ASSUME IInv, NEW i \in DOMAIN game, DestroyGame(i)
    PROVE  /\ DOMAIN game' \subseteq Nat /\ \A j \in DOMAIN game' : game'[j] \in Game
           /\ gamenum' \in [Servers -> Nat]
           /\ budget' \in Nat
    <1>1. DOMAIN game' = DOMAIN game \ {i} /\ \A j \in DOMAIN game' : game'[j] = game[j]
          <2>1. game' = Without(game, {i})
                BY DEF DestroyGame
          <2>2. /\ DOMAIN Without(game, {i}) = DOMAIN game \ {i}
                /\ \A j \in DOMAIN game \ {i} : Without(game, {i})[j] = game[j]
                BY WithoutFacts
          <2> QED BY ONLY <2>1, <2>2
    <1>2. gamenum' \in [Servers -> Nat]
          BY CountedGame DEF DestroyGame, IInv, TypeOK
    <1>3. budget' \in Nat
          BY CountedGame DEF DestroyGame, StartServing, IInv, TypeOK
    <1> QED BY <1>1, <1>2, <1>3 DEF IInv, TypeOK

LEMMA RequestAdded ==
    ASSUME TypeOK, NEW c \in Clients, NEW i \in Nat, NEW q \in Nat,
           sq' = With(sq, q, [clientid |-> c, gameid |-> i])
    PROVE  DOMAIN sq' \subseteq Nat /\ \A r \in DOMAIN sq' : sq'[r] \in Request
    <1> DEFINE new == [clientid |-> c, gameid |-> i]
    <1>1. new \in Request
          BY DEF Request
    <1> HIDE DEF new
    <1>2. sq' = With(sq, q, new)
          BY DEF new
    <1>3. /\ DOMAIN sq' = DOMAIN sq \cup {q}
          /\ sq'[q] = new
          /\ \A r \in DOMAIN sq \ {q} : sq'[r] = sq[r]
          BY <1>2 DEF With
    <1> QED BY <1>1, <1>3 DEF TypeOK

LEMMA PlaceType ==
    ASSUME IInv, NEW c \in Clients, NEW n \in Names, PlaceGame(c, n)
    PROVE  /\ DOMAIN game' \subseteq Nat /\ \A j \in DOMAIN game' : game'[j] \in Game
           /\ gamenum' \in [Servers -> Nat]
           /\ DOMAIN sq' \subseteq Nat /\ \A q \in DOMAIN sq' : sq'[q] \in Request
           /\ toGs' \in [Links -> Seq(ToGsMsg)]
    <1> PICK s \in Chosen, i \in Fresh(UsedGameIds), q \in Fresh(UsedSeqnos) :
            /\ game' = With(game, i, [name |-> n, d2gs |-> s, created |-> FALSE,
                                      gid |-> 0, chars |-> {}])
            /\ gamenum' = [gamenum EXCEPT ![s] = @ + 1]
            /\ sq' = With(sq, q, [clientid |-> c, gameid |-> i])
            /\ toGs' = [toGs EXCEPT ![link[s]] =
                           Append(@, [type |-> "creategamereq", seqno |-> q])]
        BY DEF PlaceGame, Send
    <1>1. i \in Nat /\ q \in Nat /\ s \in Servers /\ link[s] \in Links
          BY FreshFacts, ChosenFacts DEF IInv
    <1>2. DOMAIN game' \subseteq Nat /\ \A j \in DOMAIN game' : game'[j] \in Game
          <2> DEFINE new == [name |-> n, d2gs |-> s, created |-> FALSE,
                             gid |-> 0, chars |-> {}]
          <2>1. new \in Game
                BY <1>1 DEF Game
          <2> HIDE DEF new
          <2>2. game' = With(game, i, new)
                BY DEF new
          <2>3. /\ DOMAIN game' = DOMAIN game \cup {i}
                /\ game'[i] = new
                /\ \A j \in DOMAIN game \ {i} : game'[j] = game[j]
                BY <2>2 DEF With
          <2> QED BY <1>1, <2>1, <2>3 DEF IInv, TypeOK
    <1>3. DOMAIN sq' \subseteq Nat /\ \A r \in DOMAIN sq' : sq'[r] \in Request
          BY <1>1, RequestAdded DEF IInv
    <1>4. toGs' \in [Links -> Seq(ToGsMsg)]
          BY <1>1, MessageTypes, SeqFacts DEF IInv, TypeOK
    <1>5. gamenum' \in [Servers -> Nat]
          BY <1>1 DEF IInv, TypeOK
    <1> QED BY <1>2, <1>3, <1>4, <1>5

LEMMA EntryType ==
    ASSUME TypeOK, NEW c \in Clients, DestroyEntryOf(c)
    PROVE  gq' \in Seq(Entry)
    BY SeqFacts DEF TypeOK, DestroyEntryOf

LEMMA EndpointType ==
    ASSUME TypeOK, NEW k \in Links
    PROVE  /\ ServerOf[k] \in Servers
           /\ Receive(k) /\ fromGs[k] # <<>> => fromGs' \in [Links -> Seq(FromGsMsg)]
           /\ \A m \in FromGsMsg : Says(k, m) => fromGs' \in [Links -> Seq(FromGsMsg)]
           /\ toGs[k] # <<>> => [toGs EXCEPT ![k] = Tail(@)] \in [Links -> Seq(ToGsMsg)]
    <1>1. toGs[k] \in Seq(ToGsMsg) /\ fromGs[k] \in Seq(FromGsMsg)
          BY DEF TypeOK
    <1>2. toGs[k] # <<>> => Tail(toGs[k]) \in Seq(ToGsMsg)
          BY <1>1, SeqFacts
    <1>3. fromGs[k] # <<>> => Tail(fromGs[k]) \in Seq(FromGsMsg)
          BY <1>1, SeqFacts
    <1>4. \A m \in FromGsMsg : Append(fromGs[k], m) \in Seq(FromGsMsg)
          BY <1>1, SeqFacts
    <1>5. ServerOf[k] \in Servers
          BY LinksAssumption
    <1>6. fromGs \in [Links -> Seq(FromGsMsg)] /\ toGs \in [Links -> Seq(ToGsMsg)]
          BY DEF TypeOK
    <1> QED BY ONLY <1>2, <1>3, <1>4, <1>5, <1>6 DEF Receive, Says

LEMMA GamesKept ==
    ASSUME TypeOK, NEW S, game' = Without(game, S)
    PROVE  DOMAIN game' \subseteq Nat /\ \A j \in DOMAIN game' : game'[j] \in Game
    <1>1. DOMAIN game' = DOMAIN game \ S /\ \A j \in DOMAIN game' : game'[j] = game[j]
          <2>1. /\ DOMAIN Without(game, S) = DOMAIN game \ S
                /\ \A j \in DOMAIN game \ S : Without(game, S)[j] = game[j]
                BY ONLY WithoutFacts
          <2>2. game' = Without(game, S)
                OBVIOUS
          <2> QED BY ONLY <2>1, <2>2
    <1>2. DOMAIN game \subseteq Nat /\ \A j \in DOMAIN game : game[j] \in Game
          BY DEF TypeOK
    <1> QED BY ONLY <1>1, <1>2

LEMMA RequestsKept ==
    ASSUME TypeOK, NEW S, sq' = Without(sq, S)
    PROVE  DOMAIN sq' \subseteq Nat /\ \A q \in DOMAIN sq' : sq'[q] \in Request
    <1>1. DOMAIN sq' = DOMAIN sq \ S /\ \A q \in DOMAIN sq' : sq'[q] = sq[q]
          <2>1. /\ DOMAIN Without(sq, S) = DOMAIN sq \ S
                /\ \A q \in DOMAIN sq \ S : Without(sq, S)[q] = sq[q]
                BY ONLY WithoutFacts
          <2>2. sq' = Without(sq, S)
                OBVIOUS
          <2> QED BY ONLY <2>1, <2>2
    <1>2. DOMAIN sq \subseteq Nat
          BY DEF TypeOK
    <1>3. \A q \in DOMAIN sq : sq[q] \in Request
          BY DEF TypeOK
    <1> QED BY ONLY <1>1, <1>2, <1>3

-----------------------------------------------------------------------------
(* Every action keeps the types.                                           *)
LEMMA ClientType ==
    ASSUME IInv, NEW c \in Clients, ClientStep(c)
    PROVE  TypeOK'
    <1> USE DEF netVars, serverVars, clientVars
    <1>1. CASE ClientConnect(c)
          BY <1>1 DEF ClientConnect, IInv, TypeOK
    <1>2. CASE ClientDrop(c)
          BY <1>2 DEF ClientDrop, IInv, TypeOK
    <1>3. CASE ClientReap(c)
          BY <1>3, EntryType DEF ClientReap, IInv, TypeOK
    <1>4. CASE CancelCreate(c)
          BY <1>4, EntryType DEF CancelCreate, IInv, TypeOK
    <1>5. ASSUME NEW x \in Kinds, ClientSwitchChar(c, x)
          PROVE  TypeOK'
          BY <1>5 DEF ClientSwitchChar, IInv, TypeOK
    <1>6. ASSUME NEW n \in Names, CreateGame(c, n)
          PROVE  TypeOK'
          <2>1. PlaceGame(c, n)
                BY <1>6 DEF CreateGame
          <2> QED BY <1>6, <2>1, PlaceType DEF CreateGame, IInv, TypeOK
    <1>7. ASSUME NEW n \in Names, EnqueueGame(c, n)
          PROVE  TypeOK'
          <2>1. [clientid |-> c, gamename |-> n] \in Entry
                BY DEF Entry
          <2>2. gq' \in Seq(Entry)
                BY <1>7, <2>1, SeqFacts DEF EnqueueGame, IInv, TypeOK
          <2> QED BY <1>7, <2>2 DEF EnqueueGame, IInv, TypeOK
    <1>8. ASSUME NEW n \in Names, LeaveQueueByAsking(c, n)
          PROVE  TypeOK'
          BY <1>8, EntryType DEF LeaveQueueByAsking, IInv, TypeOK
    <1>9. ASSUME NEW i \in DOMAIN game, JoinGame(c, i)
          PROVE  TypeOK'
          <2>1. i \in Nat /\ game[i].gid \in Nat
                BY DEF IInv, TypeOK, Game
          <2>2. PICK q \in Fresh(UsedSeqnos) :
                   /\ sq' = With(sq, q, [clientid |-> c, gameid |-> i])
                   /\ toGs' = [toGs EXCEPT ![link[game[i].d2gs]] =
                        Append(@, [type |-> "joingamereq", seqno |-> q, gid |-> game[i].gid])]
                BY <1>9 DEF JoinGame, Send
          <2>3. q \in Nat
                BY <2>2, FreshFacts
          <2>4. DOMAIN sq' \subseteq Nat /\ \A r \in DOMAIN sq' : sq'[r] \in Request
                BY <2>1, <2>2, <2>3, RequestAdded DEF IInv
          <2>5. toGs' \in [Links -> Seq(ToGsMsg)]
                BY <2>1, <2>2, <2>3, MessageTypes, SeqFacts DEF IInv, TypeOK
          <2> QED BY <1>9, <2>4, <2>5 DEF JoinGame, IInv, TypeOK
    <1> QED BY <1>1, <1>2, <1>3, <1>4, <1>5, <1>6, <1>7, <1>8, <1>9 DEF ClientStep

LEMMA ServeType ==
    ASSUME IInv, ServeQueue
    PROVE  TypeOK'
    <1> DEFINE e == Head(gq)
               c == e.clientid
    <1>1. e \in Entry /\ Tail(gq) \in Seq(Entry)
          BY SeqFacts DEF ServeQueue, LoopInv, IInv, TypeOK
    <1>2. c \in Clients /\ e.gamename \in Names
          BY <1>1 DEF Entry
    <1>3. budget' \in Nat /\ gamequeue' \in [Clients -> Names \cup {NoName}]
          <2>1. budget \in Nat /\ budget - 1 \in Nat
                BY DEF ServeQueue, IInv, TypeOK
          <2>2. budget' \in {0, budget - 1, budget}
                BY DEF ServeQueue
          <2>3. gamequeue' = gamequeue \/ gamequeue' = [gamequeue EXCEPT ![c] = NoName]
                BY DEF ServeQueue
          <2>4. gamequeue \in [Clients -> Names \cup {NoName}]
                BY DEF IInv, TypeOK
          <2>5. gamequeue' \in [Clients -> Names \cup {NoName}]
                BY <2>3, <2>4
          <2> QED BY <2>1, <2>2, <2>5
    <1>4. CASE PlaceGame(c, e.gamename)
          BY <1>1, <1>2, <1>3, <1>4, PlaceType DEF ServeQueue, IInv, TypeOK
    <1>5. CASE UNCHANGED <<game, gamenum, sq, toGs>>
          BY <1>1, <1>3, <1>5 DEF ServeQueue, IInv, TypeOK
    <1> QED BY <1>4, <1>5 DEF ServeQueue

LEMMA TimerType ==
    ASSUME IInv, TimerStep
    PROVE  TypeOK'
    <1> USE DEF netVars, serverVars, clientVars
    <1>1. ASSUME NEW q \in DOMAIN sq, SqExpire(q)
          PROVE  TypeOK'
          BY <1>1, RequestsKept DEF SqExpire, IInv, TypeOK
    <1>2. ASSUME NEW i \in DOMAIN game, VoidPurge(i)
          PROVE  TypeOK'
          <2>1. DestroyGame(i)
                BY <1>2 DEF VoidPurge
          <2> QED BY <1>2, <2>1, DestroyType DEF VoidPurge, IInv, TypeOK
    <1> QED BY <1>1, <1>2 DEF TimerStep

LEMMA MessageType ==
    ASSUME IInv, NEW k \in Links, OnGsMessage(k)
    PROVE  TypeOK'
    <1> USE DEF netVars, serverVars, clientVars
    <1>1. /\ ServerOf[k] \in Servers
          /\ fromGs' \in [Links -> Seq(FromGsMsg)]
          /\ Msg(k) \in FromGsMsg
          <2>1. fromGs[k] # <<>> /\ Receive(k)
                BY DEF OnGsMessage, OnMismatch, OnAuthRefused, OnAuthAccepted, OnSetGsInfo,
                       OnCreateGameReply, OnJoinGameReply, OnUpdateGameInfo, OnCloseGame,
                       Valid, Arrives
          <2> QED BY <2>1, EndpointType, SeqFacts DEF IInv, TypeOK, Msg
    <1> DEFINE s == ServerOf[k]
    <1>2. CASE OnMismatch(k)
          BY <1>1, <1>2 DEF OnMismatch, IInv, TypeOK
    <1>3. CASE OnAuthRefused(k)
          BY <1>1, <1>3 DEF OnAuthRefused, IInv, TypeOK
    <1>4. CASE OnAuthAccepted(k)
          <2>1. DOMAIN game' \subseteq Nat /\ \A j \in DOMAIN game' : game'[j] \in Game
                BY <1>4, GamesKept DEF OnAuthAccepted, GamesWithout, IInv, TypeOK
          <2> QED BY <1>1, <1>4, <2>1 DEF OnAuthAccepted, IInv, TypeOK
    <1>5. CASE OnSetGsInfo(k)
          <2>1. Msg(k).maxgame \in Nat
                BY <1>1, <1>5, MessageFields DEF OnSetGsInfo, Valid, Arrives, Msg
          <2>2. budget' \in Nat
                BY <1>1, <1>5, <2>1 DEF OnSetGsInfo, StartServing, IInv, TypeOK
          <2> QED BY <1>1, <1>5, <2>1, <2>2 DEF OnSetGsInfo, IInv, TypeOK
    <1>6. CASE OnCreateGameReply(k)
          <2> DEFINE q == Msg(k).seqno
                     i == sq[q].gameid
          <2>1. DOMAIN sq' \subseteq Nat /\ \A r \in DOMAIN sq' : sq'[r] \in Request
                BY <1>6, RequestsKept DEF OnCreateGameReply, IInv
          <2>2. CASE UNCHANGED <<game, gamenum, budget>>
                BY <1>1, <1>6, <2>1, <2>2 DEF OnCreateGameReply, IInv, TypeOK
          <2>3. CASE /\ Answers(q)
                     /\ game' = [game EXCEPT ![i].created = TRUE, ![i].gid = Msg(k).gid]
                     /\ UNCHANGED <<gamenum, budget>>
                <3>1. Msg(k).gid \in Nat
                      BY <1>1, <1>6, MessageFields DEF OnCreateGameReply, Valid, Arrives, Msg
                <3>2. \A j \in DOMAIN game' : game'[j] \in Game
                      <4>1. i \in DOMAIN game /\ \A j \in DOMAIN game : game[j] \in Game
                            BY <2>3 DEF Answers, IInv, TypeOK
                      <4> DEFINE new == [game[i] EXCEPT !.created = TRUE, !.gid = Msg(k).gid]
                      <4>2. new \in Game
                            BY ONLY <3>1, <4>1 DEF Game
                      <4>3. game' = [game EXCEPT ![i] = new]
                            BY <2>3
                      <4> HIDE DEF new
                      <4> QED BY ONLY <4>1, <4>2, <4>3
                <3>3. DOMAIN game' = DOMAIN game
                      BY <2>3
                <3> QED BY <1>1, <1>6, <2>1, <2>3, <3>2, <3>3 DEF OnCreateGameReply, IInv, TypeOK
          <2>4. CASE Answers(q) /\ DestroyGame(i)
                <3>1. i \in DOMAIN game
                      BY <2>4 DEF Answers
                <3> QED BY <1>1, <1>6, <2>1, <2>4, <3>1, DestroyType
                        DEF OnCreateGameReply, IInv, TypeOK
          <2> QED BY <1>6, <2>2, <2>3, <2>4 DEF OnCreateGameReply
    <1>7. CASE OnJoinGameReply(k)
          <2>1. DOMAIN sq' \subseteq Nat /\ \A r \in DOMAIN sq' : sq'[r] \in Request
                BY <1>7, RequestsKept DEF OnJoinGameReply, IInv
          <2> QED BY <1>1, <1>7, <2>1 DEF OnJoinGameReply, IInv, TypeOK
    <1>8. CASE OnUpdateGameInfo(k)
          <2>1. CASE UNCHANGED game
                BY <1>1, <1>8, <2>1 DEF OnUpdateGameInfo, IInv, TypeOK
          <2>2. ASSUME NEW i \in GamesWithGid(s, Msg(k).gid),
                       game' = [game EXCEPT ![i].chars =
                           IF Msg(k).enter THEN @ \cup {Msg(k).char} ELSE @ \ {Msg(k).char}]
                PROVE  TypeOK'
                <3>1. Msg(k).char \in Players
                      BY <1>1, <1>8, MessageFields DEF OnUpdateGameInfo, Valid, Arrives, Msg
                <3>2. i \in DOMAIN game /\ game[i] \in Game
                      BY DEF GamesWithGid, GamesOn, IInv, TypeOK
                <3>3. game'[i] \in Game
                      BY <2>2, <3>1, <3>2 DEF Game
                <3>4. DOMAIN game' = DOMAIN game /\ \A j \in DOMAIN game \ {i} : game'[j] = game[j]
                      BY <2>2
                <3> QED BY <1>1, <1>8, <3>2, <3>3, <3>4 DEF OnUpdateGameInfo, IInv, TypeOK
          <2> QED BY <1>8, <2>1, <2>2 DEF OnUpdateGameInfo
    <1>9. CASE OnCloseGame(k)
          <2>1. CASE UNCHANGED <<game, gamenum, budget>>
                BY <1>1, <1>9, <2>1 DEF OnCloseGame, IInv, TypeOK
          <2>2. ASSUME NEW i \in GamesWithGid(s, Msg(k).gid), DestroyGame(i)
                PROVE  TypeOK'
                <3>1. i \in DOMAIN game
                      BY DEF GamesWithGid, GamesOn
                <3> QED BY <1>1, <1>9, <2>2, <3>1, DestroyType DEF OnCloseGame, IInv, TypeOK
          <2> QED BY <1>9, <2>1, <2>2 DEF OnCloseGame
    <1> QED BY <1>2, <1>3, <1>4, <1>5, <1>6, <1>7, <1>8, <1>9 DEF OnGsMessage

LEMMA LinkType ==
    ASSUME IInv, NEW k \in Links, LinkDrop(k) \/ LinkReap(k)
    PROVE  TypeOK'
    <1> USE DEF netVars, serverVars, clientVars
    <1>1. CASE LinkDrop(k)
          BY <1>1 DEF LinkDrop, IInv, TypeOK
    <1>2. CASE LinkReap(k)
          <2>1. CASE link[ServerOf[k]] # k
                BY <1>2, <2>1 DEF LinkReap, IInv, TypeOK
          <2>2. CASE link[ServerOf[k]] = k
                <3>1. DOMAIN game' \subseteq Nat /\ \A j \in DOMAIN game' : game'[j] \in Game
                      BY <1>2, <2>2, GamesKept DEF LinkReap, GamesWithout, IInv
                <3>2. /\ link' = [link EXCEPT ![ServerOf[k]] = NoLink]
                      /\ gamenum' = [gamenum EXCEPT ![ServerOf[k]] = 0]
                      /\ maxgame' = [maxgame EXCEPT ![ServerOf[k]] = 0]
                      BY <1>2, <2>2 DEF LinkReap
                <3>3. /\ link' \in [Servers -> Links \cup {NoLink}]
                      /\ gamenum' \in [Servers -> Nat]
                      /\ maxgame' \in [Servers -> Nat]
                      BY <3>2 DEF IInv, TypeOK
                <3> QED BY <1>2, <3>1, <3>3 DEF LinkReap, IInv, TypeOK
          <2> QED BY <2>1, <2>2
    <1> QED BY <1>1, <1>2

LEMMA GsType ==
    ASSUME IInv, NEW k \in Links, GsStep(k)
    PROVE  TypeOK'
    <1> USE DEF netVars, serverVars, clientVars, GsVars
    <1>1. CASE LinkConnect(k)
          BY <1>1 DEF LinkConnect, IInv, TypeOK
    <1>2. ASSUME NEW ok \in BOOLEAN, GsAuthReply(k, ok)
          PROVE  TypeOK'
          <2>1. fromGs' \in [Links -> Seq(FromGsMsg)]
                BY <1>2, MessageTypes, EndpointType DEF GsAuthReply, IInv
          <2> QED BY <1>2, <2>1 DEF GsAuthReply, IInv, TypeOK
    <1>3. ASSUME NEW n \in Capacities, GsSetInfo(k, n)
          PROVE  TypeOK'
          <2>1. fromGs' \in [Links -> Seq(FromGsMsg)]
                BY <1>3, MessageTypes, EndpointType DEF GsSetInfo, IInv
          <2> QED BY <1>3, <2>1 DEF GsSetInfo, IInv, TypeOK
    <1>4. CASE GsAnswer(k)
          <2>1. toGs[k] # <<>>
                BY <1>4 DEF GsAnswer, GsJoin, GsRefuse, GsCreate, Asked
          <2>2. Head(toGs[k]).seqno \in Nat
                BY <2>1, SeqFacts, MessageFields DEF IInv, TypeOK
          <2>3. [toGs EXCEPT ![k] = Tail(@)] \in [Links -> Seq(ToGsMsg)]
                BY <2>1, EndpointType DEF IInv
          <2>4. CASE GsJoin(k)
                <3>1. fromGs' \in [Links -> Seq(FromGsMsg)]
                      BY <2>2, <2>4, MessageTypes, EndpointType DEF GsJoin, IInv
                <3> QED BY <2>3, <2>4, <3>1 DEF GsJoin, IInv, TypeOK
          <2>5. CASE GsRefuse(k)
                <3>1. fromGs' \in [Links -> Seq(FromGsMsg)]
                      BY <2>2, <2>5, MessageTypes, EndpointType DEF GsRefuse, IInv
                <3> QED BY <2>3, <2>5, <3>1 DEF GsRefuse, IInv, TypeOK
          <2>6. CASE GsCreate(k)
                <3>1. PICK gid \in Fresh(hosted[k]) :
                         /\ hosted' = [hosted EXCEPT ![k] = @ \cup {gid}]
                         /\ Says(k, [type |-> "creategamereply", seqno |-> Head(toGs[k]).seqno,
                                     ok |-> TRUE, gid |-> gid])
                      BY <2>6 DEF GsCreate
                <3>2. gid \in Nat
                      BY FreshFacts
                <3>3. fromGs' \in [Links -> Seq(FromGsMsg)]
                      BY <2>2, <3>1, <3>2, MessageTypes, EndpointType DEF IInv
                <3> QED BY <2>3, <2>6, <3>1, <3>2, <3>3 DEF GsCreate, IInv, TypeOK
          <2> QED BY <1>4, <2>4, <2>5, <2>6 DEF GsAnswer
    <1>5. ASSUME NEW gid \in hosted[k], GsClose(k, gid)
          PROVE  TypeOK'
          <2>1. gid \in Nat
                BY DEF IInv, TypeOK
          <2>2. fromGs' \in [Links -> Seq(FromGsMsg)]
                BY <1>5, <2>1, MessageTypes, EndpointType DEF GsClose, IInv
          <2> QED BY <1>5, <2>2 DEF GsClose, IInv, TypeOK
    <1>6. ASSUME NEW gid \in hosted[k], NEW p \in Players, NEW enter \in BOOLEAN,
                 GsPlayer(k, gid, p, enter)
          PROVE  TypeOK'
          <2>1. gid \in Nat
                BY DEF IInv, TypeOK
          <2>2. fromGs' \in [Links -> Seq(FromGsMsg)]
                BY <1>6, <2>1, MessageTypes, EndpointType DEF GsPlayer, IInv
          <2> QED BY <1>6, <2>2 DEF GsPlayer, IInv, TypeOK
    <1> QED BY <1>1, <1>2, <1>3, <1>4, <1>5, <1>6 DEF GsStep

-----------------------------------------------------------------------------
(* What a step does to the games, the counts and the announced maxima: one *)
(* of five things.                                                         *)
Kept ==
    /\ DOMAIN game' = DOMAIN game
    /\ \A j \in DOMAIN game : game'[j].d2gs = game[j].d2gs
    /\ UNCHANGED <<gamenum, link>>

Placed(s, i) ==
    /\ link[s] \in Links /\ gamenum[s] < maxgame[s] /\ i \notin DOMAIN game
    /\ DOMAIN game' = DOMAIN game \cup {i}
    /\ \A j \in DOMAIN game : game'[j] = game[j]
    /\ game'[i].d2gs = s
    /\ gamenum' = [gamenum EXCEPT ![s] = @ + 1]
    /\ UNCHANGED <<link, maxgame>>

Destroyed(i) ==
    /\ DOMAIN game' = DOMAIN game \ {i}
    /\ \A j \in DOMAIN game' : game'[j] = game[j]
    /\ gamenum' = [gamenum EXCEPT ![game[i].d2gs] = @ - 1]
    /\ UNCHANGED <<link, maxgame>>

Cleared(s) ==
    /\ DOMAIN game' = DOMAIN game \ GamesOn(s)
    /\ \A j \in DOMAIN game' : game'[j] = game[j]
    /\ gamenum' = [gamenum EXCEPT ![s] = 0]
    /\ maxgame' = [maxgame EXCEPT ![s] = 0]
    /\ \A t \in Servers \ {s} : link'[t] = link[t]

Effect ==
    \/ Kept /\ UNCHANGED maxgame
    \/ \E s \in Servers : Kept /\ \E n \in Nat : maxgame' = [maxgame EXCEPT ![s] = n]
    \/ \E s \in Servers : \E i : Placed(s, i)
    \/ \E i \in DOMAIN game : Destroyed(i)
    \/ \E s \in Servers : Cleared(s)

LEMMA Untouched ==
    ASSUME UNCHANGED <<game, gamenum, link, maxgame>>
    PROVE  Effect
    BY DEF Effect, Kept

LEMMA DestroyEffect ==
    ASSUME NEW i \in DOMAIN game, DestroyGame(i), UNCHANGED <<link, maxgame>>
    PROVE  Effect
    <1>1. Destroyed(i)
          BY DEF DestroyGame, Destroyed, Without, Restrict
    <1> QED BY <1>1 DEF Effect

LEMMA PlaceEffect ==
    ASSUME TypeOK, NEW c, NEW n, PlaceGame(c, n), UNCHANGED <<link, maxgame>>
    PROVE  Effect
    <1> DEFINE new(s) == [name |-> n, d2gs |-> s, created |-> FALSE,
                          gid |-> 0, chars |-> {}]
    <1> PICK s \in Chosen, i \in Fresh(UsedGameIds) :
            /\ game' = With(game, i, new(s))
            /\ gamenum' = [gamenum EXCEPT ![s] = @ + 1]
        BY DEF PlaceGame
    <1>1. s \in Servers /\ link[s] \in Links /\ i \notin DOMAIN game
          BY FreshFacts, ChosenFacts DEF UsedGameIds
    <1>2. gamenum[s] < maxgame[s]
          BY DEF Chosen, Open
    <1>3. new(s).d2gs = s
          OBVIOUS
    <1> HIDE DEF new
    <1>4. DOMAIN game' = DOMAIN game \cup {i}
          BY DEF With
    <1>5. \A j \in DOMAIN game : game'[j] = game[j]
          BY <1>1 DEF With
    <1>6. game'[i].d2gs = s
          BY <1>3 DEF With
    <1>7. Placed(s, i)
          BY <1>1, <1>2, <1>4, <1>5, <1>6 DEF Placed
    <1> QED BY <1>1, <1>7 DEF Effect

LEMMA ClearEffect ==
    ASSUME NEW s \in Servers, Cleared(s)
    PROVE  Effect
    BY DEF Effect

LEMMA MessageEffect ==
    ASSUME IInv, NEW k \in Links, OnGsMessage(k)
    PROVE  Effect
    <1> USE DEF netVars, serverVars, clientVars
    <1> DEFINE s == ServerOf[k]
    <1>1. s \in Servers
          BY LinksAssumption
    <1>2. CASE OnAuthAccepted(k)
          <2>1. /\ DOMAIN game' = DOMAIN game \ GamesOn(s)
                /\ \A j \in DOMAIN game' : game'[j] = game[j]
                <3>1. CASE link[s] # NoLink
                      <4>1. game' = Without(game, GamesOn(s))
                            BY <1>2, <3>1 DEF OnAuthAccepted, GamesWithout
                      <4> QED BY <4>1 DEF Without, Restrict
                <3>2. CASE link[s] = NoLink
                      <4>1. GamesOn(s) = {}
                            BY <3>2 DEF IInv, CountInv, HostedOnActive, GamesOn
                      <4> QED BY <1>2, <3>2, <4>1 DEF OnAuthAccepted
                <3> QED BY <3>1, <3>2
          <2>2. link' = [link EXCEPT ![s] = k]
                BY <1>2 DEF OnAuthAccepted
          <2>3. \A t \in Servers \ {s} : link'[t] = link[t]
                BY <2>2 DEF IInv, TypeOK
          <2>4. Cleared(s)
                BY <1>2, <2>1, <2>3 DEF OnAuthAccepted, Cleared
          <2> QED BY <1>1, <2>4, ClearEffect
    <1>3. CASE OnSetGsInfo(k)
          <2>1. Msg(k) \in FromGsMsg /\ Msg(k).type = "setgsinfo"
                BY <1>3, SeqFacts DEF OnSetGsInfo, Valid, Arrives, Msg, IInv, TypeOK
          <2>2. Msg(k).maxgame \in Nat
                BY <2>1, MessageFields
          <2>3. Kept /\ maxgame' = [maxgame EXCEPT ![s] = Msg(k).maxgame]
                BY <1>3 DEF OnSetGsInfo, Kept
          <2> QED BY <1>1, <2>2, <2>3 DEF Effect
    <1>4. CASE OnCreateGameReply(k)
          <2> DEFINE i == sq[Msg(k).seqno].gameid
          <2>1. CASE i \in DOMAIN game /\ DestroyGame(i)
                BY <1>4, <2>1, DestroyEffect DEF OnCreateGameReply
          <2>2. CASE game' = [game EXCEPT ![i].created = TRUE, ![i].gid = Msg(k).gid]
                     /\ i \in DOMAIN game /\ UNCHANGED gamenum
                <3>1. game[i] \in Game
                      BY <2>2 DEF IInv, TypeOK
                <3>2. DOMAIN game' = DOMAIN game
                      BY <2>2
                <3>3. game'[i].d2gs = game[i].d2gs
                      BY <2>2, <3>1 DEF Game
                <3>4. \A j \in DOMAIN game : game'[j].d2gs = game[j].d2gs
                      BY <2>2, <3>3
                <3>5. Kept /\ UNCHANGED maxgame
                      BY <1>4, <2>2, <3>2, <3>4 DEF OnCreateGameReply, Kept
                <3> QED BY <3>5 DEF Effect
          <2>3. CASE UNCHANGED game /\ UNCHANGED gamenum
                BY <1>4, <2>3, Untouched DEF OnCreateGameReply
          <2> QED BY <1>4, <2>1, <2>2, <2>3 DEF OnCreateGameReply, Answers
    <1>5. CASE OnUpdateGameInfo(k)
          <2>1. ASSUME NEW i \in GamesWithGid(s, Msg(k).gid),
                       game' = [game EXCEPT ![i].chars =
                         IF Msg(k).enter THEN @ \cup {Msg(k).char} ELSE @ \ {Msg(k).char}]
                PROVE  Effect
                <3>1. i \in DOMAIN game /\ game[i] \in Game
                      BY DEF GamesWithGid, GamesOn, IInv, TypeOK
                <3>2. DOMAIN game' = DOMAIN game
                      BY <2>1
                <3>3. game'[i].d2gs = game[i].d2gs
                      BY <2>1, <3>1 DEF Game
                <3>4. \A j \in DOMAIN game : game'[j].d2gs = game[j].d2gs
                      BY <2>1, <3>3
                <3>5. Kept /\ UNCHANGED maxgame
                      BY <1>5, <3>2, <3>4 DEF OnUpdateGameInfo, Kept
                <3> QED BY <3>5 DEF Effect
          <2>2. CASE UNCHANGED game
                BY <1>5, <2>2, Untouched DEF OnUpdateGameInfo
          <2> QED BY <1>5, <2>1, <2>2 DEF OnUpdateGameInfo
    <1>6. CASE OnCloseGame(k)
          <2>1. ASSUME NEW i \in GamesWithGid(s, Msg(k).gid), DestroyGame(i)
                PROVE  Effect
                <3>1. i \in DOMAIN game
                      BY DEF GamesWithGid, GamesOn
                <3> QED BY <1>6, <2>1, <3>1, DestroyEffect DEF OnCloseGame
          <2>2. CASE UNCHANGED <<game, gamenum, budget>>
                BY <1>6, <2>2, Untouched DEF OnCloseGame
          <2> QED BY <1>6, <2>1, <2>2 DEF OnCloseGame
    <1>7. CASE OnMismatch(k) \/ OnAuthRefused(k) \/ OnJoinGameReply(k)
          BY <1>7, Untouched DEF OnMismatch, OnAuthRefused, OnJoinGameReply
    <1> QED BY <1>2, <1>3, <1>4, <1>5, <1>6, <1>7 DEF OnGsMessage

LEMMA StepEffect ==
    ASSUME IInv, Next
    PROVE  Effect
    <1> USE DEF netVars, serverVars, clientVars
    <1>1. CASE ServeQueue
          <2>1. CASE PlaceGame(Head(gq).clientid, Head(gq).gamename)
                BY <1>1, <2>1, PlaceEffect DEF ServeQueue, IInv
          <2>2. CASE UNCHANGED <<game, gamenum, sq, toGs>>
                BY <1>1, <2>2, Untouched DEF ServeQueue
          <2> QED BY <1>1, <2>1, <2>2 DEF ServeQueue
    <1>2. CASE TimerStep
          <2>1. ASSUME NEW q \in DOMAIN sq, SqExpire(q)
                PROVE  Effect
                BY <2>1, Untouched DEF SqExpire
          <2>2. ASSUME NEW i \in DOMAIN game, VoidPurge(i)
                PROVE  Effect
                BY <2>2, DestroyEffect DEF VoidPurge
          <2> QED BY <1>2, <2>1, <2>2 DEF TimerStep
    <1>3. ASSUME NEW c \in Clients, ClientStep(c)
          PROVE  Effect
          <2>1. ASSUME NEW n \in Names, CreateGame(c, n)
                PROVE  Effect
                BY <2>1, PlaceEffect DEF CreateGame, IInv
          <2>2. CASE UNCHANGED <<game, gamenum, link, maxgame>>
                BY <2>2, Untouched
          <2> QED BY <1>3, <2>1, <2>2
                  DEF ClientStep, ClientConnect, ClientDrop, ClientReap, CancelCreate,
                      ClientSwitchChar, EnqueueGame, LeaveQueueByAsking, JoinGame
    <1>4. ASSUME NEW k \in Links, OnGsMessage(k)
          PROVE  Effect
          BY <1>4, MessageEffect
    <1>5. ASSUME NEW k \in Links, LinkDrop(k)
          PROVE  Effect
          BY <1>5, Untouched DEF LinkDrop
    <1>6. ASSUME NEW k \in Links, LinkReap(k)
          PROVE  Effect
          <2> DEFINE s == ServerOf[k]
          <2>1. CASE link[s] # k
                BY <1>6, <2>1, Untouched DEF LinkReap
          <2>2. CASE link[s] = k
                <3>1. s \in Servers
                      BY LinksAssumption
                <3>2. game' = Without(game, GamesOn(s))
                      BY <1>6, <2>2 DEF LinkReap, GamesWithout
                <3>3. /\ DOMAIN game' = DOMAIN game \ GamesOn(s)
                      /\ \A j \in DOMAIN game' : game'[j] = game[j]
                      BY <3>2 DEF Without, Restrict
                <3>4. /\ gamenum' = [gamenum EXCEPT ![s] = 0]
                      /\ maxgame' = [maxgame EXCEPT ![s] = 0]
                      /\ link' = [link EXCEPT ![s] = NoLink]
                      BY <1>6, <2>2 DEF LinkReap
                <3>5. \A t \in Servers \ {s} : link'[t] = link[t]
                      BY <3>4 DEF IInv, TypeOK
                <3>6. Cleared(s)
                      BY <3>3, <3>4, <3>5 DEF Cleared
                <3> QED BY <3>1, <3>6, ClearEffect
          <2> QED BY <2>1, <2>2
    <1>7. ASSUME NEW k \in Links, GsStep(k)
          PROVE  Effect
          BY <1>7, Untouched
          DEF GsStep, LinkConnect, GsAuthReply, GsSetInfo, GsAnswer, GsJoin, GsRefuse,
              GsCreate, GsClose, GsPlayer, GsVars
    <1> QED BY <1>1, <1>2, <1>3, <1>4, <1>5, <1>6, <1>7 DEF Next

-----------------------------------------------------------------------------
(* The invariant is inductive.                                             *)
LEMMA CountStep ==
    ASSUME IInv, Effect
    PROVE  CountInv'
    <1>1. CASE Kept
          <2>1. \A t \in Servers : GamesOn(t)' = GamesOn(t)
                BY <1>1 DEF Kept, GamesOn
          <2>2. HostedOnActive'
                BY <1>1 DEF Kept, IInv, CountInv, HostedOnActive
          <2> QED BY <1>1, <2>1, <2>2 DEF Kept, IInv, CountInv, GamenumExact
    <1>2. ASSUME NEW s \in Servers, NEW i, Placed(s, i)
          PROVE  CountInv'
          <2>1. IsFiniteSet(DOMAIN game)'
                BY <1>2, FS_AddElement DEF Placed, IInv, CountInv
          <2>2. HostedOnActive'
                BY <1>2, LinksAssumption DEF Placed, IInv, CountInv, HostedOnActive
          <2>3. ASSUME NEW t \in Servers
                PROVE  gamenum'[t] = Cardinality(GamesOn(t)')
                <3>1. IsFiniteSet(GamesOn(t)) /\ gamenum[t] = Cardinality(GamesOn(t))
                      BY GamesOnFacts DEF IInv, CountInv, GamenumExact
                <3>2. CASE t = s
                      <4>1. GamesOn(t)' = GamesOn(t) \cup {i} /\ i \notin GamesOn(t)
                            BY <1>2, <3>2 DEF Placed, GamesOn
                      <4>2. Cardinality(GamesOn(t)') = Cardinality(GamesOn(t)) + 1
                            BY <3>1, <4>1, FS_AddElement
                      <4> QED BY <1>2, <3>1, <3>2, <4>2 DEF Placed, IInv, TypeOK
                <3>3. CASE t # s
                      <4>1. GamesOn(t)' = GamesOn(t)
                            BY <1>2, <3>3 DEF Placed, GamesOn
                      <4> QED BY <1>2, <3>1, <3>3, <4>1 DEF Placed, IInv, TypeOK
                <3> QED BY <3>2, <3>3
          <2> QED BY <2>1, <2>2, <2>3 DEF CountInv, GamenumExact
    <1>3. ASSUME NEW i \in DOMAIN game, Destroyed(i)
          PROVE  CountInv'
          <2> DEFINE s == game[i].d2gs
          <2>1. IsFiniteSet(DOMAIN game)'
                BY <1>3, FS_RemoveElement DEF Destroyed, IInv, CountInv
          <2>2. HostedOnActive'
                BY <1>3 DEF Destroyed, IInv, CountInv, HostedOnActive
          <2>3. ASSUME NEW t \in Servers
                PROVE  gamenum'[t] = Cardinality(GamesOn(t)')
                <3>1. IsFiniteSet(GamesOn(t)) /\ gamenum[t] = Cardinality(GamesOn(t))
                      BY GamesOnFacts DEF IInv, CountInv, GamenumExact
                <3>2. CASE t = s
                      <4>1. GamesOn(t)' = GamesOn(t) \ {i} /\ i \in GamesOn(t)
                            BY <1>3, <3>2 DEF Destroyed, GamesOn
                      <4>2. Cardinality(GamesOn(t)') = Cardinality(GamesOn(t)) - 1
                            BY <3>1, <4>1, FS_RemoveElement
                      <4> QED BY <1>3, <3>1, <3>2, <4>2 DEF Destroyed, IInv, TypeOK
                <3>3. CASE t # s
                      <4>1. GamesOn(t)' = GamesOn(t)
                            BY <1>3, <3>3 DEF Destroyed, GamesOn
                      <4> QED BY <1>3, <3>1, <3>3, <4>1 DEF Destroyed, IInv, TypeOK
                <3> QED BY <3>2, <3>3
          <2> QED BY <2>1, <2>2, <2>3 DEF CountInv, GamenumExact
    <1>4. ASSUME NEW s \in Servers, Cleared(s)
          PROVE  CountInv'
          <2>1. IsFiniteSet(DOMAIN game)'
                BY <1>4, FS_Subset DEF Cleared, IInv, CountInv
          <2>2. \A j \in DOMAIN game' : game'[j].d2gs \in Servers \ {s}
                BY <1>4 DEF Cleared, IInv, TypeOK, Game, GamesOn
          <2>3. HostedOnActive'
                BY <1>4, <2>2 DEF Cleared, IInv, CountInv, HostedOnActive
          <2>4. gamenum'[s] = Cardinality(GamesOn(s)')
                <3>1. GamesOn(s)' = {}
                      BY <2>2 DEF GamesOn
                <3> QED BY <1>4, <3>1, FS_EmptySet DEF Cleared, IInv, TypeOK
          <2>5. \A t \in Servers \ {s} : gamenum'[t] = Cardinality(GamesOn(t)')
                <3>1. \A t \in Servers \ {s} : GamesOn(t)' = GamesOn(t)
                      BY <1>4 DEF Cleared, GamesOn
                <3> QED BY <1>4, <3>1 DEF Cleared, IInv, TypeOK, CountInv, GamenumExact
          <2>6. GamenumExact'
                BY <2>4, <2>5 DEF GamenumExact
          <2> QED BY <2>1, <2>3, <2>6 DEF CountInv
    <1> QED BY <1>1, <1>2, <1>3, <1>4 DEF Effect

LEMMA LoopStep ==
    ASSUME IInv, Next
    PROVE  LoopInv'
    <1> USE DEF netVars, serverVars, clientVars, GsVars, Idle
    <1>1. CASE ServeQueue
          <2>1. gq \in Seq(Entry) /\ gq # <<>> /\ budget \in Nat
                BY <1>1 DEF ServeQueue, LoopInv, IInv, TypeOK
          <2>2. gq' = Tail(gq) /\ (Len(gq) = 1 => budget' = 0)
                BY <1>1 DEF ServeQueue
          <2>3. CASE Len(gq) = 1
                BY <2>2, <2>3 DEF LoopInv
          <2>4. CASE Len(gq) # 1
                <3>1. Len(gq) \in Nat /\ Len(gq) # 0
                      BY <2>1, EmptySeq
                <3>2. Len(Tail(gq)) = Len(gq) - 1
                      BY <2>1, HeadTailProperties
                <3>3. Tail(gq) # <<>>
                      BY <2>4, <3>1, <3>2
                <3> QED BY <2>2, <3>3 DEF LoopInv
          <2> QED BY <2>3, <2>4
    <1>2. ASSUME NEW room, StartServing(room), UNCHANGED gq
          PROVE  LoopInv'
          BY <1>2 DEF StartServing, LoopInv
    <1>3. ASSUME NEW i, DestroyGame(i), UNCHANGED gq
          PROVE  LoopInv'
          BY <1>2, <1>3 DEF DestroyGame
    <1>4. CASE budget = 0 /\ UNCHANGED budget
          BY <1>4 DEF LoopInv
    <1>5. CASE TimerStep
          BY <1>3, <1>4, <1>5 DEF TimerStep, SqExpire, VoidPurge
    <1>6. ASSUME NEW c \in Clients, ClientStep(c)
          PROVE  LoopInv'
          BY <1>4, <1>6
          DEF ClientStep, ClientConnect, ClientDrop, ClientReap, CancelCreate, CanAsk,
              ClientSwitchChar, CreateGame, EnqueueGame, LeaveQueueByAsking, JoinGame
    <1>7. ASSUME NEW k \in Links, OnGsMessage(k)
          PROVE  LoopInv'
          BY <1>2, <1>3, <1>4, <1>7
          DEF OnGsMessage, OnMismatch, OnAuthRefused, OnAuthAccepted, OnSetGsInfo,
              OnCreateGameReply, OnJoinGameReply, OnUpdateGameInfo, OnCloseGame, Valid, Arrives
    <1>8. ASSUME NEW k \in Links, LinkDrop(k) \/ LinkReap(k) \/ GsStep(k)
          PROVE  LoopInv'
          BY <1>4, <1>8
          DEF LinkDrop, LinkReap, GsStep, LinkConnect, GsAuthReply, GsSetInfo, GsAnswer,
              GsJoin, GsRefuse, GsCreate, GsClose, GsPlayer, Asked, MayVolunteer
    <1> QED BY <1>1, <1>5, <1>6, <1>7, <1>8 DEF Next

LEMMA InitIInv == Init => IInv
    <1> SUFFICES ASSUME Init PROVE IInv
        OBVIOUS
    <1>1. TypeOK
          BY ServersAssumption DEF Init, TypeOK, Entry, Game, Request
    <1>2. DOMAIN game = {} /\ \A s \in Servers : GamesOn(s) = {}
          BY DEF Init, GamesOn
    <1>3. CountInv
          BY <1>2, FS_EmptySet DEF Init, CountInv, GamenumExact, HostedOnActive
    <1>4. LoopInv
          BY DEF Init, LoopInv
    <1> QED BY <1>1, <1>3, <1>4 DEF IInv

LEMMA NextIInv == IInv /\ [Next]_vars => IInv'
    <1> SUFFICES ASSUME IInv, [Next]_vars PROVE IInv'
        OBVIOUS
    <1>1. CASE Next
          <2>1. TypeOK'
                BY <1>1, ServeType, TimerType, ClientType, MessageType, LinkType, GsType DEF Next
          <2> QED BY <1>1, <2>1, StepEffect, CountStep, LoopStep DEF IInv
    <1>2. CASE UNCHANGED vars
          <2> USE <1>2 DEF vars, clientVars, serverVars, netVars
          <2>1. TypeOK'
                BY DEF IInv, TypeOK
          <2>2. Effect
                BY Untouched
          <2>3. LoopInv'
                BY DEF IInv, LoopInv
          <2> QED BY <2>1, <2>2, <2>3, CountStep DEF IInv
    <1> QED BY <1>1, <1>2

-----------------------------------------------------------------------------
(* The theorems.                                                           *)

LEMMA Invariance == Spec => []IInv
    BY InitIInv, NextIInv, PTL DEF Spec

(* Every variable has its type in every state d2cs and its peers reach: in *)
(* particular gamenum, an unsigned counter in the code, never goes below   *)
(* zero, whatever the game servers close and whenever they are lost.       *)
THEOREM TypeCorrect == Spec => []TypeOK
    <1>1. IInv => TypeOK
          BY DEF IInv
    <1> QED BY <1>1, Invariance, PTL

(* The counter d2gslist_choose_server trusts is the number of games on the *)
(* server, for any number of servers, connections and clients.             *)
THEOREM CountCorrect == Spec => []GamenumExact
    <1>1. IInv => GamenumExact
          BY DEF IInv, CountInv
    <1> QED BY <1>1, Invariance, PTL

(* A game in the list always points at a server with a connection, which   *)
(* on_client_joingamereq uses without looking.                             *)
THEOREM HostsActive == Spec => []HostedOnActive
    <1>1. IInv => HostedOnActive
          BY DEF IInv, CountInv
    <1> QED BY <1>1, Invariance, PTL

-----------------------------------------------------------------------------
(* d2cs implements GameSlots.                                              *)
Hosting == [i \in DOMAIN game |-> game[i].d2gs]

LEMMA SameCardinality == \A S : Slots!Cardinality(S) = Cardinality(S)
    BY DEF Slots!Cardinality, Cardinality

LEMMA SlotsInit == Init => Slots!Init
    BY DEF Init, Slots!Init

LEMMA SlotsStep ==
    ASSUME IInv, Effect
    PROVE  Slots!Next \/ UNCHANGED <<Hosting, maxgame>>
    <1>1. CASE Kept /\ UNCHANGED maxgame
          BY <1>1 DEF Kept, Hosting
    <1>2. ASSUME NEW s \in Servers, Kept, NEW n \in Nat, maxgame' = [maxgame EXCEPT ![s] = n]
          PROVE  Slots!Next
          <2>1. Hosting' = Hosting
                BY <1>2 DEF Kept, Hosting
          <2>2. Slots!Announce(s)
                BY <1>2, <2>1 DEF Slots!Announce, Hosting, IInv, TypeOK
          <2> QED BY <2>2 DEF Slots!Next
    <1>3. ASSUME NEW s \in Servers, NEW i, Placed(s, i)
          PROVE  Slots!Next
          <2>1. Slots!On(s) = GamesOn(s)
                BY DEF Slots!On, GamesOn
          <2>2. Cardinality(Slots!On(s)) < maxgame[s]
                BY <1>3, <2>1 DEF Placed, IInv, CountInv, GamenumExact
          <2>3. i \in DOMAIN Hosting' \ DOMAIN Hosting
                BY <1>3 DEF Placed, Hosting
          <2>4. Hosting' = [j \in DOMAIN Hosting \cup {i} |-> IF j = i THEN s ELSE Hosting[j]]
                BY <1>3 DEF Placed, Hosting
          <2>5. Slots!Place(s)
                BY <1>3, <2>2, <2>3, <2>4, SameCardinality DEF Slots!Place, Hosting, Placed
          <2> QED BY <2>5 DEF Slots!Next
    <1>4. ASSUME NEW i \in DOMAIN game, Destroyed(i)
          PROVE  Slots!Next
          <2>1. Hosting' = [j \in DOMAIN Hosting \ {i} |-> Hosting[j]]
                BY <1>4 DEF Destroyed, Hosting
          <2>2. Slots!Release(i) /\ i \in DOMAIN Hosting
                BY <1>4, <2>1 DEF Slots!Release, Hosting, Destroyed
          <2> QED BY <2>2 DEF Slots!Next, Hosting
    <1>5. ASSUME NEW s \in Servers, Cleared(s)
          PROVE  Slots!Next
          <2>1. Slots!On(s) = GamesOn(s)
                BY DEF Slots!On, GamesOn
          <2>2. Hosting' = [j \in DOMAIN Hosting \ GamesOn(s) |-> Hosting[j]]
                BY <1>5 DEF Cleared, Hosting
          <2>3. Slots!Clear(s)
                BY <1>5, <2>1, <2>2 DEF Slots!Clear, Hosting, Cleared
          <2> QED BY <2>3 DEF Slots!Next
    <1> QED BY <1>1, <1>2, <1>3, <1>4, <1>5 DEF Effect

(* d2cs never gives a server more games than it announced places for, and  *)
(* every change of the list is a placement, a release, an announcement or  *)
(* the loss of a server.                                                   *)
THEOREM SlotsImplemented == Spec => SlotsSpec
    <1>1. IInv /\ [Next]_vars => [Slots!Next]_<<Hosting, maxgame>>
          <2> SUFFICES ASSUME IInv, [Next]_vars
                       PROVE  Slots!Next \/ UNCHANGED <<Hosting, maxgame>>
              OBVIOUS
          <2>1. CASE Next
                BY <2>1, StepEffect, SlotsStep
          <2>2. CASE UNCHANGED vars
                BY <2>2 DEF vars, serverVars, Hosting
          <2> QED BY <2>1, <2>2
    <1> QED BY <1>1, SlotsInit, Invariance, PTL DEF Spec, SlotsSpec, Slots!Spec, Hosting

=============================================================================
