--------------------------- MODULE D2csQueue_proofs ---------------------------
(***************************************************************************)
(* Proofs about the queue of D2csGames: the pointers of the connections    *)
(* and the list agree, nobody waits while a server has room, and nobody is *)
(* overtaken.                                                              *)
(***************************************************************************)
EXTENDS D2csLinks_proofs

-----------------------------------------------------------------------------
(* The inductive form of QueueLinked: at most one entry of a client, and   *)
(* one for a client that points at one, in place of the cardinality.       *)
LinkedInv ==
    /\ \A j \in DOMAIN gq :
          LET c == gq[j].clientid
          IN  Alive(c) /\ gamequeue[c] = gq[j].gamename
    /\ \A i, j \in DOMAIN gq : gq[i].clientid = gq[j].clientid => i = j
    /\ \A c \in Clients : gamequeue[c] # NoName =>
          \E j \in DOMAIN gq : gq[j].clientid = c

(* What a step does to the queue and its pointers.                         *)
SameQueue == gq' = gq /\ gamequeue' = gamequeue

StayAlive(S) == \A d \in S : Alive(d) => Alive(d)'

Queued(c, n) ==
    /\ gamequeue[c] = NoName /\ gamequeue' = [gamequeue EXCEPT ![c] = n]
    /\ gq' = Append(gq, [clientid |-> c, gamename |-> n])
    /\ Open = {} /\ Idle /\ ~NameTaken(c, n)
    /\ Alive(c) /\ UNCHANGED <<cstate, link, gamenum, maxgame, budget>>

Left(c) ==
    /\ gamequeue' = [gamequeue EXCEPT ![c] = NoName]
    /\ \/ gamequeue[c] = NoName /\ gq' = gq
       \/ gamequeue[c] # NoName /\ \E i \in DOMAIN gq : gq[i].clientid = c /\ Cut(gq, gq', i)

QueueEffect ==
    \/ SameQueue /\ StayAlive(Clients)
    \/ \E c \in Clients, n \in Names : Queued(c, n) /\ StayAlive(Clients)
    \/ \E c \in Clients : Left(c) /\ StayAlive(Clients \ {c})

LEMMA QueueIndices ==
    ASSUME TypeOK
    PROVE  /\ Len(gq) \in Nat /\ DOMAIN gq = 1 .. Len(gq)
           /\ \A j \in DOMAIN gq : gq[j].clientid \in Clients /\ gq[j].gamename \in Names
    <1>1. gq \in Seq(Entry)
          BY DEF TypeOK
    <1>2. Len(gq) \in Nat /\ DOMAIN gq = 1 .. Len(gq) /\ \A j \in DOMAIN gq : gq[j] \in Entry
          BY <1>1, LenProperties, ElementOfSeq
    <1> QED BY <1>2 DEF Entry

(* While the pointers and the list agree, destroying the entry a client    *)
(* points at takes one out exactly if the client points at one.            *)
LEMMA DestroyLeaves ==
    ASSUME TypeOK, LinkedInv, NEW c \in Clients, DestroyEntryOf(c),
           gamequeue' = [gamequeue EXCEPT ![c] = NoName]
    PROVE  Left(c)
    <1>1. CASE gamequeue[c] = NoName
          <2>1. \A i \in DOMAIN gq : gq[i] # EntryOf(c)
                BY <1>1, QueueIndices, NamesAssumption DEF EntryOf
          <2> QED BY <1>1, <2>1 DEF DestroyEntryOf, Left
    <1>2. CASE gamequeue[c] # NoName
          <2>1. PICK j \in DOMAIN gq : gq[j].clientid = c
                BY <1>2 DEF LinkedInv
          <2>2. gq[j] = EntryOf(c)
                <3>1. gq[j] \in Entry
                      BY <2>1, ElementOfSeq, LenProperties DEF TypeOK
                <3>2. gq[j].gamename = gamequeue[c]
                      BY <2>1 DEF LinkedInv
                <3> QED BY <2>1, <3>1, <3>2 DEF Entry, EntryOf
          <2>3. PICK i \in DOMAIN gq : gq[i] = EntryOf(c) /\ gq' = RemoveAt(gq, i)
                BY <2>2 DEF DestroyEntryOf
          <2>4. Cut(gq, gq', i)
                BY <2>3, RemoveAtCuts, QueueIndices DEF TypeOK
          <2>5. gq[i].clientid = c
                BY <2>3 DEF EntryOf
          <2> QED BY <1>2, <2>4, <2>5 DEF Left
    <1> QED BY <1>1, <1>2

(* With the pointers right, a request at the head is always attempted.     *)
LEMMA HeadPoints ==
    ASSUME IInv, LinkedInv, ServeQueue
    PROVE  LET c == Head(gq).clientid
           IN  /\ c \in Clients /\ Head(gq).gamename \in Names
               /\ gq # <<>> /\ 1 \in DOMAIN gq /\ Head(gq) = gq[1]
               /\ Alive(c) /\ gamequeue[c] = Head(gq).gamename /\ gamequeue[c] # NoName
    <1>1. gq # <<>> /\ gq \in Seq(Entry)
          BY DEF ServeQueue, IInv, LoopInv, TypeOK
    <1>2. 1 \in DOMAIN gq /\ Head(gq) = gq[1]
          BY <1>1, EmptySeq, QueueIndices DEF IInv
    <1>3. gq[1].clientid \in Clients /\ gq[1].gamename \in Names
          BY <1>2, QueueIndices DEF IInv
    <1>4. Alive(gq[1].clientid) /\ gamequeue[gq[1].clientid] = gq[1].gamename
          BY <1>2 DEF LinkedInv
    <1> QED BY <1>1, <1>2, <1>3, <1>4, NamesAssumption

LEMMA ServeLeaves ==
    ASSUME IInv, LinkedInv, ServeQueue
    PROVE  Left(Head(gq).clientid)
    <1>1. gamequeue' = [gamequeue EXCEPT ![Head(gq).clientid] = NoName] /\ gq' = Tail(gq)
          BY HeadPoints DEF ServeQueue
    <1>2. Cut(gq, gq', 1)
          BY <1>1, HeadPoints, TailCuts DEF IInv, TypeOK
    <1> QED BY <1>1, <1>2, HeadPoints DEF Left

LEMMA StepQueueEffect ==
    ASSUME IInv, LinkedInv, Next
    PROVE  QueueEffect
    <1> USE DEF netVars, serverVars, clientVars, GsVars, Alive
    <1>1. CASE ServeQueue
          <2>1. StayAlive(Clients)
                BY <1>1 DEF ServeQueue, StayAlive
          <2> QED BY <1>1, <2>1, ServeLeaves, HeadPoints DEF QueueEffect, StayAlive
    <1>2. ASSUME UNCHANGED <<cstate, gamequeue, gq>>
          PROVE  QueueEffect
          BY <1>2 DEF QueueEffect, SameQueue, StayAlive
    <1>3. CASE TimerStep
          BY <1>2, <1>3 DEF TimerStep, SqExpire, VoidPurge
    <1>4. ASSUME NEW k \in Links, OnGsMessage(k)
          PROVE  QueueEffect
          BY <1>2, <1>4
          DEF OnGsMessage, OnMismatch, OnAuthRefused, OnAuthAccepted, OnSetGsInfo,
              OnCreateGameReply, OnJoinGameReply, OnUpdateGameInfo, OnCloseGame
    <1>5. ASSUME NEW k \in Links, LinkDrop(k) \/ LinkReap(k) \/ GsStep(k)
          PROVE  QueueEffect
          BY <1>2, <1>5
          DEF LinkDrop, LinkReap, GsStep, LinkConnect, GsAuthReply, GsSetInfo, GsAnswer,
              GsJoin, GsRefuse, GsCreate, GsClose, GsPlayer
    <1>6. ASSUME NEW c \in Clients, ClientStep(c)
          PROVE  QueueEffect
          <2>1. CASE ClientConnect(c) \/ ClientDrop(c)
                <3>1. cstate \in [Clients -> {"char", "destroy", "gone"}]
                      BY DEF IInv, TypeOK
                <3>2. StayAlive(Clients)
                      BY <2>1, <3>1 DEF ClientConnect, ClientDrop, StayAlive
                <3> QED BY <2>1, <3>2 DEF ClientConnect, ClientDrop, QueueEffect, SameQueue
          <2>2. CASE ClientReap(c)
                <3>1. cstate \in [Clients -> {"char", "destroy", "gone"}]
                      BY DEF IInv, TypeOK
                <3>2. StayAlive(Clients \ {c})
                      BY <2>2, <3>1 DEF ClientReap, StayAlive
                <3>3. Left(c)
                      BY <2>2, DestroyLeaves DEF ClientReap, IInv
                <3> QED BY <3>2, <3>3 DEF QueueEffect
          <2>3. ASSUME UNCHANGED cstate, DestroyEntryOf(c),
                       gamequeue' = [gamequeue EXCEPT ![c] = NoName]
                PROVE  QueueEffect
                <3>1. Left(c)
                      BY <2>3, DestroyLeaves DEF IInv
                <3>2. StayAlive(Clients \ {c})
                      BY <2>3 DEF StayAlive
                <3> QED BY <3>1, <3>2 DEF QueueEffect
          <2>4. CASE CancelCreate(c)
                BY <2>3, <2>4 DEF CancelCreate
          <2>5. ASSUME NEW n \in Names, LeaveQueueByAsking(c, n)
                PROVE  QueueEffect
                BY <2>3, <2>5 DEF LeaveQueueByAsking
          <2>6. ASSUME NEW n \in Names, EnqueueGame(c, n)
                PROVE  QueueEffect
                <3>1. Queued(c, n)
                      BY <2>6 DEF EnqueueGame, CanAsk, MustWait, Queued
                <3>2. StayAlive(Clients)
                      BY <2>6 DEF EnqueueGame, StayAlive
                <3> QED BY <3>1, <3>2 DEF QueueEffect
          <2>7. ASSUME NEW n \in Names, CreateGame(c, n)
                PROVE  QueueEffect
                BY <1>2, <2>7 DEF CreateGame
          <2>8. ASSUME NEW i \in DOMAIN game, JoinGame(c, i)
                PROVE  QueueEffect
                BY <1>2, <2>8 DEF JoinGame
          <2>9. ASSUME NEW x \in Kinds, ClientSwitchChar(c, x)
                PROVE  QueueEffect
                BY <1>2, <2>9 DEF ClientSwitchChar
          <2> QED BY <1>6, <2>1, <2>2, <2>4, <2>5, <2>6, <2>7, <2>8, <2>9 DEF ClientStep
    <1> QED BY <1>1, <1>3, <1>4, <1>5, <1>6 DEF Next

LEMMA LinkedStep ==
    ASSUME TypeOK, TypeOK', LinkedInv, QueueEffect
    PROVE  LinkedInv'
    <1>1. /\ gamequeue \in [Clients -> Names \cup {NoName}]
          /\ gq \in Seq(Entry) /\ gq' \in Seq(Entry)
          BY DEF TypeOK
    <1>2. CASE SameQueue /\ StayAlive(Clients)
          BY <1>2, QueueIndices DEF SameQueue, StayAlive, LinkedInv
    <1>3. ASSUME NEW c \in Clients, NEW n \in Names, Queued(c, n), StayAlive(Clients)
          PROVE  LinkedInv'
          <2> DEFINE e == [clientid |-> c, gamename |-> n]
                     last == Len(gq) + 1
          <2>1. \A d \in Clients : gamequeue'[d] = IF d = c THEN n ELSE gamequeue[d]
                BY <1>1, <1>3 DEF Queued
          <2>2. /\ e \in Entry /\ e.clientid = c /\ e.gamename = n
                BY DEF Entry
          <2>3. /\ DOMAIN gq' = DOMAIN gq \cup {last} /\ gq'[last] = e
                /\ \A j \in DOMAIN gq : gq'[j] = gq[j]
                BY <1>1, <1>3, <2>2, AppendElements DEF Queued
          <2> HIDE DEF e, last
          <2>4. \A j \in DOMAIN gq : gq[j].clientid \in Clients \ {c}
                BY <1>3, QueueIndices, NamesAssumption DEF LinkedInv, Queued
          <2>5. Alive(c)'
                BY <1>3 DEF Queued, Alive
          <2>6. \A j \in DOMAIN gq' : /\ cstate'[gq'[j].clientid] # "gone"
                                      /\ gamequeue'[gq'[j].clientid] = gq'[j].gamename
                BY <1>3, <2>1, <2>2, <2>3, <2>4, <2>5 DEF LinkedInv, StayAlive, Alive
          <2>7. \A i, j \in DOMAIN gq' : gq'[i].clientid = gq'[j].clientid => i = j
                BY <2>2, <2>3, <2>4 DEF LinkedInv
          <2>8. \A d \in Clients : gamequeue'[d] # NoName =>
                    \E j \in DOMAIN gq' : gq'[j].clientid = d
                BY <2>1, <2>2, <2>3 DEF LinkedInv
          <2> QED BY <2>6, <2>7, <2>8 DEF LinkedInv, Alive
    <1>4. ASSUME NEW c \in Clients, Left(c), StayAlive(Clients \ {c})
          PROVE  LinkedInv'
          <2>1. \A d \in Clients : gamequeue'[d] = IF d = c THEN NoName ELSE gamequeue[d]
                BY <1>1, <1>4 DEF Left
          <2>2. CASE gamequeue[c] = NoName /\ gq' = gq
                <3>1. \A j \in DOMAIN gq : gq[j].clientid \in Clients \ {c}
                      BY <2>2, QueueIndices, NamesAssumption DEF LinkedInv
                <3> QED BY <1>4, <2>1, <2>2, <3>1 DEF LinkedInv, StayAlive
          <2>3. ASSUME NEW i \in DOMAIN gq, gq[i].clientid = c, Cut(gq, gq', i)
                PROVE  LinkedInv'
                <3>1. /\ \A j \in DOMAIN gq' : Shift(i, j) \in DOMAIN gq \ {i}
                                               /\ gq'[j] = gq[Shift(i, j)]
                      /\ \A l \in DOMAIN gq \ {i} : \E j \in DOMAIN gq' :
                            Shift(i, j) = l /\ gq'[j] = gq[l]
                      /\ \A j, m \in DOMAIN gq' : Shift(i, j) = Shift(i, m) => j = m
                      BY <1>1, <2>3, CutFacts
                <3>2. \A l \in DOMAIN gq \ {i} : gq[l].clientid \in Clients \ {c}
                      BY <2>3, QueueIndices DEF LinkedInv
                <3>3. \A j \in DOMAIN gq' : /\ cstate'[gq'[j].clientid] # "gone"
                                            /\ gamequeue'[gq'[j].clientid] = gq'[j].gamename
                      BY <1>4, <2>1, <3>1, <3>2 DEF LinkedInv, StayAlive, Alive
                <3>4. \A j, m \in DOMAIN gq' : gq'[j].clientid = gq'[m].clientid => j = m
                      BY <3>1 DEF LinkedInv
                <3>5. \A d \in Clients : gamequeue'[d] # NoName =>
                          \E j \in DOMAIN gq' : gq'[j].clientid = d
                      BY <2>1, <2>3, <3>1 DEF LinkedInv
                <3> QED BY <3>3, <3>4, <3>5 DEF LinkedInv, Alive
          <2> QED BY <1>4, <2>2, <2>3 DEF Left
    <1> QED BY <1>2, <1>3, <1>4 DEF QueueEffect

QueueInv == MessageInv /\ LinkedInv

LEMMA QueueInvariance == Spec => []QueueInv
    <1>1. Init => QueueInv
          BY InitMessageInv DEF Init, QueueInv, LinkedInv
    <1>2. ASSUME QueueInv, [Next]_vars
          PROVE  QueueInv'
          <2>1. MessageInv'
                BY <1>2, NextMessageInv DEF QueueInv
          <2>2. CASE Next
                BY <1>2, <2>1, <2>2, StepQueueEffect, LinkedStep DEF QueueInv, MessageInv, IInv
          <2>3. CASE UNCHANGED vars
                BY <1>2, <2>1, <2>3 DEF vars, clientVars, QueueInv, LinkedInv, Alive
          <2> QED BY <1>2, <2>2, <2>3
    <1> QED BY <1>1, <1>2, PTL DEF Spec

(* The list and the pointers of the connections agree in every state:      *)
(* a request in the queue belongs to a connection that is still there and  *)
(* points at it, and no connection is on the list twice.                   *)
THEOREM QueueAgrees == Spec => []QueueLinked
    <1>1. ASSUME QueueInv
          PROVE  QueueLinked
          <2> SUFFICES ASSUME NEW c \in Clients, gamequeue[c] # NoName
                       PROVE  Cardinality({j \in DOMAIN gq : gq[j].clientid = c}) = 1
              BY <1>1 DEF QueueInv, LinkedInv, QueueLinked
          <2>1. PICK i \in DOMAIN gq : gq[i].clientid = c
                BY <1>1 DEF QueueInv, LinkedInv
          <2>2. {j \in DOMAIN gq : gq[j].clientid = c} = {i}
                BY <1>1, <2>1 DEF QueueInv, LinkedInv
          <2> QED BY <2>2, FS_Singleton
    <1> QED BY <1>1, QueueInvariance, PTL

-----------------------------------------------------------------------------
(* Room.  The requests that wait are for different games, none of which is *)
(* on the list; while the queue is served no server has room but the one   *)
(* it is served for, if that is active, which has room for as many games   *)
(* as the loop may still attempt; and when it is over, no server has room  *)
(* or nobody waits.                                                        *)
RoomInv ==
    /\ \A i, j \in DOMAIN gq : gq[i].gamename = gq[j].gamename => i = j
    /\ \A j \in DOMAIN gq : GamesNamed(gq[j].gamename) = {}
    /\ budget > 0 => \E s \in Servers : Open \subseteq {s} /\ maxgame[s] - gamenum[s] = budget
    /\ Idle /\ gq # <<>> => Open = {}

(* The loop has a server to put the next request on.                       *)
RoomAtHand == budget > 0 => Open # {}

NamesLeft == \A n \in Names : GamesNamed(n) = {} => GamesNamed(n)' = {}

(* Requests leave the queue and no server gets room.                       *)
LEMMA RoomShrinks ==
    ASSUME TypeOK, TypeOK', RoomInv, Idle \/ Open = {}, budget' = 0, Open' \subseteq Open,
           NamesLeft, gq' = gq \/ \E i : Cut(gq, gq', i)
    PROVE  RoomInv' /\ RoomAtHand'
    <1>0. RoomAtHand'
          BY DEF RoomAtHand
    <1>1. gq \in Seq(Entry) /\ gq' \in Seq(Entry) /\ \A j \in DOMAIN gq : gq[j].gamename \in Names
          BY QueueIndices DEF TypeOK
    <1>2. CASE gq' = gq
          <2>1. \A j \in DOMAIN gq : GamesNamed(gq[j].gamename)' = {}
                <3>1. ASSUME NEW j \in DOMAIN gq, NEW n, n = gq[j].gamename
                      PROVE  GamesNamed(n)' = {}
                      BY <1>1, <3>1 DEF RoomInv, NamesLeft
                <3> QED BY <1>2, <3>1 DEF GamesNamed
          <2> QED BY <1>0, <1>2, <2>1 DEF RoomInv, Idle, GamesNamed
    <1>3. ASSUME NEW i, Cut(gq, gq', i)
          PROVE  RoomInv'
          <2>1. /\ \A j \in DOMAIN gq' : Shift(i, j) \in DOMAIN gq /\ gq'[j] = gq[Shift(i, j)]
                /\ \A j, m \in DOMAIN gq' : Shift(i, j) = Shift(i, m) => j = m
                BY <1>1, <1>3, CutFacts
          <2>2. gq # <<>>
                BY <1>1, <1>3, CutFacts, EmptySeq DEF Cut
          <2>3. \A j, m \in DOMAIN gq' : gq'[j].gamename = gq'[m].gamename => j = m
                BY <2>1 DEF RoomInv
          <2>4. ASSUME NEW j \in DOMAIN gq', NEW n, n = gq'[j].gamename
                PROVE  GamesNamed(n)' = {}
                BY <1>1, <2>1, <2>4 DEF RoomInv, NamesLeft
          <2>5. Open' = {}
                BY <2>2 DEF RoomInv
          <2>6. (\A j \in DOMAIN gq : GamesNamed(gq[j].gamename) = {})'
                BY <2>4 DEF GamesNamed
          <2> QED BY <2>3, <2>5, <2>6 DEF RoomInv, Idle
    <1> QED BY <1>0, <1>2, <1>3

(* A request joins the queue: its name is free.                            *)
LEMMA RoomQueued ==
    ASSUME TypeOK, TypeOK', RoomInv, NEW c \in Clients, NEW n \in Names, Queued(c, n),
           UNCHANGED game
    PROVE  RoomInv' /\ RoomAtHand'
    <1> DEFINE e == [clientid |-> c, gamename |-> n]
               last == Len(gq) + 1
    <1>1. gq \in Seq(Entry) /\ e \in Entry /\ e.gamename = n
          BY DEF TypeOK, Entry
    <1>2. /\ DOMAIN gq' = DOMAIN gq \cup {last} /\ gq'[last] = e
          /\ \A j \in DOMAIN gq : gq'[j] = gq[j]
          BY <1>1, AppendElements DEF Queued
    <1> HIDE DEF e, last
    <1>3. GamesNamed(n) = {} /\ \A j \in DOMAIN gq : gq[j].gamename # n
          BY DEF Queued, NameTaken
    <1>4. Open' = Open /\ Open = {} /\ budget' = 0 /\ budget = 0
          BY DEF Queued, Open, Idle
    <1>5. \A i, j \in DOMAIN gq' : gq'[i].gamename = gq'[j].gamename => i = j
          BY <1>1, <1>2, <1>3 DEF RoomInv
    <1>6. \A m : GamesNamed(m)' = GamesNamed(m)
          BY DEF GamesNamed
    <1>7. (\A j \in DOMAIN gq : GamesNamed(gq[j].gamename) = {})'
          <2>1. ASSUME NEW j \in DOMAIN gq', NEW m, m = gq'[j].gamename
                PROVE  GamesNamed(m)' = {}
                BY <1>1, <1>2, <1>3, <1>6, <2>1 DEF RoomInv
          <2> QED BY <2>1 DEF GamesNamed
    <1> QED BY <1>4, <1>5, <1>7 DEF RoomInv, Idle, RoomAtHand

(* A server gets room, and the queue is told how much.                     *)
LEMMA RoomStarts ==
    ASSUME TypeOK, TypeOK', RoomInv, Idle, UNCHANGED gq, NamesLeft, NEW s \in Servers,
           Open' \subseteq Open \cup {s}, StartServing(maxgame'[s] - gamenum'[s])
    PROVE  RoomInv' /\ (link'[s] # NoLink => RoomAtHand')
    <1>1. gamenum'[s] \in Nat /\ maxgame'[s] \in Nat
          BY DEF TypeOK
    <1>2. s \in Open' <=> link'[s] # NoLink /\ maxgame'[s] - gamenum'[s] > 0
          BY <1>1 DEF Open
    <1>3. \A i, j \in DOMAIN gq' : gq'[i].gamename = gq'[j].gamename => i = j
          BY DEF RoomInv
    <1>4. (\A j \in DOMAIN gq : GamesNamed(gq[j].gamename) = {})'
          <2>1. ASSUME NEW j \in DOMAIN gq, NEW n, n = gq[j].gamename
                PROVE  GamesNamed(n)' = {}
                BY <2>1, QueueIndices DEF RoomInv, NamesLeft
          <2> QED BY <2>1 DEF GamesNamed
    <1>5. CASE gq = <<>>
          BY <1>3, <1>4, <1>5 DEF RoomInv, Idle, StartServing, RoomAtHand
    <1>6. CASE gq # <<>>
          <2>1. Open = {}
                BY <1>6 DEF RoomInv
          <2>2. CASE maxgame'[s] - gamenum'[s] > 0
                <3>1. /\ Open' \subseteq {s} /\ budget' = maxgame'[s] - gamenum'[s]
                      /\ link'[s] # NoLink => Open' # {}
                      BY <1>2, <1>6, <2>1, <2>2 DEF StartServing
                <3> QED BY <1>3, <1>4, <2>2, <3>1 DEF RoomInv, Idle, RoomAtHand
          <2>3. CASE ~(maxgame'[s] - gamenum'[s] > 0)
                <3>1. Open' = {} /\ budget' = 0
                      BY <1>2, <1>6, <2>1, <2>3 DEF StartServing
                <3> QED BY <1>3, <1>4, <3>1 DEF RoomInv, Idle, RoomAtHand
          <2> QED BY <2>2, <2>3
    <1> QED BY <1>5, <1>6

(* The request at the head gets a game on the one server with room.  If    *)
(* that is not active it is taken out of the queue and the loop ends.      *)
LEMMA HeadAdmitted ==
    ASSUME Kinds = {"ok"}, IInv, LinkedInv, RoomInv, ServeQueue
    PROVE  IF Open = {}
             THEN UNCHANGED <<game, gamenum, sq>> /\ budget' = 0
             ELSE /\ PlaceGame(Head(gq).clientid, Head(gq).gamename)
                  /\ budget' = IF Len(gq) = 1 THEN 0 ELSE budget - 1
    <1> DEFINE c == Head(gq).clientid
               n == Head(gq).gamename
    <1>1. c \in Clients /\ n = gq[1].gamename /\ 1 \in DOMAIN gq
          BY HeadPoints
    <1>2. kind[c] = "ok"
          BY <1>1 DEF IInv, TypeOK
    <1>3. ~NameTaken(c, n)
          BY <1>1, HeadPoints DEF NameTaken, RoomInv
    <1>4. (Open # {} <=> Admitted(c, n)) /\ (Open = {} <=> MustWait(c, n))
          BY <1>2, <1>3 DEF Admitted, MustWait, TooHard
    <1> QED BY <1>4, HeadPoints DEF ServeQueue

LEMMA RoomServes ==
    ASSUME Kinds = {"ok"}, IInv, TypeOK', LinkedInv, RoomInv, ServeQueue, Open # {}
    PROVE  RoomInv' /\ RoomAtHand'
    <1> DEFINE c == Head(gq).clientid
               n == Head(gq).gamename
               new(s) == [name |-> n, d2gs |-> s, created |-> FALSE, gid |-> 0, chars |-> {}]
    <1>1. /\ n = gq[1].gamename /\ 1 \in DOMAIN gq
          /\ gq \in Seq(Entry) /\ gq' \in Seq(Entry) /\ Cut(gq, gq', 1)
          BY HeadPoints, TailCuts DEF IInv, TypeOK, ServeQueue
    <1>2. PICK s \in Servers : Open = {s} /\ maxgame[s] - gamenum[s] = budget
          <2>1. PICK s \in Servers : Open \subseteq {s} /\ maxgame[s] - gamenum[s] = budget
                BY DEF ServeQueue, RoomInv
          <2>2. Open = {s}
                BY <2>1
          <2> QED BY <2>1, <2>2
    <1>3. PICK t \in Chosen, i \in Fresh(UsedGameIds) :
             game' = With(game, i, new(t)) /\ gamenum' = [gamenum EXCEPT ![t] = @ + 1]
          BY HeadAdmitted DEF PlaceGame
    <1>4. t = s
          BY <1>2, ChosenFacts DEF Chosen
    <1>5. new(t).name = n
          OBVIOUS
    <1> HIDE DEF new, n, c
    <1>6. ASSUME NEW m, m # n, GamesNamed(m) = {}
          PROVE  GamesNamed(m)' = {}
          BY <1>3, <1>5, <1>6 DEF GamesNamed, With
    <1>7. /\ \A j \in DOMAIN gq' : Shift(1, j) \in DOMAIN gq \ {1} /\ gq'[j] = gq[Shift(1, j)]
          /\ \A j, l \in DOMAIN gq' : Shift(1, j) = Shift(1, l) => j = l
          BY <1>1, CutFacts
    <1>8. \A j, l \in DOMAIN gq' : gq'[j].gamename = gq'[l].gamename => j = l
          BY <1>7 DEF RoomInv
    <1>9. (\A j \in DOMAIN gq : GamesNamed(gq[j].gamename) = {})'
          <2>1. ASSUME NEW j \in DOMAIN gq', NEW m, m = gq'[j].gamename
                PROVE  GamesNamed(m)' = {}
                <3>1. m # n
                      BY <1>1, <1>7, <2>1 DEF RoomInv
                <3>2. GamesNamed(m) = {}
                      BY <1>7, <2>1 DEF RoomInv
                <3> QED BY <1>6, <3>1, <3>2
          <2> QED BY <2>1 DEF GamesNamed
    <1>10. /\ UNCHANGED <<link, maxgame>> /\ budget > 0
           /\ gamenum' = [gamenum EXCEPT ![s] = @ + 1]
           /\ gamenum \in [Servers -> Nat] /\ maxgame \in [Servers -> Nat] /\ budget \in Nat
           BY <1>3, <1>4 DEF ServeQueue, IInv, TypeOK
    <1>11. /\ gamenum'[s] = gamenum[s] + 1
           /\ \A r \in Servers \ {s} : gamenum'[r] = gamenum[r]
           BY <1>10
    <1>12. Open' \subseteq {s} /\ (s \in Open' <=> budget - 1 > 0)
           <2>1. \A r \in Servers \ {s} : r \notin Open'
                 BY <1>2, <1>10, <1>11 DEF Open
           <2>2. link[s] # NoLink
                 BY <1>2 DEF Open
           <2>3. gamenum[s] + 1 < maxgame[s] <=> budget - 1 > 0
                 BY <1>2, <1>10
           <2>4. s \in Open' <=> budget - 1 > 0
                 BY <1>10, <1>11, <2>2, <2>3 DEF Open
           <2> QED BY <2>1, <2>4 DEF Open
    <1>13. maxgame'[s] - gamenum'[s] = budget - 1
           BY <1>2, <1>10, <1>11
    <1>14. CASE Len(gq) = 1
           <2>1. budget' = 0 /\ gq' = <<>>
                 BY <1>1, <1>14, HeadAdmitted, EmptySeq DEF Cut
           <2> QED BY <1>8, <1>9, <2>1 DEF RoomInv, RoomAtHand
    <1>15. CASE Len(gq) # 1
           <2>1. budget' = budget - 1
                 BY <1>15, HeadAdmitted
           <2>2. budget' > 0 => Open' = {s} /\ maxgame'[s] - gamenum'[s] = budget'
                 BY <1>12, <1>13, <2>1
           <2>3. budget' = 0 => Open' = {}
                 BY <1>10, <1>12, <2>1
           <2> QED BY <1>8, <1>9, <2>2, <2>3 DEF RoomInv, Idle, RoomAtHand
    <1> QED BY <1>14, <1>15

(* No server has room: the request leaves the queue and the loop ends.     *)
LEMMA HeadDropped ==
    ASSUME Kinds = {"ok"}, IInv, TypeOK', LinkedInv, RoomInv, ServeQueue, Open = {}
    PROVE  RoomInv' /\ RoomAtHand'
    <1>1. UNCHANGED <<game, gamenum, link, maxgame>> /\ budget' = 0
          BY HeadAdmitted DEF ServeQueue
    <1>2. Open' = {} /\ NamesLeft
          BY <1>1 DEF Open, NamesLeft, GamesNamed
    <1>3. Cut(gq, gq', 1)
          BY HeadPoints, TailCuts DEF IInv, TypeOK, ServeQueue
    <1> QED BY <1>1, <1>2, <1>3, RoomShrinks DEF IInv

LEMMA DestroyRoom ==
    ASSUME IInv, TypeOK', RoomInv, Idle, NEW i \in DOMAIN game, DestroyGame(i),
           UNCHANGED <<gq, link, maxgame>>
    PROVE  RoomInv' /\ RoomAtHand'
    <1> DEFINE s == game[i].d2gs
    <1>1. s \in Servers /\ link[s] # NoLink
          BY DEF IInv, TypeOK, Game, CountInv, HostedOnActive
    <1>2. gamenum' = [gamenum EXCEPT ![s] = @ - 1] /\ StartServing(maxgame[s] - (gamenum[s] - 1))
          BY DEF DestroyGame
    <1>3. gamenum \in [Servers -> Nat] /\ gamenum'[s] = gamenum[s] - 1
          BY <1>1, <1>2 DEF IInv, TypeOK
    <1>4. Open' \subseteq Open \cup {s}
          BY <1>2, <1>3 DEF Open
    <1>5. StartServing(maxgame'[s] - gamenum'[s])
          BY <1>2, <1>3
    <1>6. NamesLeft
          BY DestroyLeft DEF NamesLeft, GamesNamed
    <1> HIDE DEF s
    <1> QED BY <1>1, <1>4, <1>5, <1>6, RoomStarts DEF IInv

LEMMA FewerGames ==
    ASSUME DOMAIN game' \subseteq DOMAIN game,
           \A i \in DOMAIN game' : game'[i].name = game[i].name
    PROVE  NamesLeft
    BY DEF NamesLeft, GamesNamed

LEMMA ClearRoom ==
    ASSUME TypeOK, TypeOK', RoomInv, Idle, UNCHANGED <<gq, gamequeue, budget>>, NEW s \in Servers,
           game' = game \/ game' = GamesWithout(s),
           gamenum' = [gamenum EXCEPT ![s] = 0], maxgame' = [maxgame EXCEPT ![s] = 0],
           \A t \in Servers \ {s} : link'[t] = link[t]
    PROVE  RoomInv' /\ RoomAtHand'
    <1>1. NamesLeft
          <2>1. CASE game' = GamesWithout(s)
                <3>1. DOMAIN game' \subseteq DOMAIN game /\ \A i \in DOMAIN game' : game'[i] = game[i]
                      BY <2>1 DEF GamesWithout, Without, Restrict
                <3> QED BY <3>1, FewerGames
          <2>2. CASE game' = game
                BY <2>2, FewerGames
          <2> QED BY <2>1, <2>2
    <1>2. gamenum'[s] = 0 /\ maxgame'[s] = 0
          BY DEF TypeOK
    <1>3. \A t \in Servers \ {s} : gamenum'[t] = gamenum[t] /\ maxgame'[t] = maxgame[t]
          BY DEF TypeOK
    <1>4. Open' \subseteq Open
          BY <1>2, <1>3 DEF Open
    <1> QED BY <1>1, <1>4, RoomShrinks DEF Idle

LEMMA MessageRoom ==
    ASSUME IInv, TypeOK', RoomInv, NEW k \in Links, OnGsMessage(k)
    PROVE  RoomInv' /\ (AuthedActive => RoomAtHand')
    <1> USE DEF serverVars, clientVars, netVars
    <1> DEFINE s == ServerOf[k]
    <1>1. s \in Servers /\ Idle /\ UNCHANGED <<gq, gamequeue>> /\ TypeOK
          BY LinksAssumption
          DEF IInv, OnGsMessage, OnMismatch, OnAuthRefused, OnAuthAccepted, OnSetGsInfo, OnCreateGameReply,
              OnJoinGameReply, OnUpdateGameInfo, OnCloseGame, Valid, Arrives
    <1>2. ASSUME UNCHANGED <<serverVars, budget>>, NamesLeft
          PROVE  RoomInv' /\ RoomAtHand'
          <2>1. Open' = Open
                BY <1>2 DEF Open
          <2> QED BY <1>1, <1>2, <2>1, RoomShrinks DEF Idle
    <1>3. ASSUME UNCHANGED game
          PROVE  NamesLeft
          BY <1>3, FewerGames
    <1>4. ASSUME NEW i \in DOMAIN game, DestroyGame(i), UNCHANGED <<link, maxgame>>
          PROVE  RoomInv' /\ RoomAtHand'
          BY <1>1, <1>4, DestroyRoom
    <1>5. CASE OnAuthAccepted(k)
          BY <1>1, <1>5, ClearRoom DEF OnAuthAccepted, IInv, TypeOK
    <1>6. CASE OnSetGsInfo(k)
          <2>1. AuthedActive => link'[s] # NoLink
                BY <1>6, LinksAssumption DEF OnSetGsInfo, Valid, AuthedActive
          <2>2. maxgame'[s] = Msg(k).maxgame /\ \A t \in Servers \ {s} : maxgame'[t] = maxgame[t]
                BY <1>1, <1>6 DEF OnSetGsInfo, TypeOK
          <2>3. UNCHANGED <<link, gamenum, game>>
                BY <1>6 DEF OnSetGsInfo
          <2>4. Open' \subseteq Open \cup {s}
                BY <2>2, <2>3 DEF Open
          <2>5. StartServing(maxgame'[s] - gamenum'[s])
                BY <1>6, <2>2, <2>3 DEF OnSetGsInfo
          <2> HIDE DEF s
          <2> QED BY <1>1, <1>3, <2>1, <2>3, <2>4, <2>5, RoomStarts
    <1>7. CASE OnCreateGameReply(k)
          <2> DEFINE q == Msg(k).seqno
                     i == sq[q].gameid
          <2>1. CASE UNCHANGED <<game, gamenum, budget>>
                BY <1>2, <1>3, <1>7, <2>1 DEF OnCreateGameReply
          <2>2. CASE Answers(q) /\ DestroyGame(i)
                BY <1>4, <1>7, <2>2 DEF OnCreateGameReply, Answers
          <2>3. CASE /\ Answers(q) /\ UNCHANGED <<gamenum, budget>>
                     /\ game' = [game EXCEPT ![i].created = TRUE, ![i].gid = Msg(k).gid]
                <3>1. DOMAIN game' = DOMAIN game /\ \A j \in DOMAIN game : game'[j].name = game[j].name
                      BY <2>3 DEF IInv, TypeOK, Game
                <3>2. NamesLeft
                      BY <3>1, FewerGames
                <3> QED BY <1>2, <1>7, <2>3, <3>2 DEF OnCreateGameReply
          <2> QED BY <1>7, <2>1, <2>2, <2>3 DEF OnCreateGameReply
    <1>8. CASE OnUpdateGameInfo(k)
          <2>1. DOMAIN game' = DOMAIN game /\ \A j \in DOMAIN game : game'[j].name = game[j].name
                <3>1. ASSUME NEW i \in DOMAIN game, NEW players, game' = [game EXCEPT ![i].chars = players]
                      PROVE  DOMAIN game' = DOMAIN game /\ \A j \in DOMAIN game : game'[j].name = game[j].name
                      BY <3>1 DEF IInv, TypeOK, Game
                <3>2. CASE UNCHANGED game
                      BY <3>2
                <3>3. ASSUME NEW i \in GamesWithGid(s, Msg(k).gid),
                             game' = [game EXCEPT ![i].chars =
                                        IF Msg(k).enter THEN @ \cup {Msg(k).char}
                                                        ELSE @ \ {Msg(k).char}]
                      PROVE  DOMAIN game' = DOMAIN game /\ \A j \in DOMAIN game : game'[j].name = game[j].name
                      BY <3>1, <3>3 DEF GamesWithGid, GamesOn
                <3> QED BY <1>8, <3>2, <3>3 DEF OnUpdateGameInfo
          <2>2. NamesLeft
                BY <2>1, FewerGames
          <2> QED BY <1>2, <1>8, <2>2 DEF OnUpdateGameInfo
    <1>9. CASE OnCloseGame(k)
          <2>1. CASE UNCHANGED <<game, gamenum, budget>>
                BY <1>2, <1>3, <1>9, <2>1 DEF OnCloseGame
          <2>2. ASSUME NEW i \in GamesWithGid(s, Msg(k).gid), DestroyGame(i)
                PROVE  RoomInv' /\ RoomAtHand'
                BY <1>4, <1>9, <2>2 DEF OnCloseGame, GamesWithGid, GamesOn
          <2> QED BY <1>9, <2>1, <2>2 DEF OnCloseGame
    <1>10. CASE OnMismatch(k) \/ OnAuthRefused(k) \/ OnJoinGameReply(k)
           BY <1>2, <1>3, <1>10 DEF OnMismatch, OnAuthRefused, OnJoinGameReply
    <1> QED BY <1>5, <1>6, <1>7, <1>8, <1>9, <1>10 DEF OnGsMessage

LEMMA ClientRoom ==
    ASSUME IInv, TypeOK', LinkedInv, RoomInv, NEW c \in Clients, ClientStep(c)
    PROVE  RoomInv' /\ RoomAtHand'
    <1> USE DEF serverVars, netVars, clientVars
    <1>1. Idle /\ UNCHANGED budget /\ budget' = 0
          BY DEF ClientStep, ClientConnect, ClientDrop, ClientReap, CancelCreate, CanAsk, Idle,
                 ClientSwitchChar, CreateGame, EnqueueGame, LeaveQueueByAsking, JoinGame
    <1>2. ASSUME UNCHANGED <<game, serverVars>>, SameQueue \/ Left(c)
          PROVE  RoomInv' /\ RoomAtHand'
          <2>1. Open' = Open /\ NamesLeft
                BY <1>2, FewerGames DEF Open
          <2> QED BY <1>1, <1>2, <2>1, RoomShrinks DEF IInv, SameQueue, Left
    <1>3. ASSUME NEW n \in Names, CreateGame(c, n)
          PROVE  RoomInv' /\ RoomAtHand'
          <2>1. gq = <<>> /\ gq' = <<>>
                BY <1>1, <1>3 DEF CreateGame, Admitted, RoomInv
          <2> QED BY <1>1, <2>1 DEF RoomInv, RoomAtHand
    <1>4. ASSUME NEW n \in Names, EnqueueGame(c, n)
          PROVE  RoomInv' /\ RoomAtHand'
          <2>1. Queued(c, n)
                BY <1>4 DEF EnqueueGame, CanAsk, MustWait, Queued, Alive
          <2> QED BY <1>4, <2>1, RoomQueued DEF EnqueueGame, IInv
    <1>5. ASSUME DestroyEntryOf(c), gamequeue' = [gamequeue EXCEPT ![c] = NoName],
                 UNCHANGED <<game, serverVars>>
          PROVE  RoomInv' /\ RoomAtHand'
          BY <1>2, <1>5, DestroyLeaves DEF IInv
    <1>6. CASE ClientReap(c) \/ CancelCreate(c) \/ \E n \in Names : LeaveQueueByAsking(c, n)
          BY <1>5, <1>6 DEF ClientReap, CancelCreate, LeaveQueueByAsking
    <1>7. CASE UNCHANGED <<gq, gamequeue, game, serverVars>>
          BY <1>2, <1>7 DEF SameQueue
    <1> QED BY <1>3, <1>4, <1>6, <1>7 DEF ClientStep, ClientConnect, ClientDrop,
               ClientSwitchChar, JoinGame

LEMMA RoomStep ==
    ASSUME Kinds = {"ok"}, IInv, TypeOK', LinkedInv, RoomInv, Next
    PROVE  RoomInv' /\ (AuthedActive /\ RoomAtHand => RoomAtHand')
    <1> USE DEF serverVars, netVars, clientVars, GsVars
    <1>1. ASSUME UNCHANGED <<gq, gamequeue, game, serverVars, budget>>, Idle
          PROVE  RoomInv' /\ RoomAtHand'
          <2>1. Open' = Open /\ NamesLeft
                BY <1>1, FewerGames DEF Open
          <2> QED BY <1>1, <2>1, RoomShrinks DEF IInv, Idle
    <1>2. CASE TimerStep
          <2>1. ASSUME NEW i \in DOMAIN game, VoidPurge(i)
                PROVE  RoomInv' /\ RoomAtHand'
                BY <2>1, DestroyRoom DEF VoidPurge
          <2> QED BY <1>1, <1>2, <2>1 DEF TimerStep, SqExpire
    <1>3. ASSUME NEW k \in Links, LinkReap(k)
          PROVE  RoomInv' /\ RoomAtHand'
          <2>1. ServerOf[k] \in Servers /\ Idle
                BY <1>3, LinksAssumption DEF LinkReap
          <2>2. CASE UNCHANGED <<game, serverVars>>
                BY <1>1, <1>3, <2>1, <2>2 DEF LinkReap
          <2>3. CASE link[ServerOf[k]] = k
                BY <1>3, <2>1, <2>3, ClearRoom DEF LinkReap, IInv, TypeOK
          <2> QED BY <1>3, <2>2, <2>3 DEF LinkReap
    <1>4. ASSUME NEW k \in Links, LinkDrop(k) \/ GsStep(k)
          PROVE  RoomInv' /\ RoomAtHand'
          BY <1>1, <1>4
          DEF LinkDrop, GsStep, LinkConnect, GsAuthReply, GsSetInfo, GsAnswer,
              GsJoin, GsRefuse, GsCreate, GsClose, GsPlayer, Asked, MayVolunteer
    <1>5. CASE ServeQueue
          BY <1>5, RoomServes, HeadDropped
    <1> QED BY <1>2, <1>3, <1>4, <1>5, ClientRoom, MessageRoom DEF Next

-----------------------------------------------------------------------------
(* Order.  Only the creation of a game and a request to join one add a     *)
(* request to those d2cs waits for.                                        *)
GoesToHead ==
    \A q \in DOMAIN sq' \ DOMAIN sq :
       sq'[q].gameid \notin DOMAIN game /\ gq # <<>> => sq'[q].clientid = Head(gq).clientid

OrderKept ==
    \A a, b \in Clients : gamequeue[a] # NoName /\ Ahead(gq', b, a) => Ahead(gq, b, a)

LEMMA PlacedRequest ==
    ASSUME NEW c, NEW n, PlaceGame(c, n)
    PROVE  \A q \in DOMAIN sq' \ DOMAIN sq : sq'[q].clientid = c
    <1>1. PICK q, i : sq' = With(sq, q, [clientid |-> c, gameid |-> i])
          BY DEF PlaceGame
    <1> QED BY <1>1 DEF With

LEMMA HeadFirst ==
    ASSUME Kinds = {"ok"}, IInv, LinkInv, LinkedInv, RoomInv, Next
    PROVE  GoesToHead
    <1> USE DEF serverVars, netVars, clientVars
    <1>1. CASE ServeQueue
          <2>1. CASE Open = {}
                BY <1>1, <2>1, HeadAdmitted DEF GoesToHead
          <2>2. CASE Open # {}
                BY <1>1, <2>2, HeadAdmitted, PlacedRequest DEF GoesToHead
          <2> QED BY <2>1, <2>2
    <1>2. CASE RequestsLeft
          BY <1>2 DEF RequestsLeft, GoesToHead
    <1>3. ASSUME NEW c \in Clients, NEW n \in Names, CreateGame(c, n)
          PROVE  gq = <<>>
          BY <1>3 DEF CreateGame, CanAsk, Admitted, RoomInv
    <1>4. ASSUME NEW c \in Clients, NEW i \in DOMAIN game, JoinGame(c, i)
          PROVE  GoesToHead
          <2>1. PICK q : sq' = With(sq, q, [clientid |-> c, gameid |-> i])
                BY <1>4 DEF JoinGame
          <2> QED BY <2>1 DEF GoesToHead, With
    <1>5. ASSUME NEW c \in Clients, ClientStep(c)
          PROVE  GoesToHead
          BY <1>2, <1>3, <1>4, <1>5, SameRequests
          DEF ClientStep, ClientConnect, ClientDrop, ClientReap, CancelCreate, GoesToHead,
              ClientSwitchChar, EnqueueGame, LeaveQueueByAsking
    <1>6. CASE TimerStep
          BY <1>2, <1>6, SameRequests, ForgottenRequests DEF TimerStep, SqExpire, VoidPurge
    <1>7. ASSUME NEW k \in Links, OnGsMessage(k) \/ LinkDrop(k) \/ LinkReap(k) \/ GsStep(k)
          PROVE  GoesToHead
          BY <1>2, <1>7, MessageRequests, LostRequests, GsRequests DEF NoNewRequest
    <1> QED BY <1>1, <1>5, <1>6, <1>7 DEF Next

LEMMA OrderStep ==
    ASSUME TypeOK, TypeOK', QueueEffect
    PROVE  OrderKept
    <1> SUFFICES ASSUME NEW a \in Clients, NEW b \in Clients, gamequeue[a] # NoName,
                        NEW i \in DOMAIN gq', NEW j \in DOMAIN gq', i < j,
                        gq'[i].clientid = b, gq'[j].clientid = a
                 PROVE  Ahead(gq, b, a)
        BY DEF OrderKept, Ahead
    <1>1. gq \in Seq(Entry) /\ gq' \in Seq(Entry)
          BY DEF TypeOK
    <1>2. CASE gq' = gq
          BY <1>2 DEF Ahead
    <1>3. ASSUME NEW c \in Clients, NEW n \in Names, Queued(c, n)
          PROVE  Ahead(gq, b, a)
          <2> DEFINE e == [clientid |-> c, gamename |-> n]
                     last == Len(gq) + 1
          <2>1. e \in Entry /\ e.clientid = c /\ a # c
                BY <1>3 DEF Entry, Queued
          <2>2. /\ Len(gq) \in Nat /\ DOMAIN gq = 1 .. Len(gq)
                /\ DOMAIN gq' = DOMAIN gq \cup {last} /\ gq'[last] = e
                /\ \A l \in DOMAIN gq : gq'[l] = gq[l]
                BY <1>1, <1>3, <2>1, AppendElements DEF Queued
          <2>3. j \in DOMAIN gq
                BY <2>1, <2>2
          <2>4. i \in DOMAIN gq
                BY <2>2, <2>3
          <2> QED BY <2>2, <2>3, <2>4 DEF Ahead
    <1>4. ASSUME NEW l, Cut(gq, gq', l)
          PROVE  Ahead(gq, b, a)
          <2>1. /\ Shift(l, i) \in DOMAIN gq /\ gq'[i] = gq[Shift(l, i)]
                /\ Shift(l, j) \in DOMAIN gq /\ gq'[j] = gq[Shift(l, j)]
                /\ Shift(l, i) < Shift(l, j)
                BY <1>1, <1>4, CutFacts
          <2> QED BY <2>1 DEF Ahead
    <1> QED BY <1>2, <1>3, <1>4 DEF QueueEffect, SameQueue, Left

ServedInv == QueueInv /\ RoomInv

LEMMA ServedInvariance == Kinds = {"ok"} /\ Spec => []ServedInv
    <1>1. Init => RoomInv
          BY DEF Init, RoomInv
    <1>2. ASSUME Kinds = {"ok"}, QueueInv, QueueInv', RoomInv, [Next]_vars
          PROVE  RoomInv'
          <2>1. CASE Next
                BY <1>2, <2>1, RoomStep DEF QueueInv, MessageInv, IInv
          <2>2. CASE UNCHANGED vars
                BY <2>2, <1>2 DEF vars, serverVars, netVars, RoomInv, Open, GamesNamed, Idle
          <2> QED BY <1>2, <2>1, <2>2
    <1>3. CASE Kinds = {"ok"}
          <2>1. QueueInv /\ RoomInv /\ QueueInv' /\ [Next]_vars => RoomInv'
                BY <1>2, <1>3
          <2> QED BY <1>1, <2>1, QueueInvariance, PTL DEF Spec, ServedInv
    <1> QED BY <1>3

(* With one connection for each game server and characters that may create *)
(* any game, the loop that serves the queue never looks at a request when  *)
(* no server has room for it, and stops only when no server has room or    *)
(* nobody waits.                                                           *)
THEOREM RoomMatched == Kinds = {"ok"} /\ OneLinkEach /\ Spec => []RoomServed
    <1>1. Init => AuthedActive /\ RoomAtHand
          BY DEF Init, AuthedActive, RoomAtHand
    <1>2. ASSUME Kinds = {"ok"}, OneLinkEach, ServedInv, ServedInv', AuthedActive, RoomAtHand,
                 [Next]_vars
          PROVE  AuthedActive' /\ RoomAtHand'
          <2>1. CASE Next
                BY <1>2, <2>1, AuthedActiveStep, RoomStep DEF ServedInv, QueueInv, MessageInv, IInv
          <2>2. CASE UNCHANGED vars
                BY <2>2, <1>2 DEF vars, serverVars, netVars, AuthedActive, RoomAtHand, Open
          <2> QED BY <1>2, <2>1, <2>2
    <1>3. ServedInv /\ RoomAtHand => RoomServed
          BY DEF ServedInv, RoomInv, RoomServed, RoomAtHand
    <1>4. CASE Kinds = {"ok"} /\ OneLinkEach
          <2>1. ServedInv /\ AuthedActive /\ RoomAtHand /\ ServedInv' /\ [Next]_vars
                  => AuthedActive' /\ RoomAtHand'
                BY <1>2, <1>4
          <2>2. Spec => []ServedInv
                BY <1>4, ServedInvariance
          <2> QED BY <1>1, <1>3, <2>1, <2>2, PTL DEF Spec
    <1> QED BY <1>4

(* If characters may create any game, a new game belongs to the client at  *)
(* the head of the queue, if there is a queue, and the order of those who  *)
(* wait never changes, however connections of the game servers overlap.    *)
THEOREM QueueInOrder == Kinds = {"ok"} /\ Spec => NoOvertaking
    <1>1. ASSUME Kinds = {"ok"}, ServedInv, ServedInv', [Next]_vars
          PROVE  [GoesToHead /\ OrderKept]_vars
          <2>1. CASE Next
                BY <1>1, <2>1, HeadFirst, OrderStep, StepQueueEffect
                DEF ServedInv, QueueInv, MessageInv, IInv
          <2> QED BY <1>1, <2>1
    <1>2. CASE Kinds = {"ok"}
          <2>1. ServedInv /\ ServedInv' /\ [Next]_vars => [GoesToHead /\ OrderKept]_vars
                BY <1>1, <1>2
          <2>2. Spec => []ServedInv
                BY <1>2, ServedInvariance
          <2> QED BY <2>1, <2>2, PTL DEF Spec, NoOvertaking, GoesToHead, OrderKept
    <1> QED BY <1>2

=============================================================================
