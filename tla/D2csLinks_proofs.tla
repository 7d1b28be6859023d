--------------------------- MODULE D2csLinks_proofs ---------------------------
(***************************************************************************)
(* Proofs about the messages between d2cs and the game servers of          *)
(* D2csGames: an answer is about the request d2cs finds by its number, and *)
(* the games d2cs offers run on the server it names, also while several    *)
(* connections of one server overlap.                                      *)
(***************************************************************************)
EXTENDS D2csGames_proofs, ListLemmas

-----------------------------------------------------------------------------
(* Connections.  A server is active on a connection of its own, which was  *)
(* authenticated; before that a connection carries nothing but the answer  *)
(* to its authentication.                                                  *)
ActiveLinks ==
    \A s \in Servers : link[s] # NoLink =>
        ServerOf[link[s]] = s /\ lstate[link[s]] \in {"authed", "destroy"}

NewLinks ==
    \A k \in Links : lstate[k] \in {"gone", "connected"} =>
        \A j \in DOMAIN fromGs[k] : fromGs[k][j].type = "authreply"

LinkInv == ActiveLinks /\ NewLinks

(* What an action of d2cs or of a game server does to a channel.           *)
Read(k) == fromGs[k] # <<>> /\ fromGs' = [fromGs EXCEPT ![k] = Tail(@)]

LEMMA MessageReads ==
    ASSUME TypeOK, NEW k \in Links, OnGsMessage(k)
    PROVE  /\ Read(k) /\ UNCHANGED <<toGs, hosted>>
           /\ Msg(k) = fromGs[k][1] /\ Msg(k) \in FromGsMsg
    <1>1. Read(k) /\ UNCHANGED <<toGs, hosted>>
          BY DEF OnGsMessage, OnMismatch, OnAuthRefused, OnAuthAccepted, OnSetGsInfo,
                 OnCreateGameReply, OnJoinGameReply, OnUpdateGameInfo, OnCloseGame,
                 Valid, Arrives, Receive, Read
    <1>2. fromGs[k] \in Seq(FromGsMsg)
          BY DEF TypeOK
    <1> QED BY <1>1, <1>2, TailElements, HeadTailProperties DEF Read, Msg

LEMMA ReadKeepsNew ==
    ASSUME TypeOK, NewLinks, NEW k \in Links, Read(k),
           \A l \in Links : lstate'[l] \in {"gone", "connected"} => lstate[l] = lstate'[l]
    PROVE  NewLinks'
    <1> SUFFICES ASSUME NEW l \in Links, lstate'[l] \in {"gone", "connected"},
                        NEW j \in DOMAIN fromGs'[l]
                 PROVE  fromGs'[l][j].type = "authreply"
        BY DEF NewLinks
    <1>1. fromGs \in [Links -> Seq(FromGsMsg)]
          BY DEF TypeOK
    <1>2. CASE l = k
          <2>1. fromGs'[l] = Tail(fromGs[l])
                BY <1>1, <1>2 DEF Read
          <2>2. j + 1 \in DOMAIN fromGs[l] /\ fromGs'[l][j] = fromGs[l][j + 1]
                BY <1>1, <1>2, <2>1, TailElements DEF Read
          <2> QED BY <2>2 DEF NewLinks
    <1>3. CASE l # k
          BY <1>1, <1>3 DEF NewLinks, Read
    <1> QED BY <1>2, <1>3

LEMMA MessageLinkInv ==
    ASSUME TypeOK, LinkInv, NEW k \in Links, OnGsMessage(k)
    PROVE  LinkInv'
    <1>1. CASE UNCHANGED <<link, lstate>>
          BY <1>1, MessageReads, ReadKeepsNew DEF LinkInv, ActiveLinks
    <1>2. CASE OnAuthAccepted(k)
          <2>1. /\ lstate \in [Links -> {"gone", "connected", "authed", "destroy"}]
                /\ link \in [Servers -> Links \cup {NoLink}]
                /\ ServerOf[k] \in Servers
                BY LinksAssumption DEF TypeOK
          <2>2. /\ lstate' = [lstate EXCEPT ![k] = "authed"]
                /\ link' = [link EXCEPT ![ServerOf[k]] = k]
                BY <1>2 DEF OnAuthAccepted
          <2>3. ActiveLinks'
                BY <2>1, <2>2, LinksAssumption DEF LinkInv, ActiveLinks
          <2>4. \A l \in Links : lstate'[l] \in {"gone", "connected"} => lstate[l] = lstate'[l]
                BY <2>1, <2>2
          <2> QED BY <2>3, <2>4, MessageReads, ReadKeepsNew DEF LinkInv
    <1> QED BY <1>1, <1>2 DEF OnGsMessage, OnMismatch, OnAuthRefused, OnSetGsInfo, serverVars,
                   OnCreateGameReply, OnJoinGameReply, OnUpdateGameInfo, OnCloseGame

(* What a game server says, and when it may.                               *)
Said(k, m) ==
    /\ m \in FromGsMsg
    /\ fromGs' = [fromGs EXCEPT ![k] = Append(@, m)]
    /\ IF m.type = "authreply" THEN lstate[k] = "connected" ELSE lstate[k] = "authed"
    /\ UNCHANGED <<game, sq, link, lstate>>

LEMMA GsSays ==
    ASSUME TypeOK, NEW k \in Links, GsStep(k)
    PROVE  \/ LinkConnect(k)
           \/ \E ok \in BOOLEAN : Said(k, [type |-> "authreply", ok |-> ok])
                                    /\ UNCHANGED <<toGs, hosted>>
           \/ \E n \in Capacities : Said(k, [type |-> "setgsinfo", maxgame |-> n])
                                      /\ UNCHANGED <<toGs, hosted>>
           \/ \E gid \in hosted[k], p \in Players, b \in BOOLEAN :
                 Said(k, [type |-> "updategameinfo", gid |-> gid, char |-> p, enter |-> b])
                   /\ UNCHANGED <<toGs, hosted>>
           \/ \E gid \in hosted[k] : Said(k, [type |-> "closegame", gid |-> gid])
                   /\ hosted' = [hosted EXCEPT ![k] = @ \ {gid}] /\ UNCHANGED toGs
           \/ /\ toGs[k] # <<>> /\ toGs' = [toGs EXCEPT ![k] = Tail(@)]
              /\ LET q == Head(toGs[k]).seqno
                 IN  \/ Said(k, [type |-> "joingamereply", seqno |-> q]) /\ UNCHANGED hosted
                     \/ /\ Head(toGs[k]).type = "creategamereq" /\ UNCHANGED hosted
                        /\ Said(k, [type |-> "creategamereply", seqno |-> q,
                                    ok |-> FALSE, gid |-> 0])
                     \/ \E gid \in Nat \ hosted[k] :
                           /\ Head(toGs[k]).type = "creategamereq"
                           /\ Said(k, [type |-> "creategamereply", seqno |-> q,
                                       ok |-> TRUE, gid |-> gid])
                           /\ hosted' = [hosted EXCEPT ![k] = @ \cup {gid}]
    <1> USE DEF GsVars, serverVars, MayVolunteer, Asked, Says
    <1>1. hosted[k] \subseteq Nat /\ toGs[k] \in Seq(ToGsMsg)
          BY DEF TypeOK
    <1>2. toGs[k] # <<>> => Head(toGs[k]).seqno \in Nat
          BY <1>1, SeqFacts, MessageFields
    <1>3. ASSUME NEW ok \in BOOLEAN, GsAuthReply(k, ok)
          PROVE  Said(k, [type |-> "authreply", ok |-> ok]) /\ UNCHANGED <<toGs, hosted>>
          BY <1>3, MessageTypes DEF GsAuthReply, Said
    <1>4. ASSUME NEW n \in Capacities, GsSetInfo(k, n)
          PROVE  Said(k, [type |-> "setgsinfo", maxgame |-> n]) /\ UNCHANGED <<toGs, hosted>>
          BY <1>4, MessageTypes DEF GsSetInfo, Said
    <1>5. ASSUME NEW gid \in hosted[k], NEW p \in Players, NEW b \in BOOLEAN,
                 GsPlayer(k, gid, p, b)
          PROVE  Said(k, [type |-> "updategameinfo", gid |-> gid, char |-> p, enter |-> b])
                   /\ UNCHANGED <<toGs, hosted>>
          BY <1>1, <1>5, MessageTypes DEF GsPlayer, Said
    <1>6. ASSUME NEW gid \in hosted[k], GsClose(k, gid)
          PROVE  Said(k, [type |-> "closegame", gid |-> gid])
                   /\ hosted' = [hosted EXCEPT ![k] = @ \ {gid}] /\ UNCHANGED toGs
          BY <1>1, <1>6, MessageTypes DEF GsClose, Said
    <1>7. CASE GsJoin(k)
          <2>1. Said(k, [type |-> "joingamereply", seqno |-> Head(toGs[k]).seqno])
                BY <1>2, <1>7, MessageTypes DEF GsJoin, Said
          <2> QED BY <1>7, <2>1 DEF GsJoin
    <1>8. CASE GsRefuse(k)
          <2>1. Said(k, [type |-> "creategamereply", seqno |-> Head(toGs[k]).seqno,
                         ok |-> FALSE, gid |-> 0])
                BY <1>2, <1>8, MessageTypes DEF GsRefuse, Said
          <2> QED BY <1>8, <2>1 DEF GsRefuse
    <1>9. CASE GsCreate(k)
          <2>1. PICK gid \in Fresh(hosted[k]) :
                   /\ hosted' = [hosted EXCEPT ![k] = @ \cup {gid}]
                   /\ Says(k, [type |-> "creategamereply", seqno |-> Head(toGs[k]).seqno,
                               ok |-> TRUE, gid |-> gid])
                BY <1>9 DEF GsCreate
          <2>2. gid \in Nat \ hosted[k]
                BY <2>1, FreshFacts
          <2>3. Said(k, [type |-> "creategamereply", seqno |-> Head(toGs[k]).seqno,
                         ok |-> TRUE, gid |-> gid])
                BY <1>2, <1>9, <2>1, <2>2, MessageTypes DEF GsCreate, Said
          <2> QED BY <1>9, <2>1, <2>2, <2>3 DEF GsCreate
    <1> QED BY <1>3, <1>4, <1>5, <1>6, <1>7, <1>8, <1>9 DEF GsStep, GsAnswer

LEMMA SaidKeepsNew ==
    ASSUME TypeOK, NewLinks, NEW k \in Links, NEW m, Said(k, m)
    PROVE  NewLinks'
    <1> SUFFICES ASSUME NEW l \in Links, lstate[l] \in {"gone", "connected"},
                        NEW j \in DOMAIN fromGs'[l]
                 PROVE  fromGs'[l][j].type = "authreply"
        BY DEF NewLinks, Said
    <1>1. fromGs \in [Links -> Seq(FromGsMsg)] /\ m \in FromGsMsg
          BY DEF TypeOK, Said
    <1>2. CASE l = k
          <2>1. fromGs'[l] = Append(fromGs[l], m) /\ m.type = "authreply"
                BY <1>1, <1>2 DEF Said
          <2>2. j \in DOMAIN fromGs[l] \/ fromGs'[l][j] = m
                BY <1>1, <2>1, AppendElements
          <2>3. j \in DOMAIN fromGs[l] => fromGs'[l][j] = fromGs[l][j]
                BY <1>1, <2>1, AppendElements
          <2> QED BY <2>1, <2>2, <2>3 DEF NewLinks
    <1>3. CASE l # k
          BY <1>1, <1>3 DEF NewLinks, Said
    <1> QED BY <1>2, <1>3

LEMMA GsLinkInv ==
    ASSUME TypeOK, LinkInv, NEW k \in Links, GsStep(k)
    PROVE  LinkInv'
    <1>1. CASE LinkConnect(k)
          <2>1. /\ lstate \in [Links -> {"gone", "connected", "authed", "destroy"}]
                /\ lstate[k] = "gone" /\ lstate' = [lstate EXCEPT ![k] = "connected"]
                /\ UNCHANGED <<link, fromGs>>
                BY <1>1 DEF LinkConnect, TypeOK, serverVars
          <2>2. NewLinks'
                BY <2>1 DEF LinkInv, NewLinks
          <2>3. ActiveLinks'
                BY <2>1 DEF LinkInv, ActiveLinks
          <2> QED BY <2>2, <2>3 DEF LinkInv
    <1>2. ASSUME NEW m, Said(k, m)
          PROVE  LinkInv'
          <2>1. UNCHANGED <<link, lstate>>
                BY <1>2 DEF Said
          <2> QED BY <1>2, <2>1, SaidKeepsNew DEF LinkInv, ActiveLinks
    <1> QED BY <1>1, <1>2, GsSays

LEMMA LostLinkInv ==
    ASSUME TypeOK, LinkInv, NEW k \in Links, LinkDrop(k) \/ LinkReap(k)
    PROVE  LinkInv'
    <1>1. /\ lstate \in [Links -> {"gone", "connected", "authed", "destroy"}]
          /\ link \in [Servers -> Links \cup {NoLink}]
          /\ fromGs \in [Links -> Seq(FromGsMsg)]
          /\ ServerOf[k] \in Servers
          BY LinksAssumption DEF TypeOK
    <1>2. CASE LinkDrop(k)
          <2>1. lstate' = [lstate EXCEPT ![k] = "destroy"] /\ UNCHANGED <<link, fromGs>>
                BY <1>2 DEF LinkDrop, serverVars
          <2> QED BY <1>1, <2>1 DEF LinkInv, ActiveLinks, NewLinks
    <1>3. CASE LinkReap(k)
          <2>1. /\ lstate' = [lstate EXCEPT ![k] = "gone"]
                /\ fromGs' = [fromGs EXCEPT ![k] = <<>>]
                /\ \/ link[ServerOf[k]] # k /\ link' = link
                   \/ link' = [link EXCEPT ![ServerOf[k]] = NoLink]
                BY <1>3 DEF LinkReap, serverVars
          <2>2. NewLinks'
                BY <1>1, <2>1 DEF LinkInv, NewLinks
          <2>3. ActiveLinks'
                BY <1>1, <2>1 DEF LinkInv, ActiveLinks
          <2> QED BY <2>2, <2>3 DEF LinkInv
    <1> QED BY <1>2, <1>3

(* Everything else leaves the connections and what arrives on them alone.  *)
LEMMA OtherSteps ==
    ASSUME Next
    PROVE  \/ UNCHANGED <<link, lstate, fromGs, hosted>>
           \/ \E k \in Links : OnGsMessage(k) \/ LinkDrop(k) \/ LinkReap(k) \/ GsStep(k)
    <1> USE DEF netVars, serverVars
    <1>1. CASE ServeQueue
          BY <1>1 DEF ServeQueue
    <1>2. CASE TimerStep
          BY <1>2 DEF TimerStep, SqExpire, VoidPurge
    <1>3. ASSUME NEW c \in Clients, ClientStep(c)
          PROVE  UNCHANGED <<link, lstate, fromGs, hosted>>
          BY <1>3
          DEF ClientStep, ClientConnect, ClientDrop, ClientReap, CancelCreate,
              ClientSwitchChar, CreateGame, EnqueueGame, LeaveQueueByAsking, JoinGame
    <1> QED BY <1>1, <1>2, <1>3 DEF Next

LEMMA LinkInvStep ==
    ASSUME TypeOK, LinkInv, Next
    PROVE  LinkInv'
    <1>1. CASE UNCHANGED <<link, lstate, fromGs, hosted>>
          BY <1>1 DEF LinkInv, ActiveLinks, NewLinks
    <1> QED BY <1>1, OtherSteps, MessageLinkInv, GsLinkInv, LostLinkInv

-----------------------------------------------------------------------------
(* The numbers of the requests and answers in a channel.                   *)
Reply(m) == m.type \in {"creategamereply", "joingamereply"}
Asking(s) == {s[j].seqno : j \in DOMAIN s}
Answering(s) == {s[j].seqno : j \in {x \in DOMAIN s : Reply(s[x])}}

LEMMA Flight == \A k : InFlight(k) = Asking(toGs[k]) \cup Answering(fromGs[k])
    BY DEF InFlight, Asking, Answering, Reply

LEMMA AskingFacts ==
    ASSUME NEW T, NEW s \in Seq(T)
    PROVE  /\ \A m \in T : Asking(Append(s, m)) = Asking(s) \cup {m.seqno}
           /\ s # <<>> => Asking(s) = Asking(Tail(s)) \cup {Head(s).seqno}
    <1>1. ASSUME NEW m \in T
          PROVE  Asking(Append(s, m)) = Asking(s) \cup {m.seqno}
          <2> DEFINE t == Append(s, m)
          <2>1. /\ DOMAIN t = DOMAIN s \cup {Len(s) + 1} /\ t[Len(s) + 1] = m
                /\ \A j \in DOMAIN s : t[j] = s[j]
                BY AppendElements
          <2> HIDE DEF t
          <2>2. \A j \in DOMAIN t : t[j].seqno \in Asking(s) \cup {m.seqno}
                BY <2>1 DEF Asking
          <2>3. \A j \in DOMAIN s : s[j].seqno \in Asking(t)
                BY <2>1 DEF Asking
          <2>4. m.seqno \in Asking(t)
                BY <2>1 DEF Asking
          <2>5. Asking(t) \subseteq Asking(s) \cup {m.seqno}
                BY <2>2 DEF Asking
          <2>6. Asking(s) \subseteq Asking(t)
                BY <2>3 DEF Asking
          <2>7. Asking(t) = Asking(s) \cup {m.seqno}
                BY <2>4, <2>5, <2>6
          <2> QED BY <2>7 DEF t
    <1>2. ASSUME s # <<>>
          PROVE  Asking(s) = Asking(Tail(s)) \cup {Head(s).seqno}
          <2>1. Asking(Tail(s)) \cup {Head(s).seqno} \subseteq Asking(s)
                BY <1>2, TailElements DEF Asking
          <2>2. ASSUME NEW j \in DOMAIN s
                PROVE  s[j].seqno \in Asking(Tail(s)) \cup {Head(s).seqno}
                <3>1. CASE j = 1
                      BY <1>2, <3>1, TailElements
                <3>2. CASE j # 1
                      <4>1. PICK i \in DOMAIN Tail(s) : Tail(s)[i] = s[j]
                            BY <1>2, <3>2, TailElements
                      <4> QED BY <4>1 DEF Asking
                <3> QED BY <3>1, <3>2
          <2> QED BY <2>1, <2>2 DEF Asking
    <1> QED BY <1>1, <1>2

LEMMA AnsweringFacts ==
    ASSUME NEW T, NEW s \in Seq(T)
    PROVE  /\ \A m \in T : Answering(Append(s, m)) =
                             Answering(s) \cup (IF Reply(m) THEN {m.seqno} ELSE {})
           /\ s # <<>> => Answering(s) = Answering(Tail(s)) \cup
                                           (IF Reply(Head(s)) THEN {Head(s).seqno} ELSE {})
    <1>1. ASSUME NEW m \in T
          PROVE  Answering(Append(s, m)) =
                   Answering(s) \cup (IF Reply(m) THEN {m.seqno} ELSE {})
          <2> DEFINE t == Append(s, m)
          <2>1. /\ DOMAIN t = DOMAIN s \cup {Len(s) + 1} /\ t[Len(s) + 1] = m
                /\ \A j \in DOMAIN s : t[j] = s[j]
                BY AppendElements
          <2> HIDE DEF t
          <2> DEFINE new == IF Reply(m) THEN {m.seqno} ELSE {}
          <2>2. \A j \in DOMAIN t : Reply(t[j]) => t[j].seqno \in Answering(s) \cup new
                BY <2>1 DEF Answering
          <2>3. \A j \in DOMAIN s : Reply(s[j]) => s[j].seqno \in Answering(t)
                BY <2>1 DEF Answering
          <2>4. new \subseteq Answering(t)
                BY <2>1 DEF Answering
          <2>5. Answering(t) \subseteq Answering(s) \cup new
                BY <2>2 DEF Answering
          <2>6. Answering(s) \subseteq Answering(t)
                BY <2>3 DEF Answering
          <2>7. Answering(t) = Answering(s) \cup new
                BY <2>4, <2>5, <2>6
          <2> QED BY <2>7 DEF t
    <1>2. ASSUME s # <<>>
          PROVE  Answering(s) = Answering(Tail(s)) \cup
                                  (IF Reply(Head(s)) THEN {Head(s).seqno} ELSE {})
          <2> DEFINE rest == Answering(Tail(s)) \cup
                               (IF Reply(Head(s)) THEN {Head(s).seqno} ELSE {})
          <2>1. rest \subseteq Answering(s)
                BY <1>2, TailElements DEF Answering
          <2>2. ASSUME NEW j \in DOMAIN s, Reply(s[j])
                PROVE  s[j].seqno \in rest
                <3>1. CASE j = 1
                      BY <1>2, <2>2, <3>1, TailElements
                <3>2. CASE j # 1
                      <4>1. PICK i \in DOMAIN Tail(s) : Tail(s)[i] = s[j]
                            BY <1>2, <3>2, TailElements
                      <4> QED BY <2>2, <4>1 DEF Answering
                <3> QED BY <3>1, <3>2
          <2> QED BY <2>1, <2>2 DEF Answering
    <1> QED BY <1>1, <1>2

(* What is in flight on a link after a message is sent or read on one.     *)
LEMMA SendFlight ==
    ASSUME TypeOK, NEW k \in Links, NEW m \in ToGsMsg, Send(k, m), UNCHANGED fromGs
    PROVE  \A l \in Links : InFlight(l)' = InFlight(l) \cup (IF l = k THEN {m.seqno} ELSE {})
    <1>1. toGs \in [Links -> Seq(ToGsMsg)]
          BY DEF TypeOK
    <1>2. \A l \in Links : toGs'[l] = IF l = k THEN Append(toGs[l], m) ELSE toGs[l]
          BY <1>1 DEF Send
    <1>3. Asking(Append(toGs[k], m)) = Asking(toGs[k]) \cup {m.seqno}
          BY <1>1, AskingFacts
    <1>4. \A l \in Links : InFlight(l)' = Asking(toGs'[l]) \cup Answering(fromGs[l])
          BY DEF InFlight, Asking, Answering, Reply
    <1> QED BY <1>2, <1>3, <1>4, Flight

LEMMA ReadFlight ==
    ASSUME TypeOK, NEW k \in Links, Read(k), UNCHANGED toGs
    PROVE  \A l \in Links :
              /\ InFlight(l)' \subseteq InFlight(l)
              /\ \A q \in InFlight(l) \ InFlight(l)' :
                    l = k /\ Reply(Msg(k)) /\ q = Msg(k).seqno
    <1>1. fromGs \in [Links -> Seq(FromGsMsg)]
          BY DEF TypeOK
    <1>2. \A l \in Links : fromGs'[l] = IF l = k THEN Tail(fromGs[l]) ELSE fromGs[l]
          BY <1>1 DEF Read
    <1>3. Answering(fromGs[k]) = Answering(Tail(fromGs[k])) \cup
                                   (IF Reply(Msg(k)) THEN {Msg(k).seqno} ELSE {})
          BY <1>1, AnsweringFacts DEF Read, Msg
    <1>4. \A l \in Links : InFlight(l)' = Asking(toGs[l]) \cup Answering(fromGs'[l])
          BY DEF InFlight, Asking, Answering, Reply
    <1> QED BY <1>2, <1>3, <1>4, Flight

LEMMA SaidFlight ==
    ASSUME TypeOK, NEW k \in Links, NEW m, Said(k, m),
           IF Reply(m) THEN toGs[k] # <<>> /\ m.seqno = Head(toGs[k]).seqno
                              /\ toGs' = [toGs EXCEPT ![k] = Tail(@)]
                       ELSE UNCHANGED toGs
    PROVE  \A l \in Links : InFlight(l)' = InFlight(l)
    <1>1. /\ fromGs \in [Links -> Seq(FromGsMsg)] /\ toGs \in [Links -> Seq(ToGsMsg)]
          /\ m \in FromGsMsg
          BY DEF TypeOK, Said
    <1>2. \A l \in Links : fromGs'[l] = IF l = k THEN Append(fromGs[l], m) ELSE fromGs[l]
          BY <1>1 DEF Said
    <1>3. Answering(Append(fromGs[k], m)) =
            Answering(fromGs[k]) \cup (IF Reply(m) THEN {m.seqno} ELSE {})
          BY <1>1, AnsweringFacts
    <1>4. \A l \in Links : InFlight(l)' = Asking(toGs'[l]) \cup Answering(fromGs'[l])
          BY DEF InFlight, Asking, Answering, Reply
    <1>5. CASE Reply(m)
          <2>1. \A l \in Links : toGs'[l] = IF l = k THEN Tail(toGs[l]) ELSE toGs[l]
                BY <1>1, <1>5
          <2>2. Asking(toGs[k]) = Asking(Tail(toGs[k])) \cup {m.seqno}
                BY <1>1, <1>5, AskingFacts
          <2> QED BY <1>2, <1>3, <1>4, <1>5, <2>1, <2>2, Flight
    <1>6. CASE ~Reply(m)
          BY <1>2, <1>3, <1>4, <1>6, Flight
    <1> QED BY <1>5, <1>6

-----------------------------------------------------------------------------
(* What most steps do to games, requests and what is in flight: some go,   *)
(* and what stays keeps its server and its link.  Only an answer that is   *)
(* lost with its link or whose request goes leaves the flight.             *)
GamesLeft ==
    /\ DOMAIN game' \subseteq DOMAIN game
    /\ \A i \in DOMAIN game' :
          LET s == game[i].d2gs
          IN  /\ game'[i].d2gs = s /\ link'[s] = link[s]
              /\ lstate'[link[s]] = "authed" => lstate[link[s]] = "authed"

RequestsLeft ==
    DOMAIN sq' \subseteq DOMAIN sq /\ \A q \in DOMAIN sq' : sq'[q] = sq[q]

FlightLeft ==
    \A l \in Links :
        /\ InFlight(l)' \subseteq InFlight(l)
        /\ lstate'[l] = "authed" =>
              \A q \in DOMAIN sq' : q \in InFlight(l) => q \in InFlight(l)'

LEMMA AuthedBefore ==
    ASSUME TypeOK, Next
    PROVE  \A l \in Links : lstate'[l] = "authed" => lstate[l] \in {"authed", "connected"}
    <1>1. lstate \in [Links -> {"gone", "connected", "authed", "destroy"}]
          BY DEF TypeOK
    <1>2. CASE UNCHANGED lstate
          BY <1>2
    <1>3. ASSUME NEW k \in Links, LinkDrop(k) \/ LinkReap(k) \/ LinkConnect(k)
          PROVE  \A l \in Links : lstate'[l] = "authed" => lstate[l] = "authed"
          BY <1>1, <1>3 DEF LinkDrop, LinkReap, LinkConnect
    <1>4. ASSUME NEW k \in Links, OnAuthAccepted(k)
          PROVE  \A l \in Links : lstate'[l] = "authed" => lstate[l] \in {"authed", "connected"}
          BY <1>1, <1>4 DEF OnAuthAccepted, Valid
    <1>5. ASSUME NEW k \in Links, GsStep(k)
          PROVE  UNCHANGED lstate \/ LinkConnect(k)
          BY <1>5, GsSays DEF Said
    <1>6. ASSUME NEW k \in Links, OnGsMessage(k)
          PROVE  UNCHANGED lstate \/ OnAuthAccepted(k)
          BY <1>6 DEF OnGsMessage, OnMismatch, OnAuthRefused, OnSetGsInfo,
                      OnCreateGameReply, OnJoinGameReply, OnUpdateGameInfo, OnCloseGame
    <1> QED BY <1>2, <1>3, <1>4, <1>5, <1>6, OtherSteps

LEMMA GamesLeave ==
    ASSUME IInv, ActiveLinks, Next, DOMAIN game' \subseteq DOMAIN game
    PROVE  GamesLeft
    <1>1. \A i \in DOMAIN game : game[i].d2gs \in Servers /\ link[game[i].d2gs] # NoLink
                                  /\ link[game[i].d2gs] \in Links
          BY DEF IInv, TypeOK, Game, CountInv, HostedOnActive
    <1>2. \A i \in DOMAIN game : lstate'[link[game[i].d2gs]] = "authed"
                                   => lstate[link[game[i].d2gs]] = "authed"
          BY <1>1, AuthedBefore DEF ActiveLinks, IInv
    <1>3. \A i \in DOMAIN game' : /\ game'[i].d2gs = game[i].d2gs
                                  /\ link'[game[i].d2gs] = link[game[i].d2gs]
          <2>1. CASE Kept
                BY <2>1 DEF Kept
          <2>2. ASSUME NEW i \in DOMAIN game, Destroyed(i)
                PROVE  \A j \in DOMAIN game' : /\ game'[j].d2gs = game[j].d2gs
                                               /\ link'[game[j].d2gs] = link[game[j].d2gs]
                BY <2>2 DEF Destroyed
          <2>3. ASSUME NEW s \in Servers, Cleared(s)
                PROVE  \A j \in DOMAIN game' : /\ game'[j].d2gs = game[j].d2gs
                                               /\ link'[game[j].d2gs] = link[game[j].d2gs]
                BY <1>1, <2>3 DEF Cleared, GamesOn
          <2>4. ASSUME NEW s \in Servers, NEW i, Placed(s, i)
                PROVE  FALSE
                BY <2>4 DEF Placed
          <2> QED BY <2>1, <2>2, <2>3, <2>4, StepEffect DEF Effect
    <1> QED BY <1>2, <1>3 DEF GamesLeft

LEMMA RequestsLeave ==
    ASSUME IInv, RequestOnItsLink, GamesLeft, RequestsLeft, FlightLeft
    PROVE  RequestOnItsLink'
    <1> SUFFICES ASSUME NEW q \in DOMAIN sq', sq'[q].gameid \in DOMAIN game',
                        NEW k, k = link'[game'[sq'[q].gameid].d2gs]
                 PROVE  /\ lstate'[k] = "authed" => q \in InFlight(k)'
                        /\ \A l \in Links \ {k} : q \notin InFlight(l)'
        BY DEF RequestOnItsLink
    <1> DEFINE i == sq[q].gameid
    <1>1. q \in DOMAIN sq /\ sq'[q] = sq[q] /\ i \in DOMAIN game /\ i \in DOMAIN game'
          BY DEF RequestsLeft, GamesLeft
    <1>2. /\ k = link[game[i].d2gs]
          /\ lstate'[k] = "authed" => lstate[k] = "authed"
          BY <1>1 DEF GamesLeft
    <1>3. k \in Links
          BY <1>1, <1>2 DEF IInv, TypeOK, Game, CountInv, HostedOnActive
    <1>4. /\ lstate[k] = "authed" => q \in InFlight(k)
          /\ \A l \in Links \ {k} : q \notin InFlight(l)
          BY <1>1, <1>2 DEF RequestOnItsLink
    <1> QED BY <1>2, <1>3, <1>4 DEF FlightLeft

(* A new request about a game, sent to the server of the game: either the  *)
(* game is new too, or it was on the list.                                 *)
NewRequest(q, i, m) ==
    /\ q \notin UsedSeqnos /\ i \in DOMAIN game' /\ m \in ToGsMsg /\ m.seqno = q
    /\ DOMAIN sq' = DOMAIN sq \cup {q} /\ sq'[q].gameid = i
    /\ \A r \in DOMAIN sq : sq'[r] = sq[r]
    /\ DOMAIN game' = DOMAIN game \cup {i}
    /\ i \in DOMAIN game \/ i \notin UsedGameIds
    /\ \A j \in DOMAIN game : game'[j].d2gs = game[j].d2gs
    /\ link[game'[i].d2gs] \in Links /\ Send(link[game'[i].d2gs], m)
    /\ UNCHANGED <<link, lstate, fromGs, hosted>>

LEMMA RequestSent ==
    ASSUME IInv, RequestOnItsLink, NEW q, NEW i, NEW m, NewRequest(q, i, m)
    PROVE  RequestOnItsLink'
    <1> SUFFICES ASSUME NEW r \in DOMAIN sq', sq'[r].gameid \in DOMAIN game',
                        NEW k, k = link'[game'[sq'[r].gameid].d2gs]
                 PROVE  /\ lstate'[k] = "authed" => r \in InFlight(k)'
                        /\ \A l \in Links \ {k} : r \notin InFlight(l)'
        BY DEF RequestOnItsLink
    <1> DEFINE new == link[game'[i].d2gs]
    <1>1. /\ new \in Links
          /\ \A l \in Links : InFlight(l)' = InFlight(l) \cup (IF l = new THEN {q} ELSE {})
          BY SendFlight DEF NewRequest, IInv
    <1>2. \A l \in Links : q \notin InFlight(l)
          BY DEF NewRequest, UsedSeqnos
    <1>3. UNCHANGED <<link, lstate>>
          BY DEF NewRequest
    <1>4. CASE r = q
          <2>1. k = new
                BY <1>3, <1>4 DEF NewRequest
          <2> QED BY <1>1, <1>2, <1>4, <2>1
    <1>5. CASE r # q
          <2>1. r \in DOMAIN sq /\ sq'[r] = sq[r]
                BY <1>5 DEF NewRequest
          <2>2. sq[r].gameid \in DOMAIN game
                <3>1. sq[r].gameid \in UsedGameIds
                      BY <2>1 DEF UsedGameIds
                <3> QED BY <2>1, <3>1 DEF NewRequest
          <2>3. k = link[game[sq[r].gameid].d2gs]
                BY <1>3, <2>1, <2>2 DEF NewRequest
          <2>4. /\ lstate[k] = "authed" => r \in InFlight(k)
                /\ \A l \in Links \ {k} : r \notin InFlight(l)
                BY <2>1, <2>2, <2>3 DEF RequestOnItsLink
          <2>5. k \in Links
                BY <2>2, <2>3 DEF IInv, TypeOK, Game, CountInv, HostedOnActive
          <2> QED BY <1>1, <1>3, <1>5, <2>4, <2>5
    <1> QED BY <1>4, <1>5

LEMMA PlaceRequests ==
    ASSUME IInv, NEW c, NEW n, PlaceGame(c, n), UNCHANGED <<link, lstate, fromGs, hosted>>
    PROVE  \E q, i \in Nat : /\ NewRequest(q, i, [type |-> "creategamereq", seqno |-> q])
                             /\ i \notin UsedGameIds /\ ~game'[i].created
                             /\ \A j \in DOMAIN game : game'[j] = game[j]
    <1> DEFINE new(s) == [name |-> n, d2gs |-> s, created |-> FALSE,
                          gid |-> 0, chars |-> {}]
               ask(i) == [clientid |-> c, gameid |-> i]
    <1> PICK s \in Chosen, i \in Fresh(UsedGameIds), q \in Fresh(UsedSeqnos) :
            /\ game' = With(game, i, new(s))
            /\ sq' = With(sq, q, ask(i))
            /\ Send(link[s], [type |-> "creategamereq", seqno |-> q])
        BY DEF PlaceGame
    <1>1. /\ i \in Nat /\ q \in Nat /\ i \notin UsedGameIds /\ q \notin UsedSeqnos
          /\ s \in Servers /\ link[s] \in Links
          BY FreshFacts, ChosenFacts DEF IInv
    <1>2. new(s).d2gs = s /\ new(s).created = FALSE /\ ask(i).gameid = i
          OBVIOUS
    <1> HIDE DEF new, ask
    <1>3. /\ DOMAIN game' = DOMAIN game \cup {i} /\ game'[i] = new(s)
          /\ \A j \in DOMAIN game : game'[j] = game[j]
          BY <1>1 DEF With, UsedGameIds
    <1>4. /\ DOMAIN sq' = DOMAIN sq \cup {q} /\ sq'[q] = ask(i)
          /\ \A r \in DOMAIN sq : sq'[r] = sq[r]
          BY <1>1 DEF With, UsedSeqnos
    <1>5. NewRequest(q, i, [type |-> "creategamereq", seqno |-> q])
          BY <1>1, <1>2, <1>3, <1>4, MessageTypes DEF NewRequest
    <1> QED BY <1>1, <1>2, <1>3, <1>5

LEMMA JoinRequests ==
    ASSUME IInv, NEW c \in Clients, NEW i \in DOMAIN game, JoinGame(c, i)
    PROVE  \E q \in Nat : /\ game[i].gid \in Nat
                          /\ NewRequest(q, i, [type |-> "joingamereq", seqno |-> q,
                                               gid |-> game[i].gid])
    <1> DEFINE ask == [clientid |-> c, gameid |-> i]
    <1> PICK q \in Fresh(UsedSeqnos) :
            /\ sq' = With(sq, q, ask)
            /\ Send(link[game[i].d2gs],
                    [type |-> "joingamereq", seqno |-> q, gid |-> game[i].gid])
        BY DEF JoinGame
    <1>1. q \in Nat /\ q \notin UsedSeqnos
          BY FreshFacts
    <1>2. game[i].gid \in Nat /\ link[game[i].d2gs] \in Links
          BY DEF IInv, TypeOK, Game, CountInv, HostedOnActive
    <1>3. ask.gameid = i
          OBVIOUS
    <1> HIDE DEF ask
    <1>4. /\ DOMAIN sq' = DOMAIN sq \cup {q} /\ sq'[q] = ask
          /\ \A r \in DOMAIN sq : sq'[r] = sq[r]
          BY <1>1 DEF With, UsedSeqnos
    <1>5. UNCHANGED <<game, link, lstate, fromGs, hosted>>
          BY DEF JoinGame, serverVars
    <1>6. [type |-> "joingamereq", seqno |-> q, gid |-> game[i].gid] \in ToGsMsg
          BY <1>1, <1>2, MessageTypes
    <1> QED BY <1>1, <1>2, <1>3, <1>4, <1>5, <1>6 DEF NewRequest

(* Every other step only takes games, requests and messages away.          *)
NoNewRequest == GamesLeft /\ RequestsLeft /\ FlightLeft

LEMMA SameRequests == ASSUME UNCHANGED sq PROVE RequestsLeft
    BY DEF RequestsLeft

LEMMA ForgottenRequests == ASSUME NEW S, sq' = Without(sq, S) PROVE RequestsLeft
    <1>1. DOMAIN sq' = DOMAIN sq \ S /\ \A q \in DOMAIN sq \ S : sq'[q] = sq[q]
          BY WithoutFacts
    <1> QED BY <1>1 DEF RequestsLeft

LEMMA DestroyLeft ==
    ASSUME NEW i, DestroyGame(i)
    PROVE  DOMAIN game' = DOMAIN game \ {i} /\ \A j \in DOMAIN game' : game'[j] = game[j]
    <1>1. game' = Without(game, {i})
          BY DEF DestroyGame
    <1> QED BY <1>1 DEF Without, Restrict

LEMMA MessageRequests ==
    ASSUME IInv, LinkInv, NEW k \in Links, OnGsMessage(k), Next
    PROVE  NoNewRequest
    <1> USE DEF serverVars
    <1>1. DOMAIN game' \subseteq DOMAIN game
          <2>1. CASE \E i : DestroyGame(i)
                BY <2>1, DestroyLeft
          <2>2. CASE game' = GamesWithout(ServerOf[k])
                BY <2>2 DEF GamesWithout, Without, Restrict
          <2>3. CASE ~(\E i : DestroyGame(i)) /\ game' # GamesWithout(ServerOf[k])
                BY <2>3 DEF OnGsMessage, OnMismatch, OnAuthRefused, OnAuthAccepted,
                   OnSetGsInfo, OnCreateGameReply, OnJoinGameReply, OnUpdateGameInfo, OnCloseGame
          <2> QED BY <2>1, <2>2, <2>3
    <1>2. RequestsLeft
          <2>1. CASE UNCHANGED sq
                BY <2>1, SameRequests
          <2>2. CASE sq' = Without(sq, {Msg(k).seqno})
                BY <2>2, ForgottenRequests
          <2> QED BY <2>1, <2>2 DEF OnGsMessage, OnMismatch, OnAuthRefused, OnAuthAccepted,
                   OnSetGsInfo, OnCreateGameReply, OnJoinGameReply, OnUpdateGameInfo, OnCloseGame
    <1>3. Reply(Msg(k)) /\ lstate'[k] = "authed" => Msg(k).seqno \notin DOMAIN sq'
          <2>1. CASE sq' = Without(sq, {Msg(k).seqno})
                BY <2>1 DEF Without, Restrict
          <2>2. CASE OnMismatch(k)
                BY <2>2 DEF OnMismatch, Valid, Arrives, Reply, Msg
          <2>3. CASE OnAuthRefused(k) \/ OnAuthAccepted(k) \/ OnSetGsInfo(k)
                     \/ OnUpdateGameInfo(k) \/ OnCloseGame(k)
                BY <2>3 DEF OnAuthRefused, OnAuthAccepted, OnSetGsInfo,
                            OnUpdateGameInfo, OnCloseGame, Valid, Arrives, Reply, Msg
          <2> QED BY <2>1, <2>2, <2>3 DEF OnGsMessage, OnCreateGameReply, OnJoinGameReply
    <1>4. FlightLeft
          BY <1>3, MessageReads, ReadFlight DEF FlightLeft, IInv
    <1> QED BY <1>1, <1>2, <1>4, GamesLeave DEF NoNewRequest, LinkInv

LEMMA GsRequests ==
    ASSUME IInv, LinkInv, NEW k \in Links, GsStep(k), Next
    PROVE  NoNewRequest
    <1> USE DEF serverVars, GsVars
    <1>1. UNCHANGED <<game, sq>>
          BY GsSays DEF LinkConnect, Said, IInv
    <1>2. \A l \in Links : InFlight(l)' = InFlight(l)
          <2>1. ASSUME UNCHANGED <<toGs, fromGs>>
                PROVE  \A l \in Links : InFlight(l)' = InFlight(l)
                BY <2>1 DEF InFlight
          <2>2. ASSUME NEW m, Said(k, m), m.type \in {"authreply", "setgsinfo", "updategameinfo",
                                                      "closegame"}, UNCHANGED toGs
                PROVE  \A l \in Links : InFlight(l)' = InFlight(l)
                BY <2>2, SaidFlight DEF Reply, IInv
          <2>3. ASSUME NEW m, Said(k, m), m.type \in {"joingamereply", "creategamereply"},
                       toGs[k] # <<>>, toGs' = [toGs EXCEPT ![k] = Tail(@)],
                       m.seqno = Head(toGs[k]).seqno
                PROVE  \A l \in Links : InFlight(l)' = InFlight(l)
                BY <2>3, SaidFlight DEF Reply, IInv
          <2>4. CASE LinkConnect(k)
                BY <2>1, <2>4 DEF LinkConnect
          <2>5. ASSUME NEW ok \in BOOLEAN, Said(k, [type |-> "authreply", ok |-> ok]),
                       UNCHANGED toGs
                PROVE  \A l \in Links : InFlight(l)' = InFlight(l)
                BY <2>2, <2>5
          <2>6. ASSUME NEW n \in Capacities, Said(k, [type |-> "setgsinfo", maxgame |-> n]),
                       UNCHANGED toGs
                PROVE  \A l \in Links : InFlight(l)' = InFlight(l)
                BY <2>2, <2>6
          <2>7. ASSUME NEW gid \in hosted[k], NEW p \in Players, NEW b \in BOOLEAN,
                       Said(k, [type |-> "updategameinfo", gid |-> gid, char |-> p, enter |-> b]),
                       UNCHANGED toGs
                PROVE  \A l \in Links : InFlight(l)' = InFlight(l)
                BY <2>2, <2>7
          <2>8. ASSUME NEW gid \in hosted[k], Said(k, [type |-> "closegame", gid |-> gid]),
                       UNCHANGED toGs
                PROVE  \A l \in Links : InFlight(l)' = InFlight(l)
                BY <2>2, <2>8
          <2>9. ASSUME toGs[k] # <<>>, toGs' = [toGs EXCEPT ![k] = Tail(@)],
                       \/ Said(k, [type |-> "joingamereply", seqno |-> Head(toGs[k]).seqno])
                       \/ Said(k, [type |-> "creategamereply", seqno |-> Head(toGs[k]).seqno,
                                   ok |-> FALSE, gid |-> 0])
                       \/ \E gid \in Nat \ hosted[k] :
                            Said(k, [type |-> "creategamereply", seqno |-> Head(toGs[k]).seqno,
                                     ok |-> TRUE, gid |-> gid])
                PROVE  \A l \in Links : InFlight(l)' = InFlight(l)
                BY <2>3, <2>9
          <2>10. TypeOK
                BY DEF IInv
          <2> QED BY <2>4, <2>5, <2>6, <2>7, <2>8, <2>9, <2>10, GsSays
    <1>3. FlightLeft
          BY <1>2 DEF FlightLeft
    <1> QED BY <1>1, <1>3, GamesLeave, SameRequests DEF NoNewRequest, LinkInv

LEMMA LostRequests ==
    ASSUME IInv, LinkInv, NEW k \in Links, LinkDrop(k) \/ LinkReap(k), Next
    PROVE  NoNewRequest
    <1> USE DEF serverVars
    <1>1. UNCHANGED sq
          BY DEF LinkDrop, LinkReap
    <1>2. DOMAIN game' \subseteq DOMAIN game
          <2>1. CASE game' = GamesWithout(ServerOf[k])
                BY <2>1 DEF GamesWithout, Without, Restrict
          <2>2. CASE game' = game
                BY <2>2
          <2> QED BY <2>1, <2>2 DEF LinkDrop, LinkReap
    <1>3. FlightLeft
          <2>1. CASE LinkDrop(k)
                BY <2>1 DEF LinkDrop, FlightLeft, InFlight
          <2>2. CASE LinkReap(k)
                <3>1. /\ toGs \in [Links -> Seq(ToGsMsg)] /\ fromGs \in [Links -> Seq(FromGsMsg)]
                      /\ lstate \in [Links -> {"gone", "connected", "authed", "destroy"}]
                      BY DEF IInv, TypeOK
                <3>2. \A l \in Links : InFlight(l)' = Asking(toGs'[l]) \cup Answering(fromGs'[l])
                      BY DEF InFlight, Asking, Answering, Reply
                <3>3. Asking(<<>>) = {} /\ Answering(<<>>) = {}
                      BY DEF Asking, Answering
                <3>4. InFlight(k)' = {} /\ lstate'[k] # "authed"
                      BY <2>2, <3>1, <3>2, <3>3 DEF LinkReap
                <3>5. \A l \in Links \ {k} : InFlight(l)' = InFlight(l)
                      BY <2>2, <3>1, <3>2, Flight DEF LinkReap
                <3> QED BY <3>4, <3>5 DEF FlightLeft
          <2> QED BY <2>1, <2>2
    <1> QED BY <1>1, <1>2, <1>3, GamesLeave, SameRequests DEF NoNewRequest, LinkInv

LEMMA ForgettingSteps ==
    ASSUME IInv, LinkInv, Next, RequestsLeft, DOMAIN game' \subseteq DOMAIN game,
           UNCHANGED <<toGs, fromGs>>
    PROVE  NoNewRequest
    <1>1. FlightLeft
          BY DEF FlightLeft, InFlight
    <1> QED BY <1>1, GamesLeave DEF NoNewRequest, LinkInv

(* A game server is asked for a new game, or to let a client into one.     *)
CreateAsked(q, i) ==
    /\ NewRequest(q, i, [type |-> "creategamereq", seqno |-> q])
    /\ i \notin UsedGameIds /\ ~game'[i].created
    /\ \A j \in DOMAIN game : game'[j] = game[j]

JoinAsked(q, i) ==
    /\ NewRequest(q, i, [type |-> "joingamereq", seqno |-> q, gid |-> game[i].gid])
    /\ game[i].gid \in Nat /\ UNCHANGED game

LEMMA StepRequests ==
    ASSUME IInv, LinkInv, Next
    PROVE  NoNewRequest \/ \E q, i \in Nat : CreateAsked(q, i) \/ JoinAsked(q, i)
    <1> USE DEF serverVars, netVars
    <1>1. CASE ServeQueue
          <2>1. UNCHANGED <<link, lstate, fromGs, hosted>>
                BY <1>1 DEF ServeQueue
          <2>2. CASE PlaceGame(Head(gq).clientid, Head(gq).gamename)
                BY <2>1, <2>2, PlaceRequests DEF CreateAsked
          <2>3. CASE UNCHANGED <<game, gamenum, sq, toGs>>
                BY <2>1, <2>3, ForgettingSteps, SameRequests
          <2> QED BY <1>1, <2>2, <2>3 DEF ServeQueue
    <1>2. CASE TimerStep
          <2>1. ASSUME NEW q \in DOMAIN sq, SqExpire(q)
                PROVE  NoNewRequest
                <3>1. RequestsLeft
                      BY <2>1, ForgottenRequests DEF SqExpire
                <3> QED BY <2>1, <3>1, ForgettingSteps DEF SqExpire
          <2>2. ASSUME NEW i \in DOMAIN game, VoidPurge(i)
                PROVE  NoNewRequest
                <3>1. DOMAIN game' \subseteq DOMAIN game
                      BY <2>2, DestroyLeft DEF VoidPurge
                <3> QED BY <2>2, <3>1, ForgettingSteps, SameRequests DEF VoidPurge
          <2> QED BY <1>2, <2>1, <2>2 DEF TimerStep
    <1>3. ASSUME NEW c \in Clients, ClientStep(c)
          PROVE  NoNewRequest \/ \E q, i \in Nat : CreateAsked(q, i) \/ JoinAsked(q, i)
          <2>1. ASSUME NEW n \in Names, CreateGame(c, n)
                PROVE  \E q, i \in Nat : CreateAsked(q, i)
                BY <2>1, PlaceRequests DEF CreateGame, CreateAsked
          <2>2. ASSUME NEW i \in DOMAIN game, JoinGame(c, i)
                PROVE  \E q, j \in Nat : JoinAsked(q, j)
                <3>1. i \in Nat /\ UNCHANGED game
                      BY <2>2 DEF IInv, TypeOK, JoinGame
                <3> QED BY <2>2, <3>1, JoinRequests DEF JoinAsked
          <2>3. CASE UNCHANGED <<game, sq, toGs, fromGs>>
                BY <2>3, ForgettingSteps, SameRequests
          <2> QED BY <1>3, <2>1, <2>2, <2>3
                  DEF ClientStep, ClientConnect, ClientDrop, ClientReap, CancelCreate,
                      ClientSwitchChar, EnqueueGame, LeaveQueueByAsking
    <1> QED BY <1>1, <1>2, <1>3, MessageRequests, GsRequests, LostRequests DEF Next

LEMMA RequestStep ==
    ASSUME IInv, LinkInv, RequestOnItsLink, Next
    PROVE  RequestOnItsLink'
    <1>1. CASE NoNewRequest
          BY <1>1, RequestsLeave DEF NoNewRequest
    <1>2. ASSUME NEW q \in Nat, NEW i \in Nat, CreateAsked(q, i) \/ JoinAsked(q, i)
          PROVE  RequestOnItsLink'
          BY <1>2, RequestSent DEF CreateAsked, JoinAsked
    <1> QED BY <1>1, <1>2, StepRequests

-----------------------------------------------------------------------------
(* What is on its way from a game server that runs the games H, as seen by *)
(* d2cs, which offers the games G of that server: a game that was created  *)
(* runs or is closed later; between two creations with the same id, and    *)
(* before the creation of one that is offered, the id is closed.           *)
Creates(m, g) == m.type = "creategamereply" /\ m.ok /\ m.gid = g
Closes(m, g) == m = [type |-> "closegame", gid |-> g]

ClosedLater(s, H) ==
    \A j \in DOMAIN s, g \in Nat : Creates(s[j], g) =>
        g \in H \/ \E l \in DOMAIN s : j < l /\ Closes(s[l], g)

ClosedBetween(s) ==
    \A i, j \in DOMAIN s, g \in Nat : i < j /\ Creates(s[i], g) /\ Creates(s[j], g) =>
        \E l \in DOMAIN s : i < l /\ l < j /\ Closes(s[l], g)

ClosedFirst(s, G) ==
    \A j \in DOMAIN s, g \in G : Creates(s[j], g) =>
        \E l \in DOMAIN s : l < j /\ Closes(s[l], g)

RunOrClosed(s, H, G) == \A g \in G : g \in H \/ \E l \in DOMAIN s : Closes(s[l], g)

History(s, H, G) ==
    ClosedLater(s, H) /\ ClosedBetween(s) /\ ClosedFirst(s, G) /\ RunOrClosed(s, H, G)

LEMMA HistoryFewer ==
    ASSUME NEW s, NEW H, NEW G, NEW F \in SUBSET G, History(s, H, G)
    PROVE  History(s, H, F)
    BY DEF History, ClosedFirst, RunOrClosed

LEMMA HistoryFresh ==
    ASSUME NEW s, NEW H, \A j \in DOMAIN s : s[j].type = "authreply"
    PROVE  History(s, H, {})
    BY DEF History, ClosedLater, ClosedBetween, ClosedFirst, RunOrClosed, Creates

(* A message is sent: H becomes E, by the game the message is about.       *)
LEMMA HistorySent ==
    ASSUME NEW T, NEW s \in Seq(T), NEW m \in T, NEW H, NEW G \in SUBSET Nat, NEW E,
           History(s, H, G),
           \A g \in H \ E : Closes(m, g),
           \A g \in Nat : Creates(m, g) => g \in E \ H
    PROVE  History(Append(s, m), E, G)
    <1> DEFINE t == Append(s, m)
               n == Len(s) + 1
    <1>1. /\ Len(s) \in Nat /\ DOMAIN s = 1 .. Len(s)
          /\ DOMAIN t = DOMAIN s \cup {n} /\ t[n] = m
          /\ \A j \in DOMAIN s : t[j] = s[j] /\ j < n /\ j \in Nat
          BY AppendElements
    <1>2. n \in Nat
          BY <1>1
    <1> HIDE DEF t, n
    <1>3. ClosedLater(t, E)
          <2> SUFFICES ASSUME NEW j \in DOMAIN t, NEW g \in Nat, Creates(t[j], g)
                       PROVE  g \in E \/ \E l \in DOMAIN t : j < l /\ Closes(t[l], g)
              BY DEF ClosedLater
          <2>1. CASE j = n
                BY <1>1, <2>1
          <2>2. CASE j \in DOMAIN s
                <3>1. g \in H \/ \E l \in DOMAIN s : j < l /\ Closes(s[l], g)
                      BY <1>1, <2>2 DEF History, ClosedLater
                <3>2. CASE g \in H
                      BY <1>1, <2>2, <3>2
                <3> QED BY <1>1, <3>1, <3>2
          <2> QED BY <1>1, <2>1, <2>2
    <1>4. ASSUME NEW j \in DOMAIN s, NEW g \in Nat, Creates(s[j], g), Creates(m, g)
          PROVE  \E l \in DOMAIN s : j < l /\ Closes(s[l], g)
          BY <1>4 DEF History, ClosedLater
    <1>5. ClosedBetween(t)
          <2> SUFFICES ASSUME NEW i \in DOMAIN t, NEW j \in DOMAIN t, NEW g \in Nat,
                              i < j, Creates(t[i], g), Creates(t[j], g)
                       PROVE  \E l \in DOMAIN t : i < l /\ l < j /\ Closes(t[l], g)
              BY DEF ClosedBetween
          <2>1. i \in DOMAIN s
                BY <1>1, <1>2
          <2>2. CASE j = n
                <3>1. PICK l \in DOMAIN s : i < l /\ Closes(s[l], g)
                      BY <1>1, <1>4, <2>1, <2>2
                <3> QED BY <1>1, <2>2, <3>1
          <2>3. CASE j \in DOMAIN s
                <3>1. PICK l \in DOMAIN s : i < l /\ l < j /\ Closes(s[l], g)
                      BY <1>1, <2>1, <2>3 DEF History, ClosedBetween
                <3> QED BY <1>1, <3>1
          <2> QED BY <1>1, <2>2, <2>3
    <1>6. ClosedFirst(t, G)
          <2> SUFFICES ASSUME NEW j \in DOMAIN t, NEW g \in G, Creates(t[j], g)
                       PROVE  \E l \in DOMAIN t : l < j /\ Closes(t[l], g)
              BY DEF ClosedFirst
          <2>1. CASE j = n
                <3>1. g \notin H
                      BY <1>1, <2>1
                <3>2. PICK l \in DOMAIN s : Closes(s[l], g)
                      BY <3>1 DEF History, RunOrClosed
                <3> QED BY <1>1, <2>1, <3>2
          <2>2. CASE j \in DOMAIN s
                <3>1. PICK l \in DOMAIN s : l < j /\ Closes(s[l], g)
                      BY <1>1, <2>2 DEF History, ClosedFirst
                <3> QED BY <1>1, <3>1
          <2> QED BY <1>1, <2>1, <2>2
    <1>7. RunOrClosed(t, E, G)
          <2> SUFFICES ASSUME NEW g \in G, g \notin E
                       PROVE  \E l \in DOMAIN t : Closes(t[l], g)
              BY DEF RunOrClosed
          <2>1. CASE g \in H
                BY <1>1, <2>1
          <2>2. CASE g \notin H
                <3>1. PICK l \in DOMAIN s : Closes(s[l], g)
                      BY <2>2 DEF History, RunOrClosed
                <3> QED BY <1>1, <3>1
          <2> QED BY <2>1, <2>2
    <1>8. History(t, E, G)
          BY <1>3, <1>5, <1>6, <1>7 DEF History
    <1> QED BY <1>8 DEF t

(* The first message is read.  What it closes is not offered any more,     *)
(* what it creates may now be: it was not offered before.                  *)
LEMMA HistoryRead ==
    ASSUME NEW T, NEW s \in Seq(T), s # <<>>, NEW H, NEW G, NEW F \in SUBSET Nat,
           History(s, H, G),
           \A g \in F \ G : Creates(Head(s), g),
           \A g \in F : ~Closes(Head(s), g)
    PROVE  History(Tail(s), H, F)
    <1> DEFINE t == Tail(s)
    <1>1. /\ Len(s) \in Nat /\ DOMAIN s = 1 .. Len(s) /\ 1 \in DOMAIN s /\ Head(s) = s[1]
          /\ DOMAIN t = 1 .. Len(s) - 1
          /\ \A j \in DOMAIN t : j + 1 \in DOMAIN s /\ t[j] = s[j + 1]
          /\ \A j \in DOMAIN s \ {1} : j - 1 \in DOMAIN t /\ t[j - 1] = s[j]
          BY TailElements
    <1> HIDE DEF t
    <1>2. \A j \in DOMAIN s : j \in Nat /\ (j # 1 => j > 1)
          BY <1>1
    <1>3. \A j \in DOMAIN t : j \in Nat
          BY <1>1
    <1>4. \A a, b : ~(Creates(s[1], a) /\ Closes(s[1], b))
          BY DEF Creates, Closes
    <1>5. ClosedLater(t, H)
          <2> SUFFICES ASSUME NEW j \in DOMAIN t, NEW g \in Nat, Creates(t[j], g), g \notin H
                       PROVE  \E l \in DOMAIN t : j < l /\ Closes(t[l], g)
              BY DEF ClosedLater
          <2>1. j + 1 \in DOMAIN s /\ Creates(s[j + 1], g)
                BY <1>1
          <2>2. PICK l \in DOMAIN s : j + 1 < l /\ Closes(s[l], g)
                BY <2>1 DEF History, ClosedLater
          <2>3. l - 1 \in DOMAIN t /\ t[l - 1] = s[l] /\ j < l - 1
                BY <1>1, <1>2, <1>3, <2>2
          <2> QED BY <2>2, <2>3
    <1>6. ClosedBetween(t)
          <2> SUFFICES ASSUME NEW i \in DOMAIN t, NEW j \in DOMAIN t, NEW g \in Nat,
                              i < j, Creates(t[i], g), Creates(t[j], g)
                       PROVE  \E l \in DOMAIN t : i < l /\ l < j /\ Closes(t[l], g)
              BY DEF ClosedBetween
          <2>1. /\ i + 1 \in DOMAIN s /\ Creates(s[i + 1], g) /\ i + 1 < j + 1
                /\ j + 1 \in DOMAIN s /\ Creates(s[j + 1], g)
                BY <1>1, <1>3
          <2>2. PICK l \in DOMAIN s : i + 1 < l /\ l < j + 1 /\ Closes(s[l], g)
                BY <2>1 DEF History, ClosedBetween
          <2>3. l - 1 \in DOMAIN t /\ t[l - 1] = s[l] /\ i < l - 1 /\ l - 1 < j
                BY <1>1, <1>2, <1>3, <2>2
          <2> QED BY <2>2, <2>3
    <1>7. ClosedFirst(t, F)
          <2> SUFFICES ASSUME NEW j \in DOMAIN t, NEW g \in F, Creates(t[j], g)
                       PROVE  \E l \in DOMAIN t : l < j /\ Closes(t[l], g)
              BY DEF ClosedFirst
          <2>1. j + 1 \in DOMAIN s /\ Creates(s[j + 1], g) /\ 1 < j + 1
                BY <1>1, <1>3
          <2>2. PICK l \in DOMAIN s : l < j + 1 /\ Closes(s[l], g)
                <3>1. CASE g \in G
                      BY <2>1, <3>1 DEF History, ClosedFirst
                <3>2. CASE g \notin G
                      <4>1. Creates(s[1], g) /\ 1 \in DOMAIN s
                            BY <1>1, <3>2
                      <4> QED BY <2>1, <4>1 DEF History, ClosedBetween
                <3> QED BY <3>1, <3>2
          <2>3. l # 1
                BY <1>1, <2>2
          <2>4. l - 1 \in DOMAIN t /\ t[l - 1] = s[l] /\ l - 1 < j
                BY <1>1, <1>2, <1>3, <2>2, <2>3
          <2> QED BY <2>2, <2>4
    <1>8. RunOrClosed(t, H, F)
          <2> SUFFICES ASSUME NEW g \in F, g \notin H
                       PROVE  \E l \in DOMAIN t : Closes(t[l], g)
              BY DEF RunOrClosed
          <2>1. PICK l \in DOMAIN s : Closes(s[l], g)
                <3>1. CASE g \in G
                      BY <3>1 DEF History, RunOrClosed
                <3>2. CASE g \notin G
                      BY <1>1, <3>2 DEF History, ClosedLater
                <3> QED BY <3>1, <3>2
          <2>2. l # 1
                BY <1>1, <2>1
          <2> QED BY <1>1, <2>1, <2>2
    <1>9. History(t, H, F)
          BY <1>5, <1>6, <1>7, <1>8 DEF History
    <1> QED BY <1>9 DEF t

(* What d2cs reads as created was not offered.                             *)
LEMMA HistoryNew ==
    ASSUME NEW T, NEW s \in Seq(T), s # <<>>, NEW H, NEW G, NEW g, History(s, H, G),
           Creates(Head(s), g)
    PROVE  g \notin G
    <1>1. /\ Head(s) = s[1] /\ 1 \in DOMAIN s
          /\ \A l \in DOMAIN s : ~(l < 1)
          BY TailElements
    <1> QED BY <1>1 DEF History, ClosedFirst

-----------------------------------------------------------------------------
(* The games d2cs offers on a connection and the history of it agree, and  *)
(* no two offered games of a server have one id.                           *)
Offers(k) == {i \in DOMAIN game : game[i].created /\ link[game[i].d2gs] = k}
Offered(k) == {game[i].gid : i \in Offers(k)}

Distinct ==
    \A i, j \in DOMAIN game :
        /\ game[i].created /\ game[j].created
        /\ game[i].d2gs = game[j].d2gs /\ game[i].gid = game[j].gid
        => i = j

Histories ==
    \A k \in Links : lstate[k] = "authed" => History(fromGs[k], hosted[k], Offered(k))

OfferInv == Distinct /\ Histories

(* Most steps offer nothing new.                                           *)
OfferLeft ==
    \A i \in DOMAIN game' : game'[i].created =>
        LET s == game[i].d2gs
        IN  /\ i \in DOMAIN game /\ game[i].created
            /\ game'[i].gid = game[i].gid /\ game'[i].d2gs = s /\ link'[s] = link[s]

LEMMA OfferLeftFacts ==
    ASSUME OfferLeft, Distinct
    PROVE  Distinct' /\ \A l \in Links : Offered(l)' \subseteq Offered(l)
    <1>1. Distinct'
          BY DEF OfferLeft, Distinct
    <1>2. ASSUME NEW l \in Links
          PROVE  Offered(l)' \subseteq Offered(l)
          <2>1. ASSUME NEW i \in DOMAIN game', game'[i].created, link'[game'[i].d2gs] = l
                PROVE  game'[i].gid \in Offered(l)
                BY <2>1 DEF OfferLeft, Offered, Offers
          <2> QED BY <2>1 DEF Offered, Offers
    <1> QED BY <1>1, <1>2

LEMMA OfferLeaves ==
    ASSUME GamesLeft,
           \A i \in DOMAIN game' : game'[i].created =>
              game[i].created /\ game'[i].gid = game[i].gid
    PROVE  OfferLeft
    BY DEF GamesLeft, OfferLeft

LEMMA QuietHistory ==
    ASSUME Histories, NEW l \in Links, lstate[l] = "authed", fromGs'[l] = fromGs[l],
           hosted'[l] = hosted[l], Offered(l)' \subseteq Offered(l)
    PROVE  History(fromGs[l], hosted[l], Offered(l))'
    <1>1. History(fromGs[l], hosted[l], Offered(l))
          BY DEF Histories
    <1>2. History(fromGs[l], hosted[l], Offered(l)')
          BY <1>1, HistoryFewer
    <1>3. History(fromGs'[l], hosted'[l], Offered(l)')
          BY <1>2
    <1> QED BY <1>3 DEF History, ClosedLater, ClosedBetween, ClosedFirst, RunOrClosed,
                        Creates, Closes

LEMMA OfferedType ==
    ASSUME TypeOK
    PROVE  \A l : Offered(l) \subseteq Nat
    BY DEF TypeOK, Game, Offered, Offers

(* A game d2cs finds for an answer is on the link the answer came on.      *)
LEMMA AnswerOnItsLink ==
    ASSUME IInv, RequestOnItsLink, NEW k \in Links, fromGs[k] # <<>>, Reply(Msg(k)),
           Answers(Msg(k).seqno)
    PROVE  link[game[sq[Msg(k).seqno].gameid].d2gs] = k
    <1>1. fromGs[k] \in Seq(FromGsMsg)
          BY DEF IInv, TypeOK
    <1>2. Msg(k).seqno \in Answering(fromGs[k])
          BY <1>1, AnsweringFacts DEF Msg
    <1>3. Msg(k).seqno \in InFlight(k)
          BY <1>2, Flight
    <1> QED BY <1>3 DEF RequestOnItsLink, Answers

LEMMA MessageOffers ==
    ASSUME IInv, IInv', LinkInv, LinkInv', RequestOnItsLink, OfferInv,
           NEW k \in Links, OnGsMessage(k), Next
    PROVE  OfferInv'
    <1> USE DEF serverVars
    <1>1. /\ fromGs \in [Links -> Seq(FromGsMsg)] /\ fromGs[k] # <<>>
          /\ fromGs' = [fromGs EXCEPT ![k] = Tail(@)] /\ UNCHANGED hosted
          /\ Msg(k) = Head(fromGs[k]) /\ Msg(k) \in FromGsMsg
          /\ TypeOK /\ TypeOK'
          BY MessageReads DEF IInv, TypeOK, Read, Msg
    <1>2. fromGs'[k] = Tail(fromGs[k]) /\ \A l \in Links \ {k} : fromGs'[l] = fromGs[l]
          BY <1>1
    <1>3. ASSUME NEW l \in Links \ {k}, UNCHANGED lstate, lstate'[l] = "authed",
                 Offered(l)' \subseteq Offered(l)
          PROVE  History(fromGs[l], hosted[l], Offered(l))'
          BY <1>1, <1>2, <1>3, QuietHistory DEF OfferInv
    <1>4. ASSUME lstate[k] = "authed",
                 \A g \in Offered(k)' \ Offered(k) : Creates(Msg(k), g),
                 \A g \in Offered(k)' : ~Closes(Msg(k), g)
          PROVE  History(fromGs[k], hosted[k], Offered(k))'
          <2>1. History(fromGs[k], hosted[k], Offered(k))
                BY <1>4 DEF OfferInv, Histories
          <2>2. Offered(k)' \subseteq Nat
                BY <1>1, OfferedType DEF TypeOK, Game, Offered, Offers
          <2>3. History(Tail(fromGs[k]), hosted[k], Offered(k)')
                BY <1>1, <1>4, <2>1, <2>2, HistoryRead
          <2>4. History(fromGs'[k], hosted'[k], Offered(k)')
                BY <1>1, <1>2, <2>3
          <2> QED BY <2>4 DEF History, ClosedLater, ClosedBetween, ClosedFirst, RunOrClosed,
                              Creates, Closes
    <1>5. ASSUME OnCreateGameReply(k), Msg(k).ok, Answers(Msg(k).seqno),
                 game' = [game EXCEPT ![sq[Msg(k).seqno].gameid].created = TRUE,
                                      ![sq[Msg(k).seqno].gameid].gid = Msg(k).gid]
          PROVE  OfferInv'
          <2> DEFINE i == sq[Msg(k).seqno].gameid
          <2>1. Msg(k).type = "creategamereply" /\ lstate[k] = "authed"
                BY <1>5 DEF OnCreateGameReply, Valid, Arrives, Msg
          <2>2. link[game[i].d2gs] = k /\ i \in DOMAIN game /\ game[i] \in Game
                BY <1>1, <1>5, <2>1, AnswerOnItsLink DEF Reply, Answers, TypeOK
          <2>3. /\ DOMAIN game' = DOMAIN game /\ \A j \in DOMAIN game \ {i} : game'[j] = game[j]
                /\ game'[i].created /\ game'[i].gid = Msg(k).gid /\ game'[i].d2gs = game[i].d2gs
                BY <1>5, <2>2 DEF Game
          <2>4. UNCHANGED <<link, lstate>>
                BY <1>5 DEF OnCreateGameReply
          <2>5. Creates(Msg(k), Msg(k).gid)
                BY <1>5, <2>1 DEF Creates
          <2>6. Msg(k).gid \notin Offered(k)
                <3>1. History(fromGs[k], hosted[k], Offered(k))
                      BY <2>1 DEF OfferInv, Histories
                <3> QED BY <1>1, <2>5, <3>1, HistoryNew
          <2> HIDE DEF i
          <2>7. Distinct'
                <3>1. \A j \in DOMAIN game \ {i} :
                        game[j].created /\ game[j].d2gs = game[i].d2gs => game[j].gid # Msg(k).gid
                      BY <2>2, <2>6 DEF Offered, Offers
                <3> QED BY <2>3, <3>1 DEF OfferInv, Distinct
          <2>8. ASSUME NEW l \in Links, NEW g \in Offered(l)', g \notin Offered(l)
                PROVE  l = k /\ g = Msg(k).gid
                <3>1. PICK j \in DOMAIN game' :
                         game'[j].created /\ link'[game'[j].d2gs] = l /\ g = game'[j].gid
                      BY DEF Offered, Offers
                <3>2. j = i
                      BY <2>3, <2>4, <2>8, <3>1 DEF Offered, Offers
                <3> QED BY <2>2, <2>3, <2>4, <3>1, <3>2
          <2>9. \A l \in Links \ {k} : Offered(l)' \subseteq Offered(l)
                BY <2>8
          <2>10. \A g \in Offered(k)' : ~Closes(Msg(k), g)
                BY <2>1 DEF Closes
          <2>11. History(fromGs[k], hosted[k], Offered(k))'
                BY <1>4, <2>1, <2>5, <2>8, <2>10
          <2>12. Histories'
                BY <1>3, <2>4, <2>9, <2>11 DEF Histories
          <2> QED BY <2>7, <2>12 DEF OfferInv
    <1>6. ASSUME \A i \in DOMAIN game' : game'[i].created =>
                    game[i].created /\ game'[i].gid = game[i].gid
          PROVE  OfferInv'
          <2>1. OfferLeft
                BY <1>6, MessageRequests, OfferLeaves DEF NoNewRequest
          <2>2. Distinct' /\ \A l \in Links : Offered(l)' \subseteq Offered(l)
                BY <2>1, OfferLeftFacts DEF OfferInv
          <2>3. CASE OnAuthAccepted(k)
                <3> DEFINE s == ServerOf[k]
                <3>1. s \in Servers /\ lstate[k] = "connected"
                      BY <2>3, LinksAssumption DEF OnAuthAccepted, Valid
                <3>2. \A l \in Links \ {k} : lstate'[l] = lstate[l]
                      BY <1>1, <2>3 DEF OnAuthAccepted, TypeOK
                <3>3. \A l \in Links \ {k} : lstate'[l] = "authed" =>
                         History(fromGs[l], hosted[l], Offered(l))'
                      BY <1>1, <1>2, <2>2, <3>2, QuietHistory DEF OfferInv
                <3>4. \A j \in DOMAIN game' : game'[j].d2gs # s
                      <4>1. CASE link[s] # NoLink
                            <5>1. game' = Without(game, GamesOn(s))
                                  BY <2>3, <4>1 DEF OnAuthAccepted, GamesWithout
                            <5> QED BY <5>1 DEF Without, Restrict, GamesOn
                      <4>2. CASE link[s] = NoLink
                            <5>1. game' = game
                                  BY <2>3, <4>2 DEF OnAuthAccepted
                            <5> QED BY <4>2, <5>1 DEF IInv, CountInv, HostedOnActive
                      <4> QED BY <4>1, <4>2
                <3>5. Offered(k)' = {}
                      <4>1. \A j \in DOMAIN game' : link'[game'[j].d2gs] # k
                            <5>1. \A j \in DOMAIN game' :
                                     game'[j].d2gs \in Servers /\ link'[game'[j].d2gs] # NoLink
                                  BY DEF IInv, CountInv, HostedOnActive, TypeOK, Game
                            <5> QED BY <3>4, <5>1 DEF LinkInv, ActiveLinks
                      <4> QED BY <4>1 DEF Offered, Offers
                <3>6. \A j \in DOMAIN fromGs'[k] : fromGs'[k][j].type = "authreply"
                      <4>1. \A j \in DOMAIN fromGs[k] : fromGs[k][j].type = "authreply"
                            BY <3>1 DEF LinkInv, NewLinks
                      <4> QED BY <1>1, <1>2, <4>1, TailElements
                <3>7. History(fromGs'[k], hosted'[k], {})
                      BY <3>6, HistoryFresh
                <3>8. History(fromGs[k], hosted[k], Offered(k))'
                      BY <3>5, <3>7 DEF History, ClosedLater, ClosedBetween, ClosedFirst,
                                        RunOrClosed, Creates, Closes
                <3> QED BY <2>2, <3>3, <3>8 DEF OfferInv, Histories
          <2>4. CASE ~OnAuthAccepted(k)
                <3>1. UNCHANGED <<link, lstate>>
                      BY <2>4 DEF OnGsMessage, OnMismatch, OnAuthRefused, OnSetGsInfo,
                             OnCreateGameReply, OnJoinGameReply, OnUpdateGameInfo, OnCloseGame
                <3>2. ASSUME lstate[k] = "authed", NEW g \in Offered(k)'
                      PROVE  ~Closes(Msg(k), g)
                      <4>1. CASE Msg(k).type # "closegame"
                            BY <4>1 DEF Closes
                      <4>2. CASE Msg(k).type = "closegame"
                            <5>1. OnCloseGame(k)
                                  BY <2>4, <3>2, <4>2 DEF OnGsMessage, OnMismatch, OnAuthRefused,
                                     OnSetGsInfo, OnCreateGameReply, OnJoinGameReply,
                                     OnUpdateGameInfo, Valid, Arrives, Msg
                            <5>2. PICK j \in DOMAIN game' :
                                     game'[j].created /\ link'[game'[j].d2gs] = k /\ g = game'[j].gid
                                  BY DEF Offered, Offers
                            <5>3. /\ j \in DOMAIN game /\ game[j].created /\ game[j].gid = g
                                  /\ link[game[j].d2gs] = k
                                  BY <2>1, <5>2 DEF OfferLeft
                            <5>4. game[j].d2gs = ServerOf[k]
                                  BY <5>3, LinksAssumption DEF IInv, TypeOK, Game, LinkInv, ActiveLinks
                            <5>5. SUFFICES ASSUME Msg(k).gid = g
                                           PROVE  FALSE
                                  BY DEF Closes
                            <5>6. j \in GamesWithGid(ServerOf[k], Msg(k).gid)
                                  BY <5>3, <5>4, <5>5 DEF GamesWithGid, GamesOn
                            <5>7. PICK i \in GamesWithGid(ServerOf[k], Msg(k).gid) : DestroyGame(i)
                                  BY <5>1, <5>6 DEF OnCloseGame
                            <5>8. i = j
                                  BY <5>3, <5>6 DEF GamesWithGid, GamesOn, OfferInv, Distinct
                            <5> QED BY <5>2, <5>7, <5>8, DestroyLeft
                      <4> QED BY <4>1, <4>2
                <3>3. lstate[k] = "authed" => History(fromGs[k], hosted[k], Offered(k))'
                      BY <1>4, <2>2, <3>2
                <3> QED BY <1>3, <2>2, <3>1, <3>3 DEF OfferInv, Histories
          <2> QED BY <2>3, <2>4
    <1>7. ASSUME UNCHANGED game \/ game' = GamesWithout(ServerOf[k]) \/ \E i : DestroyGame(i)
          PROVE  OfferInv'
          <2>1. \A i \in DOMAIN game' : game'[i] = game[i]
                BY <1>7, DestroyLeft DEF GamesWithout, Without, Restrict
          <2> QED BY <1>6, <2>1
    <1>8. CASE OnUpdateGameInfo(k)
          <2>1. ASSUME NEW i \in GamesWithGid(ServerOf[k], Msg(k).gid),
                       game' = [game EXCEPT ![i].chars =
                         IF Msg(k).enter THEN @ \cup {Msg(k).char} ELSE @ \ {Msg(k).char}]
                PROVE  OfferInv'
                <3>1. i \in DOMAIN game /\ game[i] \in Game
                      BY DEF GamesWithGid, GamesOn, IInv, TypeOK
                <3>2. DOMAIN game' = DOMAIN game /\ \A j \in DOMAIN game \ {i} : game'[j] = game[j]
                      BY <2>1
                <3>3. game'[i].created = game[i].created /\ game'[i].gid = game[i].gid
                      BY <2>1, <3>1 DEF Game
                <3> QED BY <1>6, <3>2, <3>3
          <2> QED BY <1>7, <1>8, <2>1 DEF OnUpdateGameInfo
    <1> QED BY <1>5, <1>7, <1>8
            DEF OnGsMessage, OnMismatch, OnAuthRefused, OnAuthAccepted, OnSetGsInfo,
                OnCreateGameReply, OnJoinGameReply, OnCloseGame

LEMMA GsOffers ==
    ASSUME IInv, LinkInv, OfferInv, NEW k \in Links, GsStep(k)
    PROVE  OfferInv'
    <1> USE DEF serverVars, GsVars
    <1>1. /\ fromGs \in [Links -> Seq(FromGsMsg)] /\ hosted \in [Links -> SUBSET Nat]
          /\ lstate \in [Links -> {"gone", "connected", "authed", "destroy"}] /\ TypeOK
          BY DEF IInv, TypeOK
    <1>2. UNCHANGED <<game, link>>
          BY <1>1, GsSays DEF LinkConnect, Said
    <1>3. Distinct' /\ \A l \in Links : Offered(l)' = Offered(l)
          BY <1>2 DEF OfferInv, Distinct, Offered, Offers
    <1>4. ASSUME NEW l \in Links, lstate[l] = "authed", fromGs'[l] = fromGs[l],
                 hosted'[l] = hosted[l]
          PROVE  History(fromGs[l], hosted[l], Offered(l))'
          BY <1>3, <1>4, QuietHistory DEF OfferInv
    <1>5. CASE LinkConnect(k)
          <2>1. lstate' = [lstate EXCEPT ![k] = "connected"] /\ UNCHANGED <<fromGs, hosted>>
                BY <1>5 DEF LinkConnect
          <2>2. \A l \in Links : lstate'[l] = "authed" => lstate[l] = "authed"
                BY <1>1, <2>1
          <2> QED BY <1>3, <1>4, <2>1, <2>2 DEF OfferInv, Histories
    <1>6. ASSUME NEW m, Said(k, m), NEW E, hosted' = [hosted EXCEPT ![k] = E],
                 \A g \in hosted[k] \ E : Closes(m, g),
                 \A g \in Nat : Creates(m, g) => g \in E \ hosted[k]
          PROVE  OfferInv'
          <2>1. /\ fromGs'[k] = Append(fromGs[k], m) /\ hosted'[k] = E /\ UNCHANGED lstate
                /\ \A l \in Links \ {k} : fromGs'[l] = fromGs[l] /\ hosted'[l] = hosted[l]
                BY <1>1, <1>6 DEF Said
          <2>2. ASSUME lstate[k] = "authed"
                PROVE  History(fromGs[k], hosted[k], Offered(k))'
                <3>1. History(fromGs[k], hosted[k], Offered(k))
                      BY <2>2 DEF OfferInv, Histories
                <3>2. m \in FromGsMsg /\ fromGs[k] \in Seq(FromGsMsg) /\ Offered(k) \in SUBSET Nat
                      BY <1>1, <1>6, OfferedType DEF Said
                <3>3. History(Append(fromGs[k], m), E, Offered(k))
                      BY <1>6, <3>1, <3>2, HistorySent
                <3>4. History(fromGs'[k], hosted'[k], Offered(k)')
                      BY <1>3, <2>1, <3>3
                <3> QED BY <3>4 DEF History, ClosedLater, ClosedBetween, ClosedFirst,
                                    RunOrClosed, Creates, Closes
          <2> QED BY <1>3, <1>4, <2>1, <2>2 DEF OfferInv, Histories
    <1>7. ASSUME NEW m, Said(k, m), UNCHANGED hosted,
                 m.type # "creategamereply" \/ ~m.ok
          PROVE  OfferInv'
          <2>1. hosted' = [hosted EXCEPT ![k] = hosted[k]]
                BY <1>1, <1>7
          <2>2. \A g \in Nat : ~Creates(m, g)
                BY <1>7 DEF Creates
          <2> QED BY <1>6, <1>7, <2>1, <2>2
    <1>8. ASSUME NEW ok \in BOOLEAN, Said(k, [type |-> "authreply", ok |-> ok]), UNCHANGED hosted
          PROVE  OfferInv'
          BY <1>7, <1>8
    <1>9. ASSUME NEW n \in Capacities, Said(k, [type |-> "setgsinfo", maxgame |-> n]),
                 UNCHANGED hosted
          PROVE  OfferInv'
          BY <1>7, <1>9
    <1>10. ASSUME NEW gid \in hosted[k], NEW p \in Players, NEW b \in BOOLEAN,
                  Said(k, [type |-> "updategameinfo", gid |-> gid, char |-> p, enter |-> b]),
                  UNCHANGED hosted
           PROVE  OfferInv'
           BY <1>7, <1>10
    <1>11. ASSUME NEW gid \in hosted[k], Said(k, [type |-> "closegame", gid |-> gid]),
                  hosted' = [hosted EXCEPT ![k] = @ \ {gid}]
           PROVE  OfferInv'
           <2> DEFINE m == [type |-> "closegame", gid |-> gid]
           <2>1. hosted' = [hosted EXCEPT ![k] = hosted[k] \ {gid}]
                 BY <1>1, <1>11
           <2>2. /\ \A g \in hosted[k] \ (hosted[k] \ {gid}) : Closes(m, g)
                 /\ \A g \in Nat : ~Creates(m, g)
                 BY DEF Closes, Creates
           <2>3. Said(k, m)
                 BY <1>11
           <2> HIDE DEF m
           <2> QED BY <1>6, <2>1, <2>2, <2>3
    <1>12. ASSUME NEW q, Said(k, [type |-> "joingamereply", seqno |-> q]), UNCHANGED hosted
           PROVE  OfferInv'
           BY <1>7, <1>12
    <1>13. ASSUME NEW q, Said(k, [type |-> "creategamereply", seqno |-> q,
                                  ok |-> FALSE, gid |-> 0]), UNCHANGED hosted
           PROVE  OfferInv'
           BY <1>7, <1>13
    <1>14. ASSUME NEW q, NEW gid \in Nat \ hosted[k],
                  Said(k, [type |-> "creategamereply", seqno |-> q, ok |-> TRUE, gid |-> gid]),
                  hosted' = [hosted EXCEPT ![k] = @ \cup {gid}]
           PROVE  OfferInv'
           <2> DEFINE m == [type |-> "creategamereply", seqno |-> q, ok |-> TRUE, gid |-> gid]
           <2>1. hosted' = [hosted EXCEPT ![k] = hosted[k] \cup {gid}]
                 BY <1>1, <1>14
           <2>2. \A g \in Nat : Creates(m, g) => g = gid
                 BY DEF Creates
           <2>3. Said(k, m)
                 BY <1>14
           <2> HIDE DEF m
           <2>4. /\ \A g \in hosted[k] \ (hosted[k] \cup {gid}) : Closes(m, g)
                 /\ \A g \in Nat : Creates(m, g) => g \in (hosted[k] \cup {gid}) \ hosted[k]
                 BY <2>2
           <2> QED BY <1>6, <2>1, <2>3, <2>4
    <1> QED BY <1>1, <1>5, <1>8, <1>9, <1>10, <1>11, <1>12, <1>13, <1>14, GsSays

LEMMA QuietOffers ==
    ASSUME OfferInv, OfferLeft,
           \A l \in Links : lstate'[l] = "authed" =>
              lstate[l] = "authed" /\ fromGs'[l] = fromGs[l] /\ hosted'[l] = hosted[l]
    PROVE  OfferInv'
    <1>1. Distinct' /\ \A l \in Links : Offered(l)' \subseteq Offered(l)
          BY OfferLeftFacts DEF OfferInv
    <1> QED BY <1>1, QuietHistory DEF OfferInv, Histories

LEMMA LostOffers ==
    ASSUME IInv, LinkInv, OfferInv, NEW k \in Links, LinkDrop(k) \/ LinkReap(k), Next
    PROVE  OfferInv'
    <1>1. \A i \in DOMAIN game' : game'[i] = game[i]
          BY DEF LinkDrop, LinkReap, GamesWithout, Without, Restrict
    <1>2. OfferLeft
          BY <1>1, LostRequests, OfferLeaves DEF NoNewRequest
    <1>3. \A l \in Links : lstate'[l] = "authed" =>
             lstate[l] = "authed" /\ fromGs'[l] = fromGs[l] /\ hosted'[l] = hosted[l]
          BY DEF LinkDrop, LinkReap, IInv, TypeOK
    <1> QED BY <1>2, <1>3, QuietOffers

LEMMA OtherOffers ==
    ASSUME IInv, LinkInv, OfferInv, Next, UNCHANGED <<link, lstate, fromGs, hosted>>,
           \A i \in DOMAIN game' \cap DOMAIN game : game'[i] = game[i]
    PROVE  OfferInv'
    <1>1. OfferLeft
          <2>1. CASE NoNewRequest
                <3>1. DOMAIN game' \subseteq DOMAIN game
                      BY <2>1 DEF NoNewRequest, GamesLeft
                <3> QED BY <2>1, <3>1, OfferLeaves DEF NoNewRequest
          <2>2. ASSUME NEW q \in Nat, NEW i \in Nat, CreateAsked(q, i)
                PROVE  OfferLeft
                BY <2>2 DEF CreateAsked, NewRequest, OfferLeft
          <2>3. ASSUME NEW q \in Nat, NEW i \in Nat, JoinAsked(q, i)
                PROVE  OfferLeft
                BY <2>3 DEF JoinAsked, OfferLeft
          <2> QED BY <2>1, <2>2, <2>3, StepRequests
    <1> QED BY <1>1, QuietOffers

LEMMA OfferStep ==
    ASSUME IInv, IInv', LinkInv, LinkInv', RequestOnItsLink, OfferInv, Next
    PROVE  OfferInv'
    <1> USE DEF netVars, serverVars
    <1>1. ASSUME UNCHANGED <<link, lstate, fromGs, hosted>>, NEW c, NEW n, PlaceGame(c, n)
          PROVE  OfferInv'
          BY <1>1, PlaceRequests, OtherOffers
    <1>2. ASSUME UNCHANGED <<link, lstate, fromGs, hosted>>,
                 UNCHANGED game \/ \E i : DestroyGame(i)
          PROVE  OfferInv'
          BY <1>2, DestroyLeft, OtherOffers
    <1>3. CASE ServeQueue
          <2>1. UNCHANGED <<link, lstate, fromGs, hosted>>
                BY <1>3 DEF ServeQueue
          <2>2. CASE PlaceGame(Head(gq).clientid, Head(gq).gamename)
                BY <1>1, <2>1, <2>2
          <2>3. CASE UNCHANGED game
                BY <1>2, <2>1, <2>3
          <2> QED BY <1>3, <2>2, <2>3 DEF ServeQueue
    <1>4. CASE TimerStep
          BY <1>2, <1>4 DEF TimerStep, SqExpire, VoidPurge
    <1>5. ASSUME NEW c \in Clients, ClientStep(c)
          PROVE  OfferInv'
          <2>1. ASSUME NEW n \in Names, CreateGame(c, n)
                PROVE  OfferInv'
                BY <1>1, <2>1 DEF CreateGame
          <2>2. CASE UNCHANGED <<game, link, lstate, fromGs, hosted>>
                BY <1>2, <2>2
          <2> QED BY <1>5, <2>1, <2>2
                  DEF ClientStep, ClientConnect, ClientDrop, ClientReap, CancelCreate,
                      ClientSwitchChar, EnqueueGame, LeaveQueueByAsking, JoinGame
    <1> QED BY <1>3, <1>4, <1>5, MessageOffers, GsOffers, LostOffers DEF Next

-----------------------------------------------------------------------------
(* The theorems about requests and offered games.                          *)
MessageInv == IInv /\ LinkInv /\ RequestOnItsLink /\ OfferInv

LEMMA InitMessageInv == Init => MessageInv
    <1> SUFFICES ASSUME Init PROVE MessageInv
        OBVIOUS
    <1>1. IInv
          BY InitIInv
    <1>2. LinkInv
          BY DEF Init, LinkInv, ActiveLinks, NewLinks
    <1>3. RequestOnItsLink
          BY DEF Init, RequestOnItsLink
    <1>4. OfferInv
          BY DEF Init, OfferInv, Distinct, Histories
    <1> QED BY <1>1, <1>2, <1>3, <1>4 DEF MessageInv

LEMMA NextMessageInv == MessageInv /\ [Next]_vars => MessageInv'
    <1> SUFFICES ASSUME MessageInv, [Next]_vars PROVE MessageInv'
        OBVIOUS
    <1>1. IInv'
          BY NextIInv DEF MessageInv
    <1>2. CASE Next
          <2>1. LinkInv'
                BY <1>2, LinkInvStep DEF MessageInv, IInv
          <2> QED BY <1>1, <1>2, <2>1, RequestStep, OfferStep DEF MessageInv
    <1>3. CASE UNCHANGED vars
          <2> USE <1>3 DEF vars, serverVars, netVars
          <2>1. LinkInv'
                BY DEF MessageInv, LinkInv, ActiveLinks, NewLinks
          <2>2. RequestOnItsLink'
                BY DEF MessageInv, RequestOnItsLink, InFlight
          <2>3. OfferLeft
                BY DEF OfferLeft
          <2>4. OfferInv'
                BY <2>3, QuietOffers DEF MessageInv
          <2> QED BY <1>1, <2>1, <2>2, <2>4 DEF MessageInv
    <1> QED BY <1>2, <1>3

LEMMA MessageInvariance == Spec => []MessageInv
    BY InitMessageInv, NextMessageInv, PTL DEF Spec

(* The answer d2cs finds by its number alone is about the game it asked    *)
(* for, however the connections of a server come, overlap and go, and      *)
(* whatever requests expire before they are answered.                      *)
THEOREM RequestsFollowed == Spec => []RequestOnItsLink
    <1>1. MessageInv => RequestOnItsLink
          BY DEF MessageInv
    <1> QED BY <1>1, MessageInvariance, PTL

(* A game d2cs offers runs on the server it names or is about to be closed *)
(* there, and no other game of that server carries its id, though servers  *)
(* use ids again and d2cs forgets requests the server goes on to answer.   *)
THEOREM OfferedRun == Spec => []OfferedGamesRun
    <1>1. ASSUME MessageInv
          PROVE  OfferedGamesRun
          <2> SUFFICES ASSUME NEW i \in DOMAIN game, game[i].created,
                              NEW k, k = link[game[i].d2gs]
                       PROVE  /\ lstate[k] = "authed" =>
                                   \/ game[i].gid \in hosted[k]
                                   \/ \E j \in DOMAIN fromGs[k] :
                                        fromGs[k][j] = [type |-> "closegame", gid |-> game[i].gid]
                              /\ GamesWithGid(game[i].d2gs, game[i].gid) = {i}
              BY DEF OfferedGamesRun
          <2>1. k \in Links
                BY <1>1 DEF MessageInv, IInv, TypeOK, Game, CountInv, HostedOnActive
          <2>2. game[i].gid \in Offered(k)
                BY DEF Offered, Offers
          <2>3. lstate[k] = "authed" => RunOrClosed(fromGs[k], hosted[k], Offered(k))
                BY <1>1, <2>1 DEF MessageInv, OfferInv, Histories, History
          <2>4. GamesWithGid(game[i].d2gs, game[i].gid) = {i}
                BY <1>1 DEF MessageInv, OfferInv, Distinct, GamesWithGid, GamesOn
          <2> QED BY <2>2, <2>3, <2>4 DEF RunOrClosed, Closes
    <1> QED BY <1>1, MessageInvariance, PTL

-----------------------------------------------------------------------------
(* The creations d2cs waits for: each game has at most one, and none once  *)
(* it is created.                                                          *)
Numbers(s, type) == {s[j].seqno : j \in {x \in DOMAIN s : s[x].type = type}}

Pending(q) ==
    \E k \in Links : \/ q \in Numbers(toGs[k], "creategamereq")
                     \/ q \in Numbers(fromGs[k], "creategamereply")

CreateInv ==
    \A q \in DOMAIN sq : Pending(q) /\ sq[q].gameid \in DOMAIN game =>
        /\ ~game[sq[q].gameid].created
        /\ \A r \in DOMAIN sq : Pending(r) /\ sq[r].gameid = sq[q].gameid => r = q

LEMMA NumbersFacts ==
    ASSUME NEW T, NEW s \in Seq(T), NEW type
    PROVE  /\ \A m \in T : \A q \in Numbers(Append(s, m), type) :
                 q \in Numbers(s, type) \/ (m.type = type /\ q = m.seqno)
           /\ s # <<>> => Numbers(Tail(s), type) \subseteq Numbers(s, type)
           /\ s # <<>> /\ Head(s).type = type => Head(s).seqno \in Numbers(s, type)
    <1>1. ASSUME NEW m \in T, NEW q \in Numbers(Append(s, m), type)
          PROVE  q \in Numbers(s, type) \/ (m.type = type /\ q = m.seqno)
          <2>1. PICK j \in DOMAIN Append(s, m) :
                   Append(s, m)[j].type = type /\ q = Append(s, m)[j].seqno
                BY DEF Numbers
          <2>2. j \in DOMAIN s \/ j = Len(s) + 1
                BY AppendElements
          <2>3. j \in DOMAIN s => Append(s, m)[j] = s[j]
                BY AppendElements
          <2>4. Append(s, m)[Len(s) + 1] = m
                BY AppendElements
          <2> QED BY <2>1, <2>2, <2>3, <2>4 DEF Numbers
    <1>2. ASSUME s # <<>>, NEW q \in Numbers(Tail(s), type)
          PROVE  q \in Numbers(s, type)
          <2>1. PICK j \in DOMAIN Tail(s) : Tail(s)[j].type = type /\ q = Tail(s)[j].seqno
                BY DEF Numbers
          <2>2. j + 1 \in DOMAIN s /\ Tail(s)[j] = s[j + 1]
                BY <1>2, TailElements
          <2> QED BY <2>1, <2>2 DEF Numbers
    <1>3. ASSUME s # <<>>, Head(s).type = type
          PROVE  Head(s).seqno \in Numbers(s, type)
          BY <1>3, TailElements DEF Numbers
    <1> QED BY <1>1, <1>2, <1>3

LEMMA PendingUsed == ASSUME NEW q, Pending(q) PROVE q \in UsedSeqnos
    <1>1. PICK k \in Links : \/ q \in Numbers(toGs[k], "creategamereq")
                             \/ q \in Numbers(fromGs[k], "creategamereply")
          BY DEF Pending
    <1>2. q \in Asking(toGs[k]) \/ q \in Answering(fromGs[k])
          BY <1>1 DEF Numbers, Asking, Answering, Reply
    <1> QED BY <1>2, Flight DEF UsedSeqnos

-----------------------------------------------------------------------------
(* With one connection for each server, a server whose connection is       *)
(* authenticated is active on it.                                          *)
OneLinkEach == \A k, l \in Links : ServerOf[k] = ServerOf[l] => k = l

AuthedActive == \A k \in Links : lstate[k] = "authed" => link[ServerOf[k]] = k

LEMMA AuthedActiveStep ==
    ASSUME OneLinkEach, TypeOK, AuthedActive, Next
    PROVE  AuthedActive'
    <1> USE DEF serverVars, GsVars
    <1>1. /\ lstate \in [Links -> {"gone", "connected", "authed", "destroy"}]
          /\ link \in [Servers -> Links \cup {NoLink}]
          /\ \A k \in Links : ServerOf[k] \in Servers
          BY LinksAssumption DEF TypeOK
    <1>2. CASE UNCHANGED <<link, lstate>>
          BY <1>2 DEF AuthedActive
    <1>3. ASSUME NEW k \in Links, OnAuthAccepted(k)
          PROVE  AuthedActive'
          <2>1. link' = [link EXCEPT ![ServerOf[k]] = k] /\ lstate' = [lstate EXCEPT ![k] = "authed"]
                BY <1>3 DEF OnAuthAccepted
          <2> QED BY <1>1, <2>1 DEF AuthedActive, OneLinkEach
    <1>4. ASSUME NEW k \in Links, LinkReap(k)
          PROVE  AuthedActive'
          <2>1. /\ lstate' = [lstate EXCEPT ![k] = "gone"]
                /\ link' = link \/ link' = [link EXCEPT ![ServerOf[k]] = NoLink]
                BY <1>4 DEF LinkReap
          <2> QED BY <1>1, <2>1 DEF AuthedActive, OneLinkEach
    <1>5. ASSUME NEW k \in Links, LinkDrop(k) \/ LinkConnect(k)
          PROVE  AuthedActive'
          <2>1. /\ link' = link
                /\ \A l \in Links : lstate'[l] = "authed" => lstate[l] = "authed"
                BY <1>1, <1>5 DEF LinkDrop, LinkConnect
          <2> QED BY <2>1 DEF AuthedActive
    <1>6. ASSUME NEW k \in Links, GsStep(k)
          PROVE  UNCHANGED <<link, lstate>> \/ LinkConnect(k)
          BY <1>6, GsSays DEF Said
    <1>7. ASSUME NEW k \in Links, OnGsMessage(k)
          PROVE  UNCHANGED <<link, lstate>> \/ OnAuthAccepted(k)
          BY <1>7 DEF OnGsMessage, OnMismatch, OnAuthRefused, OnSetGsInfo,
                      OnCreateGameReply, OnJoinGameReply, OnUpdateGameInfo, OnCloseGame
    <1> QED BY <1>2, <1>3, <1>4, <1>5, <1>6, <1>7, OtherSteps

-----------------------------------------------------------------------------
(* A creation stays among those d2cs waits for until its answer is read,   *)
(* and only a new request joins them.                                      *)
LEMMA PendingSent ==
    ASSUME TypeOK, NEW k \in Links, NEW m \in ToGsMsg, Send(k, m), UNCHANGED fromGs,
           NEW p, Pending(p)'
    PROVE  Pending(p) \/ (m.type = "creategamereq" /\ p = m.seqno)
    <1>1. PICK l \in Links : \/ p \in Numbers(toGs'[l], "creategamereq")
                             \/ p \in Numbers(fromGs[l], "creategamereply")
          BY DEF Pending, Numbers
    <1>2. toGs \in [Links -> Seq(ToGsMsg)]
          BY DEF TypeOK
    <1>3. CASE l = k /\ p \in Numbers(toGs'[l], "creategamereq")
          <2>1. toGs'[k] = Append(toGs[k], m) /\ toGs[k] \in Seq(ToGsMsg)
                BY <1>2 DEF Send
          <2>2. p \in Numbers(toGs[k], "creategamereq") \/ (m.type = "creategamereq" /\ p = m.seqno)
                BY <1>3, <2>1, NumbersFacts
          <2> QED BY <2>2 DEF Pending
    <1>4. CASE l # k \/ p \in Numbers(fromGs[l], "creategamereply")
          <2>1. l # k => toGs'[l] = toGs[l]
                BY <1>2 DEF Send
          <2> QED BY <1>1, <1>4, <2>1 DEF Pending
    <1> QED BY <1>1, <1>3, <1>4

LEMMA PendingRead ==
    ASSUME TypeOK, NEW k \in Links, Read(k), UNCHANGED toGs, NEW p, Pending(p)'
    PROVE  Pending(p)
    <1>1. PICK l \in Links : \/ p \in Numbers(toGs[l], "creategamereq")
                             \/ p \in Numbers(fromGs'[l], "creategamereply")
          BY DEF Pending, Numbers
    <1>2. fromGs \in [Links -> Seq(FromGsMsg)]
          BY DEF TypeOK
    <1>3. fromGs'[l] = IF l = k THEN Tail(fromGs[k]) ELSE fromGs[l]
          BY <1>2 DEF Read
    <1>4. Numbers(Tail(fromGs[k]), "creategamereply") \subseteq Numbers(fromGs[k], "creategamereply")
          BY <1>2, NumbersFacts DEF Read
    <1> QED BY <1>1, <1>3, <1>4 DEF Pending

LEMMA PendingSaid ==
    ASSUME TypeOK, NEW k \in Links, NEW m, Said(k, m), NEW p, Pending(p)',
           \/ toGs' = toGs
           \/ toGs[k] # <<>> /\ toGs' = [toGs EXCEPT ![k] = Tail(@)],
           m.type = "creategamereply" =>
              /\ toGs[k] # <<>> /\ Head(toGs[k]).type = "creategamereq"
              /\ m.seqno = Head(toGs[k]).seqno
    PROVE  Pending(p)
    <1>1. PICK l \in Links : \/ p \in Numbers(toGs'[l], "creategamereq")
                             \/ p \in Numbers(fromGs'[l], "creategamereply")
          BY DEF Pending, Numbers
    <1>2. fromGs \in [Links -> Seq(FromGsMsg)] /\ toGs \in [Links -> Seq(ToGsMsg)]
          BY DEF TypeOK
    <1>3. CASE p \in Numbers(toGs'[l], "creategamereq")
          <2>1. toGs'[l] = toGs[l] \/ (l = k /\ toGs[k] # <<>> /\ toGs'[l] = Tail(toGs[k]))
                BY <1>2
          <2>2. toGs[k] # <<>> =>
                   Numbers(Tail(toGs[k]), "creategamereq") \subseteq Numbers(toGs[k], "creategamereq")
                BY <1>2, NumbersFacts
          <2> QED BY <1>3, <2>1, <2>2 DEF Pending
    <1>4. CASE p \in Numbers(fromGs'[l], "creategamereply")
          <2>1. m \in FromGsMsg /\ fromGs'[l] = IF l = k THEN Append(fromGs[k], m) ELSE fromGs[l]
                BY <1>2 DEF Said
          <2>2. p \in Numbers(Append(fromGs[k], m), "creategamereply") =>
                   \/ p \in Numbers(fromGs[k], "creategamereply")
                   \/ m.type = "creategamereply" /\ p = m.seqno
                BY <1>2, <2>1, NumbersFacts
          <2>3. m.type = "creategamereply" => m.seqno \in Numbers(toGs[k], "creategamereq")
                BY <1>2, NumbersFacts
          <2> QED BY <1>4, <2>1, <2>2, <2>3 DEF Pending
    <1> QED BY <1>1, <1>3, <1>4

LEMMA PendingLost ==
    ASSUME TypeOK, NEW k \in Links, toGs' = [toGs EXCEPT ![k] = <<>>],
           fromGs' = [fromGs EXCEPT ![k] = <<>>], NEW p, Pending(p)'
    PROVE  Pending(p)
    <1>1. PICK l \in Links : \/ p \in Numbers(toGs'[l], "creategamereq")
                             \/ p \in Numbers(fromGs'[l], "creategamereply")
          BY DEF Pending, Numbers
    <1>2. Numbers(<<>>, "creategamereq") = {} /\ Numbers(<<>>, "creategamereply") = {}
          BY DEF Numbers
    <1>3. IF l = k THEN toGs'[l] = <<>> /\ fromGs'[l] = <<>>
                   ELSE toGs'[l] = toGs[l] /\ fromGs'[l] = fromGs[l]
          BY DEF TypeOK
    <1> QED BY <1>1, <1>2, <1>3 DEF Pending

LEMMA PendingGs ==
    ASSUME TypeOK, NEW k \in Links, GsStep(k), NEW p, Pending(p)'
    PROVE  Pending(p)
    <1>1. ASSUME UNCHANGED <<toGs, fromGs>>
          PROVE  Pending(p)
          BY <1>1 DEF Pending
    <1>2. CASE LinkConnect(k)
          BY <1>1, <1>2 DEF LinkConnect
    <1>3. ASSUME NEW m, Said(k, m), m.type # "creategamereply", UNCHANGED toGs
          PROVE  Pending(p)
          BY <1>3, PendingSaid
    <1>4. ASSUME NEW ok \in BOOLEAN, Said(k, [type |-> "authreply", ok |-> ok]), UNCHANGED toGs
          PROVE  Pending(p)
          BY <1>3, <1>4
    <1>5. ASSUME NEW n \in Capacities, Said(k, [type |-> "setgsinfo", maxgame |-> n]), UNCHANGED toGs
          PROVE  Pending(p)
          BY <1>3, <1>5
    <1>6. ASSUME NEW gid \in hosted[k], NEW x \in Players, NEW b \in BOOLEAN, UNCHANGED toGs,
                 Said(k, [type |-> "updategameinfo", gid |-> gid, char |-> x, enter |-> b])
          PROVE  Pending(p)
          BY <1>3, <1>6
    <1>7. ASSUME NEW gid \in hosted[k], Said(k, [type |-> "closegame", gid |-> gid]), UNCHANGED toGs
          PROVE  Pending(p)
          BY <1>3, <1>7
    <1>8. ASSUME toGs[k] # <<>>, toGs' = [toGs EXCEPT ![k] = Tail(@)],
                 Said(k, [type |-> "joingamereply", seqno |-> Head(toGs[k]).seqno])
          PROVE  Pending(p)
          <2> DEFINE m == [type |-> "joingamereply", seqno |-> Head(toGs[k]).seqno]
          <2>1. m.type # "creategamereply" /\ Said(k, m)
                BY <1>8
          <2> HIDE DEF m
          <2> QED BY <1>8, <2>1, PendingSaid
    <1>9. ASSUME toGs[k] # <<>>, toGs' = [toGs EXCEPT ![k] = Tail(@)],
                 Head(toGs[k]).type = "creategamereq", NEW ok, NEW gid,
                 Said(k, [type |-> "creategamereply", seqno |-> Head(toGs[k]).seqno,
                          ok |-> ok, gid |-> gid])
          PROVE  Pending(p)
          <2> DEFINE m == [type |-> "creategamereply", seqno |-> Head(toGs[k]).seqno,
                           ok |-> ok, gid |-> gid]
          <2>1. m.seqno = Head(toGs[k]).seqno /\ Said(k, m)
                BY <1>9
          <2> HIDE DEF m
          <2> QED BY <1>9, <2>1, PendingSaid
    <1> QED BY <1>2, <1>4, <1>5, <1>6, <1>7, <1>8, <1>9, GsSays

LEMMA PendingStep ==
    ASSUME IInv, LinkInv, Next, NEW p, Pending(p)'
    PROVE  Pending(p) \/ \E i \in Nat : CreateAsked(p, i)
    <1> USE DEF serverVars, netVars
    <1>1. TypeOK
          BY DEF IInv
    <1>2. ASSUME UNCHANGED <<toGs, fromGs>>
          PROVE  Pending(p)
          BY <1>2 DEF Pending
    <1>3. ASSUME NEW c, NEW n, PlaceGame(c, n), UNCHANGED <<link, lstate, fromGs, hosted>>
          PROVE  Pending(p) \/ \E i \in Nat : CreateAsked(p, i)
          <2>1. PICK q, i \in Nat : CreateAsked(q, i)
                BY <1>3, PlaceRequests DEF CreateAsked
          <2> DEFINE m == [type |-> "creategamereq", seqno |-> q]
          <2>2. /\ m \in ToGsMsg /\ m.seqno = q /\ link[game'[i].d2gs] \in Links
                /\ Send(link[game'[i].d2gs], m)
                BY <2>1 DEF CreateAsked, NewRequest
          <2> HIDE DEF m
          <2>3. Pending(p) \/ p = q
                BY <1>1, <1>3, <2>2, PendingSent
          <2> QED BY <2>1, <2>3
    <1>4. ASSUME NEW c \in Clients, NEW i \in DOMAIN game, JoinGame(c, i)
          PROVE  Pending(p)
          <2>1. PICK q \in Nat :
                   NewRequest(q, i, [type |-> "joingamereq", seqno |-> q, gid |-> game[i].gid])
                BY <1>4, JoinRequests
          <2> DEFINE m == [type |-> "joingamereq", seqno |-> q, gid |-> game[i].gid]
          <2>2. /\ m \in ToGsMsg /\ m.type # "creategamereq" /\ link[game'[i].d2gs] \in Links
                /\ Send(link[game'[i].d2gs], m) /\ UNCHANGED fromGs
                BY <2>1 DEF NewRequest
          <2> HIDE DEF m
          <2> QED BY <1>1, <2>2, PendingSent
    <1>5. CASE ServeQueue
          BY <1>2, <1>3, <1>5 DEF ServeQueue
    <1>6. CASE TimerStep
          BY <1>2, <1>6 DEF TimerStep, SqExpire, VoidPurge
    <1>7. ASSUME NEW c \in Clients, ClientStep(c)
          PROVE  Pending(p) \/ \E i \in Nat : CreateAsked(p, i)
          <2>1. ASSUME NEW n \in Names, CreateGame(c, n)
                PROVE  Pending(p) \/ \E i \in Nat : CreateAsked(p, i)
                BY <1>3, <2>1 DEF CreateGame
          <2> QED BY <1>2, <1>4, <1>7, <2>1
                  DEF ClientStep, ClientConnect, ClientDrop, ClientReap, CancelCreate,
                      ClientSwitchChar, EnqueueGame, LeaveQueueByAsking
    <1>8. ASSUME NEW k \in Links, OnGsMessage(k)
          PROVE  Pending(p)
          BY <1>1, <1>8, MessageReads, PendingRead
    <1>9. ASSUME NEW k \in Links, LinkDrop(k) \/ LinkReap(k)
          PROVE  Pending(p)
          BY <1>1, <1>2, <1>9, PendingLost DEF LinkDrop, LinkReap
    <1> QED BY <1>1, <1>5, <1>6, <1>7, <1>8, <1>9, PendingGs DEF Next

(* A game is created by the answer to the request for it.                  *)
Confirms(k, i) ==
    /\ OnCreateGameReply(k) /\ Answers(Msg(k).seqno) /\ i = sq[Msg(k).seqno].gameid

LEMMA CreatedBy ==
    ASSUME IInv, Next, NEW i \in DOMAIN game, i \in DOMAIN game', game'[i].created,
           ~game[i].created
    PROVE  \E k \in Links : Confirms(k, i)
    <1> USE DEF serverVars, netVars, GsVars
    <1>1. game'[i] # game[i]
          OBVIOUS
    <1>2. ASSUME NEW j, DestroyGame(j)
          PROVE  FALSE
          BY <1>1, <1>2, DestroyLeft
    <1>3. ASSUME NEW s, game' = GamesWithout(s)
          PROVE  FALSE
          BY <1>1, <1>3 DEF GamesWithout, Without, Restrict
    <1>4. ASSUME NEW c, NEW n, PlaceGame(c, n), UNCHANGED <<link, lstate, fromGs, hosted>>
          PROVE  FALSE
          BY <1>1, <1>4, PlaceRequests
    <1>5. CASE ServeQueue
          BY <1>1, <1>4, <1>5 DEF ServeQueue
    <1>6. CASE TimerStep
          BY <1>1, <1>2, <1>6 DEF TimerStep, SqExpire, VoidPurge
    <1>7. ASSUME NEW c \in Clients, ClientStep(c)
          PROVE  FALSE
          <2>1. ASSUME NEW n \in Names, CreateGame(c, n)
                PROVE  FALSE
                BY <1>4, <2>1 DEF CreateGame
          <2> QED BY <1>1, <1>7, <2>1
                  DEF ClientStep, ClientConnect, ClientDrop, ClientReap, CancelCreate,
                      ClientSwitchChar, EnqueueGame, LeaveQueueByAsking, JoinGame
    <1>8. ASSUME NEW k \in Links, LinkDrop(k) \/ LinkReap(k)
          PROVE  FALSE
          BY <1>1, <1>3, <1>8 DEF LinkDrop, LinkReap
    <1>9. ASSUME NEW k \in Links, GsStep(k)
          PROVE  FALSE
          BY <1>1, <1>9, GsSays DEF Said, LinkConnect, IInv
    <1>10. ASSUME NEW k \in Links, OnGsMessage(k)
           PROVE  Confirms(k, i)
           <2>1. CASE OnUpdateGameInfo(k)
                 <3>1. ASSUME NEW j, NEW players, game' = [game EXCEPT ![j].chars = players]
                       PROVE  game'[i].created = game[i].created
                       BY <3>1 DEF IInv, TypeOK, Game
                 <3>2. ASSUME NEW j \in GamesWithGid(ServerOf[k], Msg(k).gid),
                              game' = [game EXCEPT ![j].chars =
                                         IF Msg(k).enter THEN @ \cup {Msg(k).char}
                                                         ELSE @ \ {Msg(k).char}]
                       PROVE  FALSE
                       BY <3>1, <3>2
                 <3> QED BY <1>1, <2>1, <3>2 DEF OnUpdateGameInfo
           <2>2. CASE OnCreateGameReply(k)
                 <3> DEFINE q == Msg(k).seqno
                            j == sq[q].gameid
                 <3>1. /\ Answers(q)
                       /\ game' = [game EXCEPT ![j].created = TRUE, ![j].gid = Msg(k).gid]
                       BY <1>1, <1>2, <2>2 DEF OnCreateGameReply
                 <3>2. i = j
                       BY <1>1, <3>1
                 <3> QED BY <2>2, <3>1, <3>2 DEF Confirms
           <2>3. CASE OnAuthAccepted(k)
                 BY <1>1, <1>3, <2>3 DEF OnAuthAccepted
           <2>4. CASE OnCloseGame(k)
                 BY <1>1, <1>2, <2>4 DEF OnCloseGame
           <2> QED BY <1>1, <1>10, <2>1, <2>2, <2>3, <2>4
                   DEF OnGsMessage, OnMismatch, OnAuthRefused, OnSetGsInfo, OnJoinGameReply
    <1> QED BY <1>5, <1>6, <1>7, <1>8, <1>9, <1>10 DEF Next

(* The answer that is read is to a creation d2cs waits for.                *)
LEMMA AnswerPending ==
    ASSUME TypeOK, NEW k \in Links, OnCreateGameReply(k)
    PROVE  Pending(Msg(k).seqno)
    <1>1. fromGs[k] \in Seq(FromGsMsg) /\ fromGs[k] # <<>> /\ Head(fromGs[k]).type = "creategamereply"
          BY DEF TypeOK, OnCreateGameReply, Valid, Arrives
    <1>2. Msg(k).seqno \in Numbers(fromGs[k], "creategamereply")
          BY <1>1, NumbersFacts DEF Msg
    <1> QED BY <1>2 DEF Pending

LEMMA CreateStep ==
    ASSUME IInv, LinkInv, CreateInv, Next
    PROVE  CreateInv'
    <1> SUFFICES ASSUME NEW q \in DOMAIN sq', Pending(q)', NEW i, i = sq'[q].gameid,
                        i \in DOMAIN game'
                 PROVE  /\ ~game'[i].created
                        /\ \A r \in DOMAIN sq' : Pending(r)' /\ sq'[r].gameid = i => r = q
        BY DEF CreateInv
    <1>1. CASE NoNewRequest
          <2>1. /\ \A r \in DOMAIN sq' : r \in DOMAIN sq /\ sq'[r] = sq[r]
                /\ i \in DOMAIN game
                BY <1>1 DEF NoNewRequest, GamesLeft, RequestsLeft
          <2>2. ASSUME NEW r \in DOMAIN sq', Pending(r)'
                PROVE  Pending(r)
                BY <2>1, <2>2, PendingStep DEF CreateAsked, NewRequest, UsedSeqnos
          <2>3. /\ ~game[i].created
                /\ \A r \in DOMAIN sq : Pending(r) /\ sq[r].gameid = i => r = q
                BY <2>1, <2>2 DEF CreateInv
          <2>4. ASSUME game'[i].created
                PROVE  FALSE
                <3>1. PICK k \in Links : Confirms(k, i)
                      BY <2>1, <2>3, <2>4, CreatedBy
                <3>2. /\ Pending(Msg(k).seqno) /\ Msg(k).seqno \in DOMAIN sq
                      /\ sq[Msg(k).seqno].gameid = i
                      BY <3>1, AnswerPending DEF Confirms, Answers, IInv
                <3>3. Msg(k).seqno = q
                      BY <2>3, <3>2
                <3>4. sq' = Without(sq, {q})
                      BY <3>1, <3>3 DEF Confirms, OnCreateGameReply
                <3> QED BY <3>4 DEF Without, Restrict
          <2> QED BY <2>1, <2>2, <2>3, <2>4
    <1>2. ASSUME NEW new \in Nat, NEW n \in Nat, CreateAsked(new, n) \/ JoinAsked(new, n)
          PROVE  /\ ~game'[i].created
                 /\ \A r \in DOMAIN sq' : Pending(r)' /\ sq'[r].gameid = i => r = q
          <2>1. /\ new \notin UsedSeqnos /\ DOMAIN sq' = DOMAIN sq \cup {new} /\ sq'[new].gameid = n
                /\ \A r \in DOMAIN sq : sq'[r] = sq[r]
                /\ DOMAIN game' = DOMAIN game \cup {n}
                BY <1>2 DEF CreateAsked, JoinAsked, NewRequest
          <2>2. ASSUME NEW r \in DOMAIN sq, Pending(r)'
                PROVE  Pending(r)
                BY <2>2, PendingStep DEF CreateAsked, NewRequest, UsedSeqnos
          <2>3. CASE CreateAsked(new, n)
                <3>1. n \notin DOMAIN game /\ \A r \in DOMAIN sq : sq[r].gameid # n
                      BY <2>3 DEF CreateAsked, UsedGameIds
                <3>2. ~game'[n].created /\ \A j \in DOMAIN game : game'[j] = game[j]
                      BY <2>3 DEF CreateAsked
                <3>3. CASE q = new
                      BY <2>1, <3>1, <3>2, <3>3
                <3>4. CASE q # new
                      <4>1. q \in DOMAIN sq /\ sq[q].gameid = i /\ Pending(q) /\ i \in DOMAIN game
                            BY <2>1, <2>2, <3>1, <3>4
                      <4>2. /\ ~game[i].created
                            /\ \A r \in DOMAIN sq : Pending(r) /\ sq[r].gameid = i => r = q
                            BY <4>1 DEF CreateInv
                      <4> QED BY <2>1, <2>2, <3>1, <3>2, <4>1, <4>2
                <3> QED BY <3>3, <3>4
          <2>4. CASE JoinAsked(new, n)
                <3>1. UNCHANGED game
                      BY <2>4 DEF JoinAsked
                <3>2. ~Pending(new)'
                      <4>1. ~Pending(new)
                            BY <2>1, PendingUsed
                      <4>2. \A j : ~CreateAsked(new, j)
                            BY <3>1 DEF CreateAsked, NewRequest, UsedGameIds
                      <4> QED BY <4>1, <4>2, PendingStep
                <3>3. q \in DOMAIN sq /\ sq[q].gameid = i /\ Pending(q)
                      BY <2>1, <2>2, <3>2
                <3>4. /\ ~game[i].created
                      /\ \A r \in DOMAIN sq : Pending(r) /\ sq[r].gameid = i => r = q
                      BY <3>1, <3>3 DEF CreateInv
                <3> QED BY <2>1, <2>2, <3>1, <3>2, <3>3, <3>4
          <2> QED BY <1>2, <2>3, <2>4
    <1> QED BY <1>1, <1>2, StepRequests

-----------------------------------------------------------------------------
(* How a game with characters in it leaves the list.                       *)
LostOrClosed(i) ==
    game[i].created /\ game[i].chars # {} =>
       LET k == link[game[i].d2gs]
       IN  \/ link'[game[i].d2gs] # k
           \/ fromGs[k] # <<>> /\ Msg(k) = [type |-> "closegame", gid |-> game[i].gid]

LEMMA MessageCloses ==
    ASSUME IInv, LinkInv, CreateInv, AuthedActive, NEW l \in Links, OnGsMessage(l),
           NEW i \in DOMAIN game, i \notin DOMAIN game'
    PROVE  LostOrClosed(i)
    <1> USE DEF serverVars
    <1>1. ASSUME NEW j, DestroyGame(j)
          PROVE  j = i
          BY <1>1, DestroyLeft
    <1>2. game[i].d2gs \in Servers /\ link \in [Servers -> Links \cup {NoLink}]
          BY DEF IInv, TypeOK, Game
    <1>3. CASE OnAuthAccepted(l)
          <2>1. game' = GamesWithout(ServerOf[l]) /\ link' = [link EXCEPT ![ServerOf[l]] = l]
                BY <1>3 DEF OnAuthAccepted
          <2>2. game[i].d2gs = ServerOf[l]
                BY <2>1 DEF GamesWithout, GamesOn, Without, Restrict
          <2>3. link[ServerOf[l]] # l
                BY <1>3, LinksAssumption DEF OnAuthAccepted, Valid, LinkInv, ActiveLinks
          <2> QED BY <1>2, <2>1, <2>2, <2>3 DEF LostOrClosed
    <1>4. CASE OnCreateGameReply(l)
          <2>1. Answers(Msg(l).seqno) /\ DestroyGame(sq[Msg(l).seqno].gameid)
                BY <1>4 DEF OnCreateGameReply, Answers
          <2>2. i = sq[Msg(l).seqno].gameid /\ Pending(Msg(l).seqno)
                BY <1>1, <1>4, <2>1, AnswerPending DEF IInv
          <2>3. ~game[i].created
                BY <2>1, <2>2 DEF CreateInv, Answers
          <2> QED BY <2>3 DEF LostOrClosed
    <1>5. CASE OnCloseGame(l)
          <2>1. PICK j \in GamesWithGid(ServerOf[l], Msg(l).gid) : DestroyGame(j)
                BY <1>5 DEF OnCloseGame
          <2>2. game[i].d2gs = ServerOf[l] /\ game[i].gid = Msg(l).gid
                BY <1>1, <2>1 DEF GamesWithGid, GamesOn
          <2>3. link[ServerOf[l]] = l /\ fromGs[l] # <<>> /\ Msg(l).type = "closegame"
                BY <1>5 DEF OnCloseGame, Valid, Arrives, Msg, AuthedActive
          <2>4. Msg(l) = [type |-> "closegame", gid |-> Msg(l).gid]
                <3>1. Msg(l) \in FromGsMsg
                      BY MessageReads DEF IInv
                <3> HIDE DEF Msg
                <3>2. Msg(l) \in [type : {"closegame"}, gid : Nat]
                      BY <2>3, <3>1 DEF FromGsMsg
                <3> QED BY <3>2
          <2> QED BY <2>2, <2>3, <2>4 DEF LostOrClosed
    <1>6. CASE OnUpdateGameInfo(l)
          BY <1>6 DEF OnUpdateGameInfo
    <1> QED BY <1>3, <1>4, <1>5, <1>6
            DEF OnGsMessage, OnMismatch, OnAuthRefused, OnSetGsInfo, OnJoinGameReply

LEMMA ClosedOrLost ==
    ASSUME IInv, LinkInv, CreateInv, AuthedActive, Next, NEW i \in DOMAIN game, i \notin DOMAIN game'
    PROVE  LostOrClosed(i)
    <1> USE DEF serverVars, netVars, GsVars
    <1>1. ~(DOMAIN game \subseteq DOMAIN game')
          OBVIOUS
    <1>2. ASSUME NEW c, NEW n, PlaceGame(c, n)
          PROVE  FALSE
          BY <1>1, <1>2 DEF PlaceGame, With
    <1>3. CASE ServeQueue
          BY <1>1, <1>2, <1>3 DEF ServeQueue
    <1>4. ASSUME NEW j \in DOMAIN game, VoidPurge(j)
          PROVE  LostOrClosed(i)
          BY <1>4, DestroyLeft DEF VoidPurge, LostOrClosed
    <1>5. CASE TimerStep
          BY <1>1, <1>4, <1>5 DEF TimerStep, SqExpire
    <1>6. ASSUME NEW c \in Clients, ClientStep(c)
          PROVE  FALSE
          BY <1>1, <1>2, <1>6
          DEF ClientStep, ClientConnect, ClientDrop, ClientReap, CancelCreate, CreateGame,
              ClientSwitchChar, EnqueueGame, LeaveQueueByAsking, JoinGame
    <1>7. ASSUME NEW k \in Links, LinkReap(k)
          PROVE  LostOrClosed(i)
          <2>1. game' = GamesWithout(ServerOf[k]) /\ link' = [link EXCEPT ![ServerOf[k]] = NoLink]
                BY <1>1, <1>7 DEF LinkReap
          <2>2. game[i].d2gs = ServerOf[k]
                BY <2>1 DEF GamesWithout, GamesOn, Without, Restrict
          <2>3. link[ServerOf[k]] # NoLink /\ ServerOf[k] \in Servers
                BY <2>2, LinksAssumption DEF IInv, CountInv, HostedOnActive
          <2> QED BY <2>1, <2>2, <2>3 DEF LostOrClosed, IInv, TypeOK
    <1>8. ASSUME NEW k \in Links, LinkDrop(k) \/ GsStep(k)
          PROVE  FALSE
          BY <1>1, <1>8, GsSays DEF LinkDrop, Said, LinkConnect, IInv
    <1> QED BY <1>3, <1>5, <1>6, <1>7, <1>8, MessageCloses DEF Next

CreationInv == MessageInv /\ CreateInv

LEMMA CreationInvariance == Spec => []CreationInv
    <1>1. Init => CreateInv
          BY DEF Init, CreateInv
    <1>2. MessageInv /\ CreateInv /\ [Next]_vars => CreateInv'
          <2>1. MessageInv /\ CreateInv /\ Next => CreateInv'
                BY CreateStep DEF MessageInv
          <2>2. CreateInv /\ UNCHANGED vars => CreateInv'
                BY DEF vars, netVars, CreateInv, Pending
          <2> QED BY <2>1, <2>2
    <1> QED BY <1>1, <1>2, MessageInvariance, PTL DEF Spec, CreationInv

(* With one connection for each game server, a game with characters in it  *)
(* leaves the list only when its server closed that very game or is lost:  *)
(* no purge, refused creation or news of another game takes it away.       *)
THEOREM PlayedGamesKept == OneLinkEach /\ Spec => PlayedGameKept
    <1> DEFINE AllKept == \A i \in DOMAIN game \ DOMAIN game' : LostOrClosed(i)
    <1>1. Init => AuthedActive
          BY DEF Init, AuthedActive
    <1>2. OneLinkEach /\ CreationInv /\ AuthedActive /\ [Next]_vars => AuthedActive'
          <2>1. OneLinkEach /\ CreationInv /\ AuthedActive /\ Next => AuthedActive'
                BY AuthedActiveStep DEF CreationInv, MessageInv, IInv
          <2>2. AuthedActive /\ UNCHANGED vars => AuthedActive'
                BY DEF vars, serverVars, netVars, AuthedActive
          <2> QED BY <2>1, <2>2
    <1>3. CreationInv /\ AuthedActive /\ [Next]_vars => [AllKept]_vars
          BY ClosedOrLost DEF CreationInv, MessageInv
    <1>4. CASE OneLinkEach
          <2>1. CreationInv /\ AuthedActive /\ [Next]_vars => AuthedActive'
                BY <1>2, <1>4
          <2> QED BY <1>1, <1>3, <2>1, CreationInvariance, PTL
                  DEF Spec, PlayedGameKept, LostOrClosed
    <1> QED BY <1>4

=============================================================================
