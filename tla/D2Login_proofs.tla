--------------------------- MODULE D2Login_proofs ---------------------------
(***************************************************************************)
(* Proofs about D2Login: the types, that no two connections of a row bear  *)
(* one character, and that the two servers agree about their link.         *)
(***************************************************************************)
EXTENDS D2Login, TLAPS

-----------------------------------------------------------------------------
(* Queues of packets.                                                      *)
LEMMA QueueTypes ==
    ASSUME NEW S, NEW q \in [Links -> Seq(S)], NEW l \in Links
    PROVE  /\ \A m \in S : Send(q, l, m) \in [Links -> Seq(S)]
           /\ Empty(q, l) \in [Links -> Seq(S)]
           /\ q[l] # <<>> => Head(q[l]) \in S /\ Read(q, l) \in [Links -> Seq(S)]
    BY DEF Send, Empty, Read

-----------------------------------------------------------------------------
(* Types.                                                                  *)
LEMMA AskBnetdType ==
    ASSUME TypeOK, NEW c \in Clients, NEW x \in Chars \cup {NoChar}, NEW q \in Seqs,
           NEW op \in {"account", "char"}, AskBnetd(c, op, x, q)
    PROVE  TypeOK'
    <1>1. [op |-> op, seq |-> q] \in ToBnetd
          BY DEF ToBnetd
    <1>2. toBnetd' \in [Links -> Seq(ToBnetd)]
          BY <1>1, QueueTypes DEF TypeOK, AskBnetd
    <1>3. DOMAIN sq' \subseteq Seqs /\ \A p \in DOMAIN sq' : sq'[p] \in Request
          BY DEF TypeOK, AskBnetd, Request
    <1> QED BY <1>2, <1>3 DEF TypeOK, AskBnetd

LEMMA ClientType ==
    ASSUME TypeOK, NEW c \in Clients,
           \/ ClientComes(c) \/ DropClient(c) \/ ClientGoes(c) \/ SeesClientGone(c)
           \/ ClientReap(c) \/ \E x \in Chars : DeleteCharReq(c, x)
    PROVE  TypeOK'
    BY DEF TypeOK, ClientComes, DropClient, ClientGoes, SeesClientGone, ClientReap,
           DeleteCharReq, Dropped, linkVars

LEMMA ForgetType ==
    ASSUME TypeOK, NEW q, Forget(q)
    PROVE  DOMAIN sq' \subseteq Seqs /\ \A p \in DOMAIN sq' : sq'[p] \in Request
    BY DEF TypeOK, Forget

LEMMA FailsType ==
    ASSUME TypeOK, Fails
    PROVE  fails' \in Nat
    BY DEF TypeOK, Fails

LEMMA LinkType ==
    ASSUME TypeOK, NEW l \in Links,
           S2sCheck(l) \/ Connected(l) \/ LinkFails(l) \/ D2csSeesEnd(l) \/ LinkReap(l)
    PROVE  TypeOK'
    <1>1. [op |-> "init"] \in ToBnetd
          BY DEF ToBnetd
    <1>2. CASE S2sCheck(l) \/ Connected(l)
          <2>1. Started(l) \/ UNCHANGED toBnetd
                BY <1>2 DEF S2sCheck, Connected
          <2>2. toBnetd \in [Links -> Seq(ToBnetd)]
                BY DEF TypeOK
          <2>3. toBnetd' \in [Links -> Seq(ToBnetd)]
                BY <1>1, <2>1, <2>2, QueueTypes DEF Started
          <2> QED BY <1>2, <2>3 DEF TypeOK, S2sCheck, Connected, Started, d2csVars
    <1>3. CASE LinkFails(l) \/ D2csSeesEnd(l)
          <2>1. fails' \in Nat
                BY <1>3, FailsType DEF TypeOK, LinkFails, D2csSeesEnd
          <2> QED BY <1>3, <2>1 DEF TypeOK, LinkFails, D2csSeesEnd, d2csVars
    <1>4. CASE LinkReap(l)
          <2>1. /\ toBnetd' \in [Links -> Seq(ToBnetd)]
                /\ toD2cs' \in [Links -> Seq(ToD2cs)]
                BY <1>4, QueueTypes DEF TypeOK, LinkReap
          <2> QED BY <1>4, <2>1 DEF TypeOK, LinkReap, Forgotten, d2csVars
    <1> QED BY <1>2, <1>3, <1>4

LEMMA D2csHandlesType ==
    ASSUME TypeOK, NEW l \in Links, D2csHandles(l)
    PROVE  TypeOK'
    <1> DEFINE m == Head(toD2cs[l])
    <1>1. m \in ToD2cs /\ toD2cs' \in [Links -> Seq(ToD2cs)]
          BY QueueTypes DEF TypeOK, D2csHandles
    <1>2. UNCHANGED <<link, bstate, realmed, active, rconn, fails>>
          BY DEF D2csHandles
    <1>3. \/ OnAuthReq(l) \/ OnAuthReply(l) \/ OnAccountReply(l, m) \/ OnCharReply(l, m)
          \/ Ignored(l, m)
          BY DEF D2csHandles
    <1> HIDE DEF m
    <1>4. CASE OnAuthReq(l)
          <2>1. [op |-> "authreply"] \in ToBnetd
                BY DEF ToBnetd
          <2>2. toBnetd' \in [Links -> Seq(ToBnetd)]
                BY <1>4, <2>1, QueueTypes DEF TypeOK, OnAuthReq
          <2> QED BY <1>1, <1>2, <1>4, <2>2 DEF TypeOK, OnAuthReq, d2csVars
    <1>5. CASE OnAuthReply(l) \/ Ignored(l, m)
          BY <1>1, <1>2, <1>5 DEF TypeOK, OnAuthReply, Ignored, d2csVars
    <1>6. CASE OnAccountReply(l, m)
          <2>1. DOMAIN sq' \subseteq Seqs /\ \A p \in DOMAIN sq' : sq'[p] \in Request
                BY <1>6, ForgetType DEF OnAccountReply
          <2>2. cstate' \in [Clients ->
                      {"none", "connected", "authed", "char_authed", "destroy"}]
                BY <1>6 DEF TypeOK, OnAccountReply
          <2> QED BY <1>1, <1>2, <1>6, <2>1, <2>2 DEF TypeOK, OnAccountReply
    <1>7. CASE OnCharReply(l, m)
          <2>1. DOMAIN sq' \subseteq Seqs /\ \A p \in DOMAIN sq' : sq'[p] \in Request
                BY <1>7, ForgetType DEF OnCharReply
          <2>2. sq[m.seq].char \in Chars \cup {NoChar}
                BY <1>7 DEF TypeOK, OnCharReply, Request
          <2>3. /\ cstate' \in [Clients ->
                         {"none", "connected", "authed", "char_authed", "destroy"}]
                /\ charname' \in [Clients -> Chars \cup {NoChar}]
                BY <1>7, <2>2 DEF TypeOK, OnCharReply
          <2> QED BY <1>1, <1>2, <1>7, <2>1, <2>3 DEF TypeOK, OnCharReply
    <1> QED BY <1>3, <1>4, <1>5, <1>6, <1>7

LEMMA ReplyType ==
    ASSUME TypeOK, NEW l \in Links, NEW m \in ToD2cs, Reply(l, m)
    PROVE  toD2cs' \in [Links -> Seq(ToD2cs)]
    BY QueueTypes DEF TypeOK, Reply

LEMMA DeactivatedType ==
    ASSUME NEW S, NEW bs \in [Links -> S], "destroy" \in S
    PROVE  Deactivated(bs) \in [Links -> S]
    BY DEF Deactivated

LEMMA BnetdHandlesType ==
    ASSUME TypeOK, NEW l \in Links, BnetdHandles(l)
    PROVE  TypeOK'
    <1> DEFINE m == Head(toBnetd[l])
    <1>1. m \in ToBnetd /\ toBnetd' \in [Links -> Seq(ToBnetd)]
          BY QueueTypes DEF TypeOK, BnetdHandles
    <1>2. UNCHANGED <<d2csVars, link, lstate, fails>>
          BY DEF BnetdHandles
    <1>3. \/ OnInit(l, m)
          \/ m.op = "authreply" /\ OnAuth(l)
          \/ m.op = "account" /\ OnAccountReq(l, m)
          \/ m.op = "char" /\ OnCharReq(l, m)
          \/ Unknown(l, m)
          BY Zenon DEF BnetdHandles
    <1> HIDE DEF m
    <1>4. CASE OnInit(l, m)
          <2>1. [op |-> "authreq"] \in ToD2cs
                BY DEF ToD2cs
          <2>2. toD2cs' \in [Links -> Seq(ToD2cs)]
                BY <1>4, <2>1, ReplyType DEF OnInit, TypeOK
          <2> QED BY <1>1, <1>2, <1>4, <2>2 DEF TypeOK, OnInit, d2csVars
    <1>5. CASE OnAuth(l)
          <2>1. [op |-> "authok"] \in ToD2cs
                BY DEF ToD2cs
          <2>2. toD2cs' \in [Links -> Seq(ToD2cs)]
                BY <1>5, <2>1, ReplyType DEF OnAuth
          <2>3. bstate' \in [Links -> {"none", "init", "connected", "loggedin", "destroy"}]
                BY <1>5, DeactivatedType DEF TypeOK, OnAuth
          <2> QED BY <1>1, <1>2, <1>5, <2>2, <2>3 DEF TypeOK, OnAuth, d2csVars
    <1>6. CASE m.op \in {"account", "char"} /\ (OnAccountReq(l, m) \/ OnCharReq(l, m))
          <2>1. m.seq \in Seqs
                BY <1>1, <1>6 DEF ToBnetd
          <2>2. \A op \in {"accountreply", "charreply"}, ok \in BOOLEAN :
                   [op |-> op, seq |-> m.seq, ok |-> ok] \in ToD2cs
                BY <2>1 DEF ToD2cs
          <2>3. toD2cs' \in [Links -> Seq(ToD2cs)]
                BY <1>6, <2>2, ReplyType DEF OnAccountReq, OnCharReq
          <2> QED BY <1>1, <1>2, <1>6, <2>3 DEF TypeOK, OnAccountReq, OnCharReq, d2csVars
    <1>7. CASE Unknown(l, m)
          BY <1>1, <1>2, <1>7 DEF TypeOK, Unknown, d2csVars
    <1> QED BY <1>3, <1>4, <1>5, <1>6, <1>7

LEMMA BnetdType ==
    ASSUME TypeOK, NEW l \in Links, BnetdSeesEnd(l) \/ BnetdLosesLink(l) \/ BnetdReap(l)
    PROVE  TypeOK'
    <1>1. CASE BnetdSeesEnd(l) \/ BnetdLosesLink(l)
          <2>1. fails' \in Nat
                BY <1>1, FailsType DEF TypeOK, BnetdSeesEnd, BnetdLosesLink
          <2> QED BY <1>1, <2>1 DEF TypeOK, BnetdSeesEnd, BnetdLosesLink, BnetdMarks, d2csVars
    <1>2. CASE BnetdReap(l)
          <2>1. toBnetd' \in [Links -> Seq(ToBnetd)]
                BY <1>2, QueueTypes DEF TypeOK, BnetdReap
          <2>2. bstate' \in [Links -> {"none", "init", "connected", "loggedin", "destroy"}]
                BY <1>2, DeactivatedType DEF TypeOK, BnetdReap
          <2> QED BY <1>2, <2>1, <2>2 DEF TypeOK, BnetdReap, d2csVars
    <1> QED BY <1>1, <1>2

LEMMA RestartType ==
    ASSUME TypeOK, RealmReload \/ BnetdRestart \/ D2csRestart
    PROVE  TypeOK'
    <1>1. fails' \in Nat
          BY FailsType DEF RealmReload, BnetdRestart, D2csRestart
    <1>2. CASE RealmReload
          <2>1. bstate' \in [Links -> {"none", "init", "connected", "loggedin", "destroy"}]
                BY <1>2, DeactivatedType DEF TypeOK, RealmReload
          <2> QED BY <1>1, <1>2, <2>1 DEF TypeOK, RealmReload, d2csVars
    <1>3. CASE BnetdRestart
          <2>1. toBnetd' \in [Links -> Seq(ToBnetd)]
                BY <1>3 DEF TypeOK, BnetdRestart
          <2> QED BY <1>1, <1>3, <2>1 DEF TypeOK, BnetdRestart, d2csVars
    <1>4. CASE D2csRestart
          <2>1. toBnetd' \in [Links -> Seq(ToBnetd)] /\ toD2cs' \in [Links -> Seq(ToD2cs)]
                BY <1>4 DEF TypeOK, D2csRestart
          <2> QED BY <1>1, <1>4, <2>1 DEF TypeOK, D2csRestart
    <1> QED BY <1>2, <1>3, <1>4

(* The types, of connections, requests and packets under way.              *)
THEOREM TypeCorrect == Spec => []TypeOK
    <1>1. Init => TypeOK
          <2> SUFFICES ASSUME Init
                       PROVE  TypeOK
              OBVIOUS
          <2>1. DOMAIN sq \subseteq Seqs /\ \A q \in DOMAIN sq : sq[q] \in Request
                BY DEF Init
          <2>2. /\ toBnetd \in [Links -> Seq(ToBnetd)]
                /\ toD2cs \in [Links -> Seq(ToD2cs)]
                BY DEF Init
          <2> QED BY <2>1, <2>2 DEF Init, TypeOK
    <1>2. TypeOK /\ [Next]_vars => TypeOK'
          <2> SUFFICES ASSUME TypeOK, [Next]_vars
                       PROVE  TypeOK'
              OBVIOUS
          <2>1. ASSUME NEW c \in Clients,
                       \/ ClientComes(c) \/ DropClient(c) \/ ClientGoes(c) \/ SeesClientGone(c)
                       \/ ClientReap(c) \/ \E x \in Chars : DeleteCharReq(c, x)
                PROVE  TypeOK'
                BY <2>1, ClientType
          <2>2. ASSUME NEW c \in Clients, NEW q \in Seqs,
                       \/ LoginReq(c, q)
                       \/ \E x \in Chars : CreateCharReq(c, x, q) \/ CharLoginReq(c, x, q)
                PROVE  TypeOK'
                BY <2>2, AskBnetdType DEF LoginReq, CreateCharReq, CharLoginReq
          <2>3. ASSUME NEW q \in Seqs, SqExpire(q)
                PROVE  TypeOK'
                BY <2>3, ForgetType DEF TypeOK, SqExpire, linkVars
          <2>4. ASSUME NEW l \in Links,
                       S2sCheck(l) \/ Connected(l) \/ LinkFails(l) \/ D2csSeesEnd(l) \/ LinkReap(l)
                PROVE  TypeOK'
                BY <2>4, LinkType
          <2>5. ASSUME NEW l \in Links, D2csHandles(l) \/ BnetdHandles(l)
                PROVE  TypeOK'
                BY <2>5, D2csHandlesType, BnetdHandlesType
          <2>6. ASSUME NEW l \in Links, BnetdSeesEnd(l) \/ BnetdLosesLink(l) \/ BnetdReap(l)
                PROVE  TypeOK'
                BY <2>6, BnetdType
          <2>7. CASE UNCHANGED vars
                BY <2>7 DEF TypeOK, vars, d2csVars, linkVars
          <2> QED BY <2>1, <2>2, <2>3, <2>4, <2>5, <2>6, <2>7, RestartType DEF Next
    <1> QED BY <1>1, <1>2, PTL DEF Spec

-----------------------------------------------------------------------------
(* The servers and their link.  bnetd grants a link its login, by authok,  *)
(* only once it is logged in there, and whoever closes an end first, no    *)
(* authok of an earlier use of the place is left.  That realm->conn is not *)
(* gone rests on its having the realm: conn_destroy makes the realm        *)
(* inactive then.                                                          *)
Up   == {"loggedin", "destroy"}
Over == {"none", "loggedin", "destroy"}

OneLink  == \A l \in Links : lstate[l] # "none" <=> l = link
OneRealm == \A l \in Links : bstate[l] = "loggedin" => active /\ rconn = l
RealmHas == active => rconn \in realmed /\ rconn \in Links /\ bstate[rconn] \in Up
Granted  ==
    \A l \in Links :
       /\ lstate[l] = "authed" => bstate[l] \in Over
       /\ \A i \in DOMAIN toD2cs[l] : toD2cs[l][i].op = "authok" => bstate[l] \in Over
       /\ lstate[l] = "none" => toD2cs[l] = <<>>
       /\ lstate[l] = "connecting" => bstate[l] = "none" /\ toD2cs[l] = <<>>

LinkInv == OneLink /\ OneRealm /\ RealmHas /\ Granted

linksOnly == <<link, lstate, toD2cs, bstate, realmed, active, rconn>>

LEMMA LinkInvStays ==
    ASSUME LinkInv, UNCHANGED linksOnly
    PROVE  LinkInv'
    BY DEF LinkInv, OneLink, OneRealm, RealmHas, Granted, linksOnly

LEMMA S2sCheckLink ==
    ASSUME TypeOK, LinkInv, NEW l \in Links, S2sCheck(l) \/ Connected(l)
    PROVE  LinkInv'
    <1>1. /\ UNCHANGED <<toD2cs, realmed, active, rconn>>
          /\ bstate[l] = "none" /\ toD2cs[l] = <<>> /\ link' = l
          BY DEF S2sCheck, Connected, LinkInv, OneLink, Granted
    <1>2. /\ \/ lstate' = [lstate EXCEPT ![l] = "connected"]
                /\ bstate' = [bstate EXCEPT ![l] = "init"]
             \/ lstate' = [lstate EXCEPT ![l] = "connecting"] /\ bstate' = bstate
          /\ \A k \in Links \ {l} : lstate[k] = "none"
          BY LoginAssumption DEF S2sCheck, Connected, Started, LinkInv, OneLink
    <1>3. OneLink' /\ OneRealm'
          BY <1>1, <1>2 DEF TypeOK, LinkInv, OneLink, OneRealm
    <1>4. RealmHas'
          BY <1>1, <1>2 DEF TypeOK, LinkInv, RealmHas, Up
    <1>5. Granted'
          BY <1>1, <1>2 DEF TypeOK, LinkInv, Granted, Over
    <1> QED BY <1>3, <1>4, <1>5 DEF LinkInv

LEMMA LinkEnds ==
    ASSUME TypeOK, LinkInv, NEW l \in Links, LinkFails(l) \/ D2csSeesEnd(l) \/ LinkReap(l)
    PROVE  LinkInv'
    <1>1. UNCHANGED <<bstate, realmed, active, rconn>>
          BY DEF LinkFails, D2csSeesEnd, LinkReap
    <1>2. OneRealm' /\ RealmHas'
          BY <1>1 DEF LinkInv, OneRealm, RealmHas
    <1>3. CASE LinkFails(l) \/ D2csSeesEnd(l)
          <2>1. /\ lstate' = [lstate EXCEPT ![l] = "destroy"] /\ lstate[l] # "none"
                /\ UNCHANGED <<link, toD2cs>>
                BY <1>3 DEF LinkFails, D2csSeesEnd
          <2> QED BY <1>1, <1>2, <2>1 DEF TypeOK, LinkInv, OneLink, Granted
    <1>4. CASE LinkReap(l)
          <2>1. /\ lstate' = [lstate EXCEPT ![l] = "none"] /\ link = l /\ link' = NoLink
                /\ toD2cs' = [toD2cs EXCEPT ![l] = <<>>]
                BY <1>4 DEF LinkReap, Forgotten, Empty, LinkInv, OneLink
          <2>2. OneLink'
                BY <2>1, LoginAssumption DEF TypeOK, LinkInv, OneLink
          <2>3. Granted'
                BY <1>1, <2>1 DEF TypeOK, LinkInv, Granted
          <2> QED BY <1>2, <2>2, <2>3 DEF LinkInv
    <1> QED BY <1>3, <1>4

LEMMA D2csHandlesLink ==
    ASSUME TypeOK, LinkInv, NEW l \in Links, D2csHandles(l)
    PROVE  LinkInv'
    <1> DEFINE m == Head(toD2cs[l])
    <1>1. /\ UNCHANGED <<link, bstate, realmed, active, rconn>>
          /\ toD2cs[l] # <<>> /\ toD2cs' = [toD2cs EXCEPT ![l] = Tail(@)]
          BY DEF D2csHandles, Read
    <1>2. \/ UNCHANGED lstate
          \/ /\ lstate[l] = "connected" /\ toD2cs[l][1].op = "authok"
             /\ lstate' = [lstate EXCEPT ![l] = "authed"]
          <2>1. \/ m.op = "authreq" /\ OnAuthReq(l)
                \/ m.op = "authok" /\ OnAuthReply(l)
                \/ m.op = "accountreply" /\ OnAccountReply(l, m)
                \/ m.op = "charreply" /\ OnCharReply(l, m)
                \/ Ignored(l, m)
                BY Zenon DEF D2csHandles
          <2>2. m = toD2cs[l][1]
                BY <1>1 DEF TypeOK
          <2> HIDE DEF m
          <2> QED BY <2>1, <2>2 DEF OnAuthReq, OnAuthReply, OnAccountReply, OnCharReply, Ignored
    <1>3. OneLink' /\ OneRealm' /\ RealmHas'
          BY <1>1, <1>2 DEF TypeOK, LinkInv, OneLink, OneRealm, RealmHas
    <1>4. Granted'
          <2>1. \A k \in Links : toD2cs[k] \in Seq(ToD2cs)
                BY DEF TypeOK
          <2>2. 1 \in DOMAIN toD2cs[l]
                BY <1>1, <2>1
          <2>3. \A i \in DOMAIN Tail(toD2cs[l]) :
                   i + 1 \in DOMAIN toD2cs[l] /\ Tail(toD2cs[l])[i] = toD2cs[l][i + 1]
                BY <1>1, <2>1
          <2>4. lstate[l] \notin {"none", "connecting"}
                BY <1>1 DEF LinkInv, Granted
          <2>5. ASSUME NEW k \in Links, k # l
                PROVE  lstate'[k] = lstate[k] /\ toD2cs'[k] = toD2cs[k] /\ bstate'[k] = bstate[k]
                BY <1>1, <1>2, <2>5 DEF TypeOK
          <2>6. toD2cs'[l] = Tail(toD2cs[l]) /\ bstate'[l] = bstate[l]
                BY <1>1 DEF TypeOK
          <2>7. lstate'[l] \notin {"none", "connecting"}
                BY <1>2, <2>4 DEF TypeOK
          <2>8. lstate'[l] = "authed" => bstate[l] \in Over
                BY <1>2, <2>2 DEF TypeOK, LinkInv, Granted
          <2>9. \A i \in DOMAIN toD2cs'[l] : toD2cs'[l][i].op = "authok" => bstate[l] \in Over
                BY <2>3, <2>6 DEF LinkInv, Granted
          <2> QED BY <2>5, <2>6, <2>7, <2>8, <2>9 DEF LinkInv, Granted
    <1> QED BY <1>3, <1>4 DEF LinkInv

LEMMA DeactivatedAt ==
    ASSUME NEW S, NEW bs \in [Links -> S], NEW k \in Links
    PROVE  Deactivated(bs)[k] = IF active /\ k = rconn THEN "destroy" ELSE bs[k]
    BY DEF Deactivated

LEMMA StillGranted ==
    ASSUME TypeOK, Granted, UNCHANGED lstate,
           \A k \in Links : /\ bstate[k] \in Over => bstate'[k] \in Over
                            /\ bstate[k] = "none" => bstate'[k] = "none",
           \/ UNCHANGED toD2cs
           \/ \E l \in Links, m \in ToD2cs :
                 /\ Reply(l, m) /\ bstate[l] # "none"
                 /\ m.op = "authok" => bstate'[l] \in Over
    PROVE  Granted'
    <1>1. CASE UNCHANGED toD2cs
          BY <1>1 DEF Granted
    <1>2. CASE ~UNCHANGED toD2cs
          <2>1. PICK l \in Links, m \in ToD2cs :
                   /\ Reply(l, m) /\ bstate[l] # "none"
                   /\ m.op = "authok" => bstate'[l] \in Over
                BY <1>2
          <2>2. lstate[l] \notin {"none", "connecting"} /\ toD2cs' = [toD2cs EXCEPT ![l] = Append(@, m)]
                BY <1>2, <2>1 DEF Reply, Send, Granted
          <2>3. toD2cs[l] \in Seq(ToD2cs)
                BY DEF TypeOK
          <2>4. ASSUME NEW i \in DOMAIN toD2cs'[l], toD2cs'[l][i].op = "authok"
                PROVE  bstate'[l] \in Over
                <3>1. toD2cs'[l] = Append(toD2cs[l], m)
                      BY <2>2 DEF TypeOK
                <3>2. CASE i \in DOMAIN toD2cs[l]
                      <4>1. toD2cs'[l][i] = toD2cs[l][i]
                            BY <2>3, <3>1, <3>2
                      <4> QED BY <2>4, <3>2, <4>1 DEF Granted
                <3>3. CASE i \notin DOMAIN toD2cs[l]
                      <4>1. toD2cs'[l][i] = m
                            BY <2>3, <3>1, <3>3
                      <4> QED BY <2>1, <2>4, <4>1
                <3> QED BY <3>2, <3>3
          <2>5. \A k \in Links \ {l} : toD2cs'[k] = toD2cs[k]
                BY <2>2 DEF TypeOK
          <2> QED BY <2>2, <2>4, <2>5 DEF Granted
    <1> QED BY <1>1, <1>2

LEMMA BnetdHandlesLink ==
    ASSUME TypeOK, LinkInv, NEW l \in Links, BnetdHandles(l)
    PROVE  LinkInv'
    <1> DEFINE m == Head(toBnetd[l])
    <1>1. UNCHANGED <<link, lstate>>
          BY DEF BnetdHandles, d2csVars
    <1>2. OneLink'
          BY <1>1 DEF LinkInv, OneLink
    <1>3. m \in ToBnetd
          BY QueueTypes DEF TypeOK, BnetdHandles
    <1>4. \/ OnInit(l, m)
          \/ m.op = "authreply" /\ OnAuth(l)
          \/ m.op = "account" /\ OnAccountReq(l, m)
          \/ m.op = "char" /\ OnCharReq(l, m)
          \/ Unknown(l, m)
          BY Zenon DEF BnetdHandles
    <1> HIDE DEF m
    <1>5. CASE OnInit(l, m)
          <2>1. /\ bstate[l] = "init" /\ UNCHANGED <<realmed, active, rconn>>
                /\ \/ bstate' = [bstate EXCEPT ![l] = "connected"]
                   \/ bstate' = [bstate EXCEPT ![l] = "destroy"]
                BY <1>5 DEF OnInit
          <2>2. UNCHANGED toD2cs \/ Reply(l, [op |-> "authreq"])
                BY <1>5 DEF OnInit
          <2>3. [op |-> "authreq"] \in ToD2cs
                BY DEF ToD2cs
          <2>4. \A k \in Links : /\ bstate[k] \in Over => bstate'[k] \in Over
                                 /\ bstate[k] = "none" => bstate'[k] = "none"
                BY <2>1 DEF TypeOK, Over
          <2>5. Granted'
                BY <1>1, <2>1, <2>2, <2>3, <2>4, StillGranted DEF LinkInv
          <2>6. OneRealm' /\ RealmHas'
                BY <2>1 DEF TypeOK, LinkInv, OneRealm, RealmHas, Up
          <2> QED BY <1>2, <2>5, <2>6 DEF LinkInv
    <1>6. CASE OnAuth(l)
          <2> DEFINE bs == [bstate EXCEPT ![l] = "loggedin"]
          <2>1. /\ bstate[l] = "connected" /\ bstate' = Deactivated(bs)
                /\ active' = TRUE /\ rconn' = l /\ realmed' = realmed \cup {l}
                /\ Reply(l, [op |-> "authok"])
                BY <1>6 DEF OnAuth
          <2>2. [op |-> "authok"] \in ToD2cs
                BY DEF ToD2cs
          <2>3. \A k \in Links : bstate'[k] = IF active /\ k = rconn THEN "destroy" ELSE bs[k]
                <3>1. bs \in [Links -> {"none", "init", "connected", "loggedin", "destroy"}]
                      BY DEF TypeOK
                <3>2. bstate' = Deactivated(bs)
                      BY <2>1
                <3> HIDE DEF bs
                <3>3. \A k \in Links : Deactivated(bs)[k] =
                         IF active /\ k = rconn THEN "destroy" ELSE bs[k]
                      BY <3>1, DeactivatedAt
                <3> QED BY <3>2, <3>3
          <2>4. active => rconn # l /\ bstate[rconn] \in Up
                BY <2>1 DEF LinkInv, RealmHas, Up
          <2>5. bstate'[l] = "loggedin" /\ \A k \in Links \ {l} :
                   bstate'[k] = IF active /\ k = rconn THEN "destroy" ELSE bstate[k]
                <3>1. bs[l] = "loggedin" /\ \A k \in Links \ {l} : bs[k] = bstate[k]
                      BY DEF TypeOK
                <3> HIDE DEF bs
                <3> QED BY <2>3, <2>4, <3>1
          <2>6. \A k \in Links : /\ bstate[k] \in Over => bstate'[k] \in Over
                                 /\ bstate[k] = "none" => bstate'[k] = "none"
                BY <2>1, <2>4, <2>5 DEF Over, Up
          <2>7. Granted'
                BY <1>1, <2>1, <2>2, <2>5, <2>6, StillGranted DEF LinkInv, Over
          <2>8. OneRealm'
                BY <2>1, <2>5 DEF LinkInv, OneRealm
          <2>9. RealmHas'
                BY <2>1, <2>5 DEF RealmHas, Up
          <2> QED BY <1>2, <2>7, <2>8, <2>9 DEF LinkInv
    <1>7. CASE m.op \in {"account", "char"} /\ (OnAccountReq(l, m) \/ OnCharReq(l, m))
          <2>1. /\ bstate[l] = "loggedin" /\ UNCHANGED <<bstate, realmed, active, rconn>>
                /\ \E op \in {"accountreply", "charreply"}, ok \in BOOLEAN :
                      Reply(l, [op |-> op, seq |-> m.seq, ok |-> ok])
                BY <1>7 DEF OnAccountReq, OnCharReq
          <2>2. m.seq \in Seqs
                BY <1>3, <1>7 DEF ToBnetd
          <2>3. \E r \in ToD2cs : Reply(l, r) /\ r.op # "authok"
                BY <2>1, <2>2 DEF ToD2cs
          <2>4. Granted'
                BY <1>1, <2>1, <2>3, StillGranted DEF LinkInv
          <2> QED BY <1>2, <2>1, <2>4 DEF LinkInv, OneRealm, RealmHas
    <1>8. CASE Unknown(l, m)
          BY <1>1, <1>8, LinkInvStays DEF Unknown, linksOnly
    <1> QED BY <1>4, <1>5, <1>6, <1>7, <1>8

LEMMA BnetdEndsLink ==
    ASSUME TypeOK, LinkInv, NEW l \in Links,
           BnetdSeesEnd(l) \/ BnetdLosesLink(l) \/ BnetdReap(l)
    PROVE  LinkInv'
    <1>1. UNCHANGED <<link, lstate, toD2cs, rconn>>
          BY DEF BnetdSeesEnd, BnetdLosesLink, BnetdMarks, BnetdReap
    <1>2. OneLink'
          BY <1>1 DEF LinkInv, OneLink
    <1>3. CASE BnetdSeesEnd(l) \/ BnetdLosesLink(l)
          <2>1. /\ bstate[l] # "none" /\ bstate' = [bstate EXCEPT ![l] = "destroy"]
                /\ UNCHANGED <<realmed, active>>
                BY <1>3 DEF BnetdSeesEnd, BnetdLosesLink, BnetdMarks
          <2>2. Granted'
                BY <1>1, <2>1, StillGranted DEF TypeOK, LinkInv, Over
          <2>3. OneRealm' /\ RealmHas'
                BY <1>1, <2>1 DEF TypeOK, LinkInv, OneRealm, RealmHas, Up
          <2> QED BY <1>2, <2>2, <2>3 DEF LinkInv
    <1>4. CASE BnetdReap(l)
          <2>1. /\ bstate[l] = "destroy" /\ realmed' = realmed \ {l}
                /\ active' = (active /\ l \notin realmed)
                /\ bstate' = [IF l \in realmed THEN Deactivated(bstate) ELSE bstate
                                EXCEPT ![l] = "none"]
                BY <1>4 DEF BnetdReap
          <2>2. \A k \in Links : Deactivated(bstate)[k] =
                   IF active /\ k = rconn THEN "destroy" ELSE bstate[k]
                BY DeactivatedAt DEF TypeOK
          <2>3. Deactivated(bstate) \in
                   [Links -> {"none", "init", "connected", "loggedin", "destroy"}]
                BY DeactivatedType DEF TypeOK
          <2>4. bstate'[l] = "none" /\ \A k \in Links \ {l} :
                   bstate'[k] = IF l \in realmed /\ active /\ k = rconn
                                  THEN "destroy" ELSE bstate[k]
                BY <2>1, <2>2, <2>3 DEF TypeOK
          <2>5. \A k \in Links : /\ bstate[k] \in Over => bstate'[k] \in Over
                                 /\ bstate[k] = "none" => bstate'[k] = "none"
                BY <2>1, <2>4 DEF Over, LinkInv, RealmHas, Up
          <2>6. Granted'
                BY <1>1, <2>5, StillGranted DEF LinkInv
          <2>7. OneRealm'
                BY <1>1, <2>1, <2>4 DEF LinkInv, OneRealm
          <2>8. RealmHas'
                BY <1>1, <2>1, <2>4 DEF LinkInv, RealmHas
          <2> QED BY <1>2, <2>6, <2>7, <2>8 DEF LinkInv
    <1> QED BY <1>3, <1>4

LEMMA RestartLink ==
    ASSUME TypeOK, LinkInv, RealmReload \/ BnetdRestart \/ D2csRestart
    PROVE  LinkInv'
    <1>1. CASE RealmReload
          <2>1. /\ UNCHANGED <<link, lstate, toD2cs>> /\ active' = FALSE
                /\ bstate' = Deactivated(bstate)
                BY <1>1 DEF RealmReload
          <2>2. \A k \in Links : bstate'[k] = IF active /\ k = rconn THEN "destroy" ELSE bstate[k]
                BY <2>1, DeactivatedAt DEF TypeOK
          <2>3. Granted'
                BY <2>1, <2>2, StillGranted DEF LinkInv, Over, RealmHas, Up
          <2> QED BY <2>1, <2>2, <2>3 DEF LinkInv, OneLink, OneRealm, RealmHas
    <1>2. CASE BnetdRestart
          BY <1>2 DEF BnetdRestart, LinkInv, OneLink, OneRealm, RealmHas, Granted, Over
    <1>3. CASE D2csRestart
          BY <1>3, LoginAssumption DEF D2csRestart, LinkInv, OneLink, OneRealm, RealmHas, Granted
    <1> QED BY <1>1, <1>2, <1>3

-----------------------------------------------------------------------------
(* The clients.                                                            *)
LEMMA BearersStay ==
    ASSUME LoginsExclusive,
           \A d \in Clients : charname'[d] = charname[d] \/ charname'[d] = NoChar
    PROVE  LoginsExclusive'
    BY LoginAssumption DEF LoginsExclusive

LEMMA CharReplyExclusive ==
    ASSUME TypeOK, LoginsExclusive, NEW l, NEW m, OnCharReply(l, m)
    PROVE  LoginsExclusive'
    <1> DEFINE c == sq[m.seq].client
               x == sq[m.seq].char
    <1>1. CASE UNCHANGED charname
          BY <1>1 DEF LoginsExclusive
    <1>2. CASE MayPass(c, x) /\ charname' = [charname EXCEPT ![c] = x]
          <2>1. \A d \in Bucket[x] : charname[d] = x => d = c \/ x \notin Chars
                BY <1>2 DEF MayPass, Bearers, LoginsExclusive
          <2>2. \A d \in Clients : d # c => charname'[d] = charname[d]
                BY <1>2 DEF TypeOK
          <2>3. c \in Clients /\ charname'[c] = x
                BY <1>2 DEF TypeOK, OnCharReply, Request
          <2> HIDE DEF c, x
          <2>4. ASSUME NEW y \in Chars, NEW d \in Bucket[y], NEW e \in Bucket[y],
                       charname'[d] = y, charname'[e] = y
                PROVE  d = e
                <3>1. d \in Clients /\ e \in Clients
                      BY LoginAssumption
                <3>2. CASE d # c /\ e # c
                      BY <2>2, <2>4, <3>1, <3>2 DEF LoginsExclusive
                <3>3. CASE d = c \/ e = c
                      <4>1. x = y
                            BY <2>3, <2>4, <3>3
                      <4> QED BY <2>1, <2>2, <2>4, <3>1, <3>3, <4>1
                <3> QED BY <3>2, <3>3
          <2> QED BY <2>4 DEF LoginsExclusive
    <1> QED BY <1>1, <1>2 DEF OnCharReply

LEMMA LoginsStay ==
    ASSUME TypeOK, LoginsExclusive, [Next]_vars
    PROVE  LoginsExclusive'
    <1> USE DEF d2csVars
    <1>1. ASSUME NEW c \in Clients,
                 \/ ClientComes(c) \/ DropClient(c) \/ ClientGoes(c) \/ SeesClientGone(c)
                 \/ \E q \in Seqs : LoginReq(c, q)
                 \/ \E x \in Chars, q \in Seqs : CreateCharReq(c, x, q) \/ CharLoginReq(c, x, q)
          PROVE  LoginsExclusive'
          <2>1. UNCHANGED charname
                BY <1>1 DEF ClientComes, DropClient, ClientGoes, SeesClientGone, LoginReq,
                            CreateCharReq, CharLoginReq, AskBnetd
          <2> QED BY <2>1 DEF LoginsExclusive
    <1>2. ASSUME NEW c \in Clients, ClientReap(c) \/ \E x \in Chars : DeleteCharReq(c, x)
          PROVE  LoginsExclusive'
          <2>1. charname' = [charname EXCEPT ![c] = NoChar]
                BY <1>2 DEF ClientReap, DeleteCharReq
          <2> QED BY <2>1, BearersStay DEF TypeOK
    <1>3. ASSUME NEW l \in Links, D2csHandles(l)
          PROVE  LoginsExclusive'
          <2> DEFINE m == Head(toD2cs[l])
          <2>1. \/ OnAuthReq(l) \/ OnAuthReply(l) \/ OnAccountReply(l, m)
                \/ OnCharReply(l, m) \/ Ignored(l, m)
                BY <1>3, Zenon DEF D2csHandles
          <2> HIDE DEF m
          <2>2. CASE OnCharReply(l, m)
                BY <2>2, CharReplyExclusive
          <2>3. CASE ~OnCharReply(l, m)
                <3>1. UNCHANGED charname
                      BY <2>1, <2>3 DEF OnAuthReq, OnAuthReply, OnAccountReply, Ignored
                <3> QED BY <3>1 DEF LoginsExclusive
          <2> QED BY <2>2, <2>3
    <1>4. ASSUME NEW l \in Links,
                 \/ S2sCheck(l) \/ Connected(l) \/ LinkFails(l) \/ D2csSeesEnd(l) \/ LinkReap(l)
                 \/ BnetdHandles(l) \/ BnetdSeesEnd(l) \/ BnetdLosesLink(l) \/ BnetdReap(l)
          PROVE  LoginsExclusive'
          <2>1. UNCHANGED charname
                BY <1>4 DEF S2sCheck, Connected, LinkFails, D2csSeesEnd, LinkReap, BnetdHandles,
                            BnetdSeesEnd, BnetdLosesLink, BnetdMarks, BnetdReap
          <2> QED BY <2>1 DEF LoginsExclusive
    <1>5. CASE \/ \E q \in Seqs : SqExpire(q)
               \/ RealmReload \/ BnetdRestart \/ UNCHANGED vars
          <2>1. UNCHANGED charname
                BY <1>5 DEF SqExpire, RealmReload, BnetdRestart, vars
          <2> QED BY <2>1 DEF LoginsExclusive
    <1>6. CASE D2csRestart
          BY <1>6, BearersStay DEF D2csRestart
    <1> QED BY <1>1, <1>2, <1>3, <1>4, <1>5, <1>6 DEF Next

(***************************************************************************)
(* No two connections of a row of the table bear one character             *)
(* (conn_check_multilogin, connection.cpp:157), however many clients log   *)
(* in at once, and whenever and in whatever order bnetd answers.           *)
(***************************************************************************)
THEOREM LoginsStayExclusive == Spec => []LoginsExclusive
    <1>1. Init => LoginsExclusive
          BY LoginAssumption DEF Init, LoginsExclusive
    <1>2. TypeOK /\ LoginsExclusive /\ [Next]_vars => LoginsExclusive'
          BY LoginsStay
    <1> QED BY <1>1, <1>2, TypeCorrect, PTL DEF Spec

-----------------------------------------------------------------------------
LEMMA LinkStays ==
    ASSUME TypeOK, LinkInv, [Next]_vars
    PROVE  LinkInv'
    <1>1. ASSUME NEW c \in Clients,
                 \/ ClientComes(c) \/ DropClient(c) \/ ClientGoes(c) \/ SeesClientGone(c)
                 \/ ClientReap(c) \/ \E x \in Chars : DeleteCharReq(c, x)
                 \/ \E q \in Seqs : LoginReq(c, q)
                 \/ \E x \in Chars, q \in Seqs : CreateCharReq(c, x, q) \/ CharLoginReq(c, x, q)
          PROVE  LinkInv'
          <2>1. UNCHANGED linksOnly
                BY <1>1 DEF ClientComes, DropClient, ClientGoes, SeesClientGone, ClientReap,
                            DeleteCharReq, LoginReq, CreateCharReq, CharLoginReq, AskBnetd,
                            linkVars, linksOnly
          <2> QED BY <2>1, LinkInvStays
    <1>2. CASE (\E q \in Seqs : SqExpire(q)) \/ UNCHANGED vars
          <2>1. UNCHANGED linksOnly
                BY <1>2 DEF SqExpire, vars, linkVars, linksOnly
          <2> QED BY <2>1, LinkInvStays
    <1>3. ASSUME NEW l \in Links,
                 S2sCheck(l) \/ Connected(l) \/ LinkFails(l) \/ D2csSeesEnd(l) \/ LinkReap(l)
          PROVE  LinkInv'
          BY <1>3, S2sCheckLink, LinkEnds
    <1>4. ASSUME NEW l \in Links, D2csHandles(l) \/ BnetdHandles(l)
          PROVE  LinkInv'
          BY <1>4, D2csHandlesLink, BnetdHandlesLink
    <1>5. ASSUME NEW l \in Links, BnetdSeesEnd(l) \/ BnetdLosesLink(l) \/ BnetdReap(l)
          PROVE  LinkInv'
          BY <1>5, BnetdEndsLink
    <1> QED BY <1>1, <1>2, <1>3, <1>4, <1>5, RestartLink DEF Next

(***************************************************************************)
(* d2cs and bnetd agree about their link (d2cs bnetd.cpp, bnetd            *)
(* realm.cpp), through any number of failures, reloads and restarts, with  *)
(* any number of older links that bnetd has yet to end.                    *)
(***************************************************************************)
THEOREM LinkAgreement == Spec => []LinksAgree
    <1>1. Init => LinkInv
          BY LoginAssumption DEF Init, LinkInv, OneLink, OneRealm, RealmHas, Granted
    <1>2. TypeOK /\ LinkInv /\ [Next]_vars => LinkInv'
          BY LinkStays
    <1>3. LinkInv => LinksAgree
          BY DEF LinkInv, OneLink, OneRealm, RealmHas, Granted, LinksAgree, Up, Over
    <1> QED BY <1>1, <1>2, <1>3, TypeCorrect, PTL DEF Spec
=============================================================================
