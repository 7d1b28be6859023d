------------------------------ MODULE D2Login ------------------------------
(***************************************************************************)
(* Login to a Diablo II realm, and the link between d2cs and bnetd         *)
(* (src/pvpgn/src/d2cs/bnetd.cpp, s2s.cpp, handle_bnetd.cpp,               *)
(* handle_d2cs.cpp, connection.cpp; src/pvpgn/src/bnetd/realm.cpp,         *)
(* handle_d2cs.cpp, connection.cpp).                                       *)
(*                                                                         *)
(* d2cs keeps one link to bnetd and opens it again when it is lost.  A     *)
(* client of d2cs names its session at bnetd, and later a character; d2cs  *)
(* asks bnetd to confirm each, keeps the request under a sequence number,  *)
(* and acts when the answer comes.  By then the client may have gone, its  *)
(* connection may be marked for destruction, and others may have asked for *)
(* the same character.                                                     *)
(*                                                                         *)
(* bnetd marks the realm active while it has a link.  A link may be opened *)
(* before bnetd has noticed the end of the one before.                     *)
(*                                                                         *)
(* A step is the handling of one packet or connection event by one of the  *)
(* two servers, each a loop in one thread, or a move of a client.  Whether *)
(* bnetd knows the session and agrees, and whose the characters are, is    *)
(* left open.  Members of Clients, Links and Seqs are places: none is used *)
(* again while something refers to the one before.                         *)
(***************************************************************************)
EXTENDS Naturals, Sequences, SequencesExt

CONSTANTS
    Clients,        \* connections of clients to d2cs
    Chars,          \* character names
    NoChar,         \* a NULL charname
    Bucket,         \* Bucket[x]: clients in the row of the table of connections where x belongs
    Links,          \* connections between d2cs and bnetd
    NoLink,         \* a NULL bnetd_connection, a NULL realm->conn
    Seqs,           \* sequence numbers; bounds the requests under way
    MaxFails        \* bound: connections that fail and servers that restart

ASSUME LoginAssumption ==
    /\ Bucket \in [Chars -> SUBSET Clients]
    /\ NoChar \notin Chars /\ NoLink \notin Links /\ MaxFails \in Nat

VARIABLES
    \* d2cs
    cstate,         \* cstate[c]: state of a client's connection, "none" when there is none
    charname,       \* charname[c]
    peer,           \* peer[c]: is the client still at its end?
    sq,             \* the requests in sqlist_head, by sequence number
    link,           \* bnetd_connection
    lstate,         \* lstate[l]: state of the end of l at d2cs
    \* between them
    toBnetd, toD2cs,    \* packets of a link not handled yet, those in outqueues first
    \* bnetd
    bstate,         \* bstate[l]: state of the end of l at bnetd
    realmed,        \* the links with protocol.d2.realm
    active, rconn,  \* realm->active, realm->conn
    fails           \* connections that failed and servers that restarted

d2csVars == <<cstate, charname, peer, sq>>
linkVars == <<link, lstate, toBnetd, toD2cs, bstate, realmed, active, rconn>>
vars == <<d2csVars, linkVars, fails>>

Request == [client : Clients, char : Chars \cup {NoChar}]

ToBnetd == [op : {"init", "authreply"}]
               \cup [op : {"account", "char"}, seq : Seqs]
ToD2cs  == [op : {"authreq", "authok"}]
               \cup [op : {"accountreply", "charreply"}, seq : Seqs, ok : BOOLEAN]

TypeOK ==
    /\ cstate \in [Clients -> {"none", "connected", "authed", "char_authed", "destroy"}]
    /\ charname \in [Clients -> Chars \cup {NoChar}]
    /\ peer \in [Clients -> BOOLEAN]
    /\ DOMAIN sq \subseteq Seqs /\ \A q \in DOMAIN sq : sq[q] \in Request
    /\ link \in Links \cup {NoLink}
    /\ lstate \in [Links -> {"none", "connecting", "connected", "authed", "destroy"}]
    /\ toBnetd \in [Links -> Seq(ToBnetd)]
    /\ toD2cs \in [Links -> Seq(ToD2cs)]
    /\ bstate \in [Links -> {"none", "init", "connected", "loggedin", "destroy"}]
    /\ realmed \subseteq Links
    /\ active \in BOOLEAN
    /\ rconn \in Links \cup {NoLink}
    /\ fails \in Nat

Init ==
    /\ cstate = [c \in Clients |-> "none"]
    /\ charname = [c \in Clients |-> NoChar]
    /\ peer = [c \in Clients |-> FALSE]
    /\ sq = [q \in {} |-> NoLink]
    /\ link = NoLink
    /\ lstate = [l \in Links |-> "none"]
    /\ toBnetd = [l \in Links |-> <<>>]
    /\ toD2cs = [l \in Links |-> <<>>]
    /\ bstate = [l \in Links |-> "none"]
    /\ realmed = {} /\ active = FALSE /\ rconn = NoLink
    /\ fails = 0

Send(q, l, m) == [q EXCEPT ![l] = Append(@, m)]
Read(q, l) == [q EXCEPT ![l] = Tail(@)]
Empty(q, l) == [q EXCEPT ![l] = <<>>]

\* A connection or a server fails.
Fails == fails < MaxFails /\ fails' = fails + 1

-----------------------------------------------------------------------------
(***************************************************************************)
(* Clients of d2cs.                                                        *)
(***************************************************************************)

\* A client connects and sends the class byte.
ClientComes(c) ==
    /\ cstate[c] = "none" /\ \A q \in DOMAIN sq : sq[q].client # c
    /\ cstate' = [cstate EXCEPT ![c] = "connected"]
    /\ peer' = [peer EXCEPT ![c] = TRUE]
    /\ UNCHANGED <<charname, sq, linkVars, fails>>

\* Can c send a packet that the packet table takes in the states S?
Speaks(c, S) == peer[c] /\ cstate[c] \in S

\* A sequence number for a new request: ++sqlist_seqno.
Unused(q) ==
    /\ q \in Seqs \ DOMAIN sq
    /\ \A l \in Links : /\ \A m \in ToSet(toBnetd[l]) : m.op \in {"account", "char"} => m.seq # q
                        /\ \A m \in ToSet(toD2cs[l]) :
                              m.op \in {"accountreply", "charreply"} => m.seq # q

\* A handler returns -1, or the client is dropped by a timeout or a bad packet.
Dropped(c) == cstate' = [cstate EXCEPT ![c] = "destroy"]

\* A request of c is put into sq under q, and a packet on the queue of bnetd_conn(), if any.
AskBnetd(c, op, x, q) ==
    /\ Unused(q)
    /\ sq' = [p \in DOMAIN sq \cup {q} |->
                 IF p = q THEN [client |-> c, char |-> x] ELSE sq[p]]
    /\ toBnetd' = IF link = NoLink THEN toBnetd ELSE Send(toBnetd, link, [op |-> op, seq |-> q])
    /\ UNCHANGED <<cstate, charname, peer, link, lstate, toD2cs, bstate, realmed, active, rconn, fails>>

\* on_client_loginreq; bnetd_conn() need not be authed, nor connected.
LoginReq(c, q) ==
    /\ Speaks(c, {"connected"}) /\ link # NoLink
    /\ AskBnetd(c, "account", NoChar, q)

\* on_client_createcharreq, once the files of x are made
CreateCharReq(c, x, q) ==
    /\ Speaks(c, {"authed", "char_authed"})
    /\ AskBnetd(c, "char", x, q)

\* on_client_charloginreq, x being of the account of c
CharLoginReq(c, x, q) ==
    /\ Speaks(c, {"authed", "char_authed"}) /\ link # NoLink
    /\ AskBnetd(c, "char", x, q)

\* Mutant of Bearers: connections to be destroyed do not count.
BearersAlive(x) == {d \in Bucket[x] : charname[d] = x /\ cstate[d] # "destroy"}

(***************************************************************************)
(* What d2cs_connlist_find_connection_by_charname may find.  The table it  *)
(* searches is that of session numbers, in the row where x would be in a   *)
(* table of names: it sees who is in that row by chance.                   *)
(***************************************************************************)
Bearers(x) == {d \in Bucket[x] : charname[d] = x}

\* conn_check_multilogin, with check_multilogin set, may pass: nobody is found, or c is.
\* Who plays x is left open.
MayPass(c, x) == Bearers(x) = {} \/ c \in Bearers(x)

\* on_client_deletecharreq: the charname goes whichever character is to be deleted.
DeleteCharReq(c, x) ==
    /\ Speaks(c, {"authed", "char_authed"}) /\ MayPass(c, x)
    /\ charname' = [charname EXCEPT ![c] = NoChar]
    /\ UNCHANGED <<cstate, peer, sq, linkVars, fails>>

\* A handler returns -1: no link, somebody else's character, one in use; or d2cs times c out.
DropClient(c) ==
    /\ cstate[c] \in {"connected", "authed", "char_authed"}
    /\ Dropped(c)
    /\ UNCHANGED <<charname, peer, sq, linkVars, fails>>

\* The client closes its end.
ClientGoes(c) ==
    /\ peer[c]
    /\ peer' = [peer EXCEPT ![c] = FALSE]
    /\ UNCHANGED <<cstate, charname, sq, linkVars, fails>>

\* Mutant of Noticeable: who is not logged in yet is not read from.
NoticeableLate(c) == cstate[c] \in {"authed", "char_authed"}

\* fdwatch tells of the ends of all connections that are not marked yet.
Noticeable(c) == cstate[c] \in {"connected", "authed", "char_authed"}

\* d2cs reads the end of the connection of c.
SeesClientGone(c) ==
    /\ ~peer[c] /\ Noticeable(c)
    /\ Dropped(c)
    /\ UNCHANGED <<charname, peer, sq, linkVars, fails>>

\* d2cs_connlist_reap: d2cs_conn_destroy.
ClientReap(c) ==
    /\ cstate[c] = "destroy"
    /\ cstate' = [cstate EXCEPT ![c] = "none"]
    /\ charname' = [charname EXCEPT ![c] = NoChar]
    /\ peer' = [peer EXCEPT ![c] = FALSE]
    /\ UNCHANGED <<sq, linkVars, fails>>

\* sq_destroy
Forget(q) == sq' = [p \in DOMAIN sq \ {q} |-> sq[p]]

\* sqlist_check_timeout
SqExpire(q) ==
    /\ q \in DOMAIN sq /\ Forget(q)
    /\ UNCHANGED <<cstate, charname, peer, linkVars, fails>>

-----------------------------------------------------------------------------
(***************************************************************************)
(* The link, as d2cs sees it.                                              *)
(***************************************************************************)

\* handle_bnetd_init: the class byte goes BEHIND what was queued while l was connecting.
Started(l) ==
    /\ lstate' = [lstate EXCEPT ![l] = "connected"]
    /\ toBnetd' = Send(toBnetd, l, [op |-> "init"])
    /\ bstate' = [bstate EXCEPT ![l] = "init"]

\* bnetd_check makes a link when there is none; psock_connect may succeed at once or not.
S2sCheck(l) ==
    /\ link = NoLink
    /\ lstate[l] = "none" /\ bstate[l] = "none"
    /\ link' = l
    /\ \/ Started(l)
       \/ lstate' = [lstate EXCEPT ![l] = "connecting"] /\ UNCHANGED <<toBnetd, bstate>>
    /\ UNCHANGED <<d2csVars, toD2cs, realmed, active, rconn, fails>>

\* conn_handle_connecting
Connected(l) ==
    /\ lstate[l] = "connecting"
    /\ Started(l)
    /\ UNCHANGED <<d2csVars, link, toD2cs, realmed, active, rconn, fails>>

\* The attempt is refused or takes longer than s2s_timeout, or the end of l at d2cs fails.
LinkFails(l) ==
    /\ lstate[l] \in {"connecting", "connected", "authed"}
    /\ Fails
    /\ lstate' = [lstate EXCEPT ![l] = "destroy"]
    /\ UNCHANGED <<d2csVars, link, toBnetd, toD2cs, bstate, realmed, active, rconn>>

\* d2cs reads the end of l, after what came before it or, when l was reset, without it.
D2csSeesEnd(l) ==
    /\ lstate[l] \in {"connected", "authed"} /\ bstate[l] = "none"
    /\ lstate' = [lstate EXCEPT ![l] = "destroy"]
    /\ UNCHANGED <<d2csVars, link, toBnetd, toD2cs, bstate, realmed, active, rconn, fails>>

\* Mutant of Forgotten: bnetd_destroy leaves bnetd_connection.
StillThere(l) == link

\* bnetd_destroy: bnetd_connection after the end of l.
Forgotten(l) == IF link = l THEN NoLink ELSE link

(***************************************************************************)
(* d2cs_connlist_reap: l is closed.  What bnetd has not read yet it still  *)
(* may, and loses when the connection never was made.                      *)
(***************************************************************************)
LinkReap(l) ==
    /\ lstate[l] = "destroy"
    /\ lstate' = [lstate EXCEPT ![l] = "none"]
    /\ link' = Forgotten(l)
    /\ toD2cs' = Empty(toD2cs, l)
    /\ toBnetd' = IF bstate[l] = "none" THEN Empty(toBnetd, l) ELSE toBnetd
    /\ UNCHANGED <<d2csVars, bstate, realmed, active, rconn, fails>>

-----------------------------------------------------------------------------
(***************************************************************************)
(* What d2cs does with a packet of bnetd.                                  *)
(***************************************************************************)
\* on_bnetd_authreq
OnAuthReq(l) ==
    /\ lstate[l] = "connected"
    /\ toBnetd' = Send(toBnetd, l, [op |-> "authreply"])
    /\ UNCHANGED <<d2csVars, lstate>>

\* on_bnetd_authreply
OnAuthReply(l) ==
    /\ lstate[l] = "connected"
    /\ lstate' = [lstate EXCEPT ![l] = "authed"]
    /\ UNCHANGED <<d2csVars, toBnetd>>

(***************************************************************************)
(* on_bnetd_accountloginreply, its request being sq[m.seq].  The state of  *)
(* the client becomes authed whatever it was: a connection that was to be  *)
(* destroyed lives on, a character that was logged in keeps its name.      *)
(***************************************************************************)
OnAccountReply(l, m) ==
    LET c == sq[m.seq].client IN
    /\ lstate[l] = "authed" /\ m.seq \in DOMAIN sq
    /\ IF m.ok /\ cstate[c] # "none"
         THEN cstate' = [cstate EXCEPT ![c] = "authed"]
         ELSE UNCHANGED cstate
    /\ Forget(m.seq)
    /\ UNCHANGED <<charname, peer, lstate, toBnetd>>

\* on_bnetd_charloginreply, for a character just created or not
OnCharReply(l, m) ==
    LET c == sq[m.seq].client
        x == sq[m.seq].char
    IN
    /\ lstate[l] = "authed" /\ m.seq \in DOMAIN sq
    /\ \/ /\ m.ok /\ cstate[c] # "none" /\ MayPass(c, x)
          /\ charname' = [charname EXCEPT ![c] = x]
          /\ cstate' = [cstate EXCEPT ![c] = "char_authed"]
       \/ UNCHANGED <<charname, cstate>>
    /\ Forget(m.seq)
    /\ UNCHANGED <<peer, lstate, toBnetd>>

\* An unknown sequence number, or a packet that the table does not take in this state.
Ignored(l, m) ==
    /\ IF m.op \in {"authreq", "authok"} THEN lstate[l] # "connected"
       ELSE lstate[l] # "authed" \/ m.seq \notin DOMAIN sq
    /\ UNCHANGED <<d2csVars, lstate, toBnetd>>

\* d2cs reads a packet of l and handles it.
D2csHandles(l) ==
    LET m == Head(toD2cs[l]) IN
    /\ lstate[l] \in {"connected", "authed", "destroy"} /\ toD2cs[l] # <<>>
    /\ toD2cs' = Read(toD2cs, l)
    /\ \/ m.op = "authreq" /\ OnAuthReq(l)
       \/ m.op = "authok" /\ OnAuthReply(l)
       \/ m.op = "accountreply" /\ OnAccountReply(l, m)
       \/ m.op = "charreply" /\ OnCharReply(l, m)
       \/ Ignored(l, m)
    /\ UNCHANGED <<link, bstate, realmed, active, rconn, fails>>

-----------------------------------------------------------------------------
(***************************************************************************)
(* bnetd.                                                                  *)
(***************************************************************************)

\* conn_push_outqueue; what goes to an end that is closed is lost.
Reply(l, m) == toD2cs' = IF lstate[l] = "none" THEN toD2cs ELSE Send(toD2cs, l, m)

(***************************************************************************)
(* handle_init_packet: the first byte is the class of the connection.  The *)
(* first byte of a request, its length, is no class.                       *)
(***************************************************************************)
OnInit(l, m) ==
    /\ bstate[l] = "init"
    /\ IF m.op = "init"
         THEN bstate' = [bstate EXCEPT ![l] = "connected"] /\ Reply(l, [op |-> "authreq"])
         ELSE bstate' = [bstate EXCEPT ![l] = "destroy"] /\ UNCHANGED toD2cs
    /\ UNCHANGED <<realmed, active, rconn>>

\* Mutant of Deactivated: the connection of the realm is left as it is.
LeftOpen(bs) == bs

\* realm_deactive marks the connection that realm->conn names, when the realm is active.
Deactivated(bs) == IF active THEN [bs EXCEPT ![rconn] = "destroy"] ELSE bs

\* on_d2cs_authreply, of the right version and realm: realm_active
OnAuth(l) ==
    /\ bstate[l] = "connected"
    /\ bstate' = Deactivated([bstate EXCEPT ![l] = "loggedin"])
    /\ active' = TRUE /\ rconn' = l
    /\ realmed' = realmed \cup {l}
    /\ Reply(l, [op |-> "authok"])

\* on_d2cs_accountloginreq: is the session there, and the proof right?
OnAccountReq(l, m) ==
    /\ bstate[l] = "loggedin"
    /\ \E ok \in BOOLEAN : Reply(l, [op |-> "accountreply", seq |-> m.seq, ok |-> ok])
    /\ UNCHANGED <<bstate, realmed, active, rconn>>

\* on_d2cs_charloginreq: is the session there, and on a realm?
OnCharReq(l, m) ==
    /\ bstate[l] = "loggedin"
    /\ \E ok \in BOOLEAN : Reply(l, [op |-> "charreply", seq |-> m.seq, ok |-> ok])
    /\ UNCHANGED <<bstate, realmed, active, rconn>>

\* handle_d2cs_packet: a packet that is not for this state is dropped without an answer.
Unknown(l, m) ==
    /\ \/ bstate[l] = "connected" /\ m.op # "authreply"
       \/ bstate[l] = "loggedin" /\ m.op \notin {"account", "char"}
    /\ UNCHANGED <<bstate, realmed, active, rconn, toD2cs>>

\* bnetd reads a packet of l and handles it.
BnetdHandles(l) ==
    LET m == Head(toBnetd[l]) IN
    /\ toBnetd[l] # <<>>
    /\ toBnetd' = Read(toBnetd, l)
    /\ \/ OnInit(l, m)
       \/ m.op = "authreply" /\ OnAuth(l)
       \/ m.op = "account" /\ OnAccountReq(l, m)
       \/ m.op = "char" /\ OnCharReq(l, m)
       \/ Unknown(l, m)
    /\ UNCHANGED <<d2csVars, link, lstate, fails>>

BnetdMarks(l) ==
    /\ bstate[l] \in {"init", "connected", "loggedin"}
    /\ bstate' = [bstate EXCEPT ![l] = "destroy"]
    /\ UNCHANGED <<d2csVars, link, lstate, toBnetd, toD2cs, realmed, active, rconn>>

\* bnetd reads the end of l, after what came before it or, when l was reset, without it.
BnetdSeesEnd(l) == lstate[l] = "none" /\ BnetdMarks(l) /\ UNCHANGED fails

\* The end of l at bnetd fails.
BnetdLosesLink(l) == Fails /\ BnetdMarks(l)

(***************************************************************************)
(* connlist_reap: conn_destroy.  If l has the realm, and the realm is      *)
(* active, it is made inactive, even when its connection is not l but one  *)
(* that came after l.                                                      *)
(***************************************************************************)
BnetdReap(l) ==
    /\ bstate[l] = "destroy"
    /\ bstate' = [IF l \in realmed THEN Deactivated(bstate) ELSE bstate EXCEPT ![l] = "none"]
    /\ active' = (active /\ l \notin realmed)
    /\ realmed' = realmed \ {l}
    /\ toBnetd' = Empty(toBnetd, l)
    /\ UNCHANGED <<d2csVars, link, lstate, toD2cs, rconn, fails>>

\* realmlist_reload: the realm is made anew, without a connection; the old one is destroyed.
RealmReload ==
    /\ Fails
    /\ bstate' = Deactivated(bstate)
    /\ active' = FALSE /\ rconn' = NoLink
    /\ UNCHANGED <<d2csVars, link, lstate, toBnetd, toD2cs, realmed>>

-----------------------------------------------------------------------------
(***************************************************************************)
(* Either server ends and starts again.                                    *)
(***************************************************************************)
BnetdRestart ==
    /\ Fails
    /\ bstate' = [l \in Links |-> "none"]
    /\ realmed' = {} /\ active' = FALSE /\ rconn' = NoLink
    /\ toBnetd' = [l \in Links |-> IF lstate[l] = "connecting" THEN toBnetd[l] ELSE <<>>]
    /\ UNCHANGED <<d2csVars, link, lstate, toD2cs>>

D2csRestart ==
    /\ Fails
    /\ cstate' = [c \in Clients |-> "none"]
    /\ charname' = [c \in Clients |-> NoChar]
    /\ peer' = [c \in Clients |-> FALSE]
    /\ sq' = [q \in {} |-> NoLink]
    /\ link' = NoLink
    /\ lstate' = [l \in Links |-> "none"]
    /\ toD2cs' = [l \in Links |-> <<>>]
    /\ toBnetd' = [l \in Links |-> IF bstate[l] = "none" THEN <<>> ELSE toBnetd[l]]
    /\ UNCHANGED <<bstate, realmed, active, rconn>>

-----------------------------------------------------------------------------
Next ==
    \/ \E c \in Clients :
          \/ ClientComes(c) \/ DropClient(c) \/ ClientGoes(c) \/ SeesClientGone(c) \/ ClientReap(c)
          \/ \E q \in Seqs : LoginReq(c, q)
          \/ \E x \in Chars : \/ \E q \in Seqs : CreateCharReq(c, x, q) \/ CharLoginReq(c, x, q)
                              \/ DeleteCharReq(c, x)
    \/ \E q \in Seqs : SqExpire(q)
    \/ \E l \in Links :
          \/ S2sCheck(l) \/ Connected(l) \/ LinkFails(l) \/ D2csSeesEnd(l) \/ LinkReap(l)
          \/ D2csHandles(l)
          \/ BnetdHandles(l) \/ BnetdSeesEnd(l) \/ BnetdLosesLink(l) \/ BnetdReap(l)
    \/ RealmReload \/ BnetdRestart \/ D2csRestart

Spec == Init /\ [][Next]_vars

(***************************************************************************)
(* Both loops go on: each reads the sockets that have something, removes   *)
(* what is marked, and d2cs looks after its link every s2s_retryinterval.  *)
(***************************************************************************)
Fairness ==
    /\ \A c \in Clients : WF_vars(SeesClientGone(c)) /\ WF_vars(ClientReap(c))
    /\ WF_vars(\E l \in Links : S2sCheck(l))
    /\ \A l \in Links :
          /\ WF_vars(Connected(l)) /\ WF_vars(D2csHandles(l))
          /\ WF_vars(D2csSeesEnd(l)) /\ WF_vars(LinkReap(l))
          /\ WF_vars(BnetdHandles(l)) /\ WF_vars(BnetdSeesEnd(l)) /\ WF_vars(BnetdReap(l))

FairSpec == Spec /\ Fairness

-----------------------------------------------------------------------------
(***************************************************************************)
(* No two connections of one row of the table bear the same character,     *)
(* those marked for destruction included: the answer to a login may bring  *)
(* them back (handle_bnetd.cpp:157).  The check that ensures it runs when  *)
(* the answer comes, not when the login is asked for (connection.cpp:149). *)
(***************************************************************************)
LoginsExclusive ==
    \A x \in Chars : \A c, d \in Bucket[x] : charname[c] = x /\ charname[d] = x => c = d

(***************************************************************************)
(* bnetd_connection is the one link open at d2cs.  At most one link is     *)
(* logged in at bnetd, and the realm names it; realm->conn, which          *)
(* realm_deactive marks (realm.cpp:293) and send_d2cs_gameinforeq writes   *)
(* to, is not a connection that is gone; and d2cs never holds for authed a *)
(* link that bnetd has yet to log in.                                      *)
(***************************************************************************)
LinksAgree ==
    /\ \A l \in Links : lstate[l] # "none" <=> l = link
    /\ \A l \in Links : bstate[l] = "loggedin" => active /\ rconn = l
    /\ active => \E l \in Links : rconn = l /\ bstate[l] \in {"loggedin", "destroy"}
    /\ \A l \in Links : lstate[l] = "authed" => bstate[l] \in {"none", "loggedin", "destroy"}

\* Does a request wait on a link that is being made? bnetd will take it for the class byte.
AskedEarly == \E l \in Links : lstate[l] = "connecting" /\ toBnetd[l] # <<>>

LinkUp == \E l \in Links : lstate[l] = "authed" /\ bstate[l] = "loggedin"

(***************************************************************************)
(* When nothing fails any more, and no client asks for a login while the   *)
(* link is being made, the link comes up and stays up (bnetd.cpp:43),      *)
(* though bnetd may still have to end older ones, and may end the new one  *)
(* with them (connection.cpp:596).                                         *)
(***************************************************************************)
LinkRestored == <>[]~AskedEarly => <>[]LinkUp

(***************************************************************************)
(* The connection of a client that has gone ends, though answers to what   *)
(* it asked for may take it from the list of those to be destroyed         *)
(* (handle_bnetd.cpp:157, d2cs connection.cpp:485).                        *)
(***************************************************************************)
GoneEnds == \A c \in Clients : cstate[c] # "none" /\ ~peer[c] ~> cstate[c] = "none"
=============================================================================
