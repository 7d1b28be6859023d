---------------------------- MODULE Bnetd_proofs ----------------------------
(***************************************************************************)
(* Theorems about Bnetd, for any finite number of connections and any      *)
(* accounts, channels and games.                                           *)
(*                                                                         *)
(* The steps of Bnetd are first taken apart: what a step does to           *)
(* connections (ConnMove), to channels (ChatMove) and to games (GameMove). *)
(* Each of the three has its inductive invariant, ConnInv, ChatInv and     *)
(* GameInv, which the later ones rest on.                                  *)
(***************************************************************************)
EXTENDS Bnetd, TLAPS, FiniteSetTheorems, SequenceTheorems, WellFoundedInduction

USE DEF connVars

-----------------------------------------------------------------------------
(***************************************************************************)
(* Connections.                                                            *)
(***************************************************************************)

\* A step that destroys no connection.
Calm ==
    \/ UNCHANGED connVars
    \/ StartSweep
    \/ \E c \in Conns : Accept(c) \/ Doom(c) \/ Spare(c) \/ \E a \in Accounts : Login(c, a)

ConnMove == Calm \/ \E c \in Conns : Free(c)

LEMMA NextConn ==
    ASSUME [Next]_vars
    PROVE  ConnMove
<1>1. CASE UNCHANGED vars
  BY <1>1 DEF vars, ConnMove, Calm
<1>2. CASE ReloadConf \/ StartReap \/ \E r \in Rooms : SendNext(r)
  BY <1>2 DEF ReloadConf, StartReap, SendNext, ConnMove, Calm
<1>3. ASSUME NEW c \in Conns, ReapSkip(c) \/ Reap(c)
      PROVE  ConnMove
  BY <1>3 DEF ReapSkip, Reap, ConnMove, Calm
<1>4. ASSUME NEW c \in Conns, ClientStep(c)
      PROVE  ConnMove
  <2>1. CASE NewConn(c) \/ DropConn(c) \/ \E a \in Accounts : ClientLogin(c, a)
    BY <2>1 DEF NewConn, DropConn, ClientLogin, ConnMove, Calm
  <2>2. CASE LeaveChannel(c) \/ Rejoin(c) \/ CloseGame(c) \/ GameReport(c)
    BY <2>2 DEF LeaveChannel, Rejoin, CloseGame, GameReport, ConnMove, Calm
  <2>3. CASE \E n \in Names : JoinChannel(c, n)
    BY <2>3 DEF JoinChannel, ConnMove, Calm
  <2>4. CASE \E a \in Accounts : \/ \E to \in {Void, NoRoom} : KickUser(c, a, to)
                                 \/ BanUser(c, a) \/ ChatCommand(c, a)
    BY <2>4 DEF KickUser, BanUser, ChatCommand, ConnMove, Calm
  <2>5. CASE \E n \in GameNames, pw \in BOOLEAN : JoinGame(c, n, pw)
    BY <2>5 DEF JoinGame, ConnMove, Calm
  <2>6. CASE \E g \in Games, n \in GameNames, l \in BOOLEAN :
                \/ \E pw \in BOOLEAN : StartGame(c, g, n, l, pw)
                \/ \E s \in Statuses \ {"done"} : StartGame4(c, g, n, l, s)
    BY <2>6 DEF StartGame, StartGame4, ConnMove, Calm
  <2>7. CASE \E s \in Statuses : GameStatus(c, s)
    BY <2>7 DEF GameStatus, ConnMove, Calm
  <2> QED BY <1>4, <2>1, <2>2, <2>3, <2>4, <2>5, <2>6, <2>7 DEF ClientStep
<1> QED BY <1>1, <1>2, <1>3, <1>4 DEF Next

\* Who is not logged in has no account, and only marked connections are reaped.
ConnInv ==
    /\ ConnTypeOK
    /\ OneLogin
    /\ \A c \in Conns : cstate[c] \in {"none", "connected"} => cacct[c] = NoAccount
    /\ \A c \in Conns : cstate[c] = "loggedin" => cacct[c] \in Accounts
    /\ sweep \subseteq Dead

LEMMA ConnInvInit == ConnInit => ConnInv
BY ConnAssumption DEF ConnInit, ConnInv, ConnTypeOK, OneLogin, Dead

LEMMA ConnInvNext ==
    ASSUME ConnInv, ConnMove
    PROVE  ConnInv'
<1> USE ConnAssumption DEF ConnInv, ConnTypeOK, OneLogin, Dead
<1>1. CASE UNCHANGED connVars
  BY <1>1
<1>2. CASE StartSweep
  BY <1>2 DEF StartSweep
<1>3. ASSUME NEW c \in Conns, Accept(c)
      PROVE  ConnInv'
  BY <1>3 DEF Accept
<1>4. ASSUME NEW c \in Conns, Doom(c)
      PROVE  ConnInv'
  BY <1>4 DEF Doom
<1>5. ASSUME NEW c \in Conns, Spare(c)
      PROVE  ConnInv'
  BY <1>5 DEF Spare
<1>6. ASSUME NEW c \in Conns, NEW a \in Accounts, Login(c, a)
      PROVE  ConnInv'
  BY <1>6 DEF Login
<1>7. ASSUME NEW c \in Conns, Free(c)
      PROVE  ConnInv'
  BY <1>7 DEF Free, LoggedOut
<1> QED BY <1>1, <1>2, <1>3, <1>4, <1>5, <1>6, <1>7 DEF ConnMove, Calm

LEMMA ConnInvAlways == Spec => []ConnInv
<1>1. Init => ConnInv
  BY ConnInvInit DEF Init
<1>2. ConnInv /\ [Next]_vars => ConnInv'
  BY NextConn, ConnInvNext
<1> QED BY <1>1, <1>2, PTL DEF Spec

\* An account is logged in on one connection at most, which it points to, whatever
\* new logins, marked connections and the reaping of them do in whatever order.
THEOREM AccountsLoginOnce == Spec => []OneLogin
<1>1. ConnInv => OneLogin
  BY DEF ConnInv
<1> QED BY <1>1, ConnInvAlways, PTL

-----------------------------------------------------------------------------
(***************************************************************************)
(* Lists of members.                                                       *)
(***************************************************************************)

OnceEach(s) == \A i, j \in DOMAIN s : s[i] = s[j] => i = j

\* RemoveAt moves what follows the element one place ahead.
LEMMA RemovedAt ==
    ASSUME NEW s \in Seq(Conns), NEW k \in 1..Len(s)
    PROVE  /\ RemoveAt(s, k) \in Seq(Conns)
           /\ Len(RemoveAt(s, k)) = Len(s) - 1
           /\ \A i \in 1..(Len(s) - 1) :
                 RemoveAt(s, k)[i] = IF i < k THEN s[i] ELSE s[i + 1]
<1> DEFINE f == SubSeq(s, 1, k - 1)
           g == SubSeq(s, k + 1, Len(s))
<1>1. f \in Seq(Conns) /\ Len(f) = k - 1 /\ \A i \in 1..(k - 1) : f[i] = s[i]
  OBVIOUS
<1>2. g \in Seq(Conns) /\ Len(g) = Len(s) - k /\ \A i \in 1..(Len(s) - k) : g[i] = s[k + i]
  OBVIOUS
<1>3. RemoveAt(s, k) = f \o g
  BY DEF RemoveAt
<1> HIDE DEF f, g
<1> DEFINE t == f \o g
<1>4. t \in Seq(Conns) /\ Len(t) = Len(f) + Len(g)
  BY <1>1, <1>2, ConcatProperties
<1>5. \A i \in 1..(Len(f) + Len(g)) : t[i] = IF i <= Len(f) THEN f[i] ELSE g[i - Len(f)]
  BY <1>1, <1>2, ConcatProperties
<1> HIDE DEF t
<1>6. ASSUME NEW i \in 1..(Len(s) - 1)
      PROVE  t[i] = IF i < k THEN s[i] ELSE s[i + 1]
  <2>1. i \in 1..(Len(f) + Len(g)) /\ i \in Nat /\ k \in Nat
    BY <1>1, <1>2
  <2>2. CASE i < k
    <3>1. i <= Len(f) /\ i \in 1..(k - 1)
      BY <1>1, <2>1, <2>2
    <3>2. t[i] = f[i]
      BY <1>5, <2>1, <3>1
    <3> QED BY <1>1, <2>2, <3>1, <3>2
  <2>3. CASE ~ (i < k)
    <3>1. t[i] = g[i - (k - 1)]
      BY <1>1, <1>5, <2>1, <2>3
    <3>2. i - (k - 1) \in 1..(Len(s) - k) /\ k + (i - (k - 1)) = i + 1
      BY <2>1, <2>3
    <3>3. g[i - (k - 1)] = s[i + 1]
      BY <1>2, <3>2
    <3> QED BY <2>3, <3>1, <3>3
  <2> QED BY <2>2, <2>3
<1>7. Len(t) = Len(s) - 1
  BY <1>1, <1>2, <1>4
<1> QED BY <1>3, <1>4, <1>6, <1>7 DEF t

\* Without takes one element out of a list.
LEMMA WithoutOne ==
    ASSUME NEW s \in Seq(Conns), NEW c \in Elems(s), OnceEach(s)
    PROVE  \E k \in 1..Len(s) :
              /\ s[k] = c
              /\ Without(s, c) \in Seq(Conns)
              /\ Len(Without(s, c)) = Len(s) - 1
              /\ \A i \in 1..(Len(s) - 1) :
                    Without(s, c)[i] = IF i < k THEN s[i] ELSE s[i + 1]
<1> DEFINE k == CHOOSE i \in DOMAIN s : s[i] = c /\ \A j \in 1..(i - 1) : s[j] # c
<1>1. \E i \in DOMAIN s : s[i] = c /\ \A j \in 1..(i - 1) : s[j] # c
  <2>1. PICK i \in DOMAIN s : s[i] = c
    BY DEF Elems
  <2>2. \A j \in 1..(i - 1) : j \in DOMAIN s /\ j # i
    OBVIOUS
  <2> QED BY <2>1, <2>2 DEF OnceEach
<1>2. k \in DOMAIN s /\ s[k] = c
  BY <1>1
<1>3. Without(s, c) = RemoveAt(s, k)
  BY DEF Without
<1> HIDE DEF k
<1>4. k \in 1..Len(s)
  BY <1>2
<1> QED BY <1>2, <1>3, <1>4, RemovedAt

LEMMA WithoutElems ==
    ASSUME NEW s \in Seq(Conns), NEW c, OnceEach(s)
    PROVE  /\ Without(s, c) \in Seq(Conns)
           /\ Elems(Without(s, c)) = Elems(s) \ {c}
           /\ OnceEach(Without(s, c))
<1>1. CASE c \notin Elems(s)
  BY <1>1 DEF Without
<1>2. CASE c \in Elems(s)
  <2> DEFINE t == Without(s, c)
  <2>1. PICK k \in 1..Len(s) :
              /\ s[k] = c
              /\ t \in Seq(Conns)
              /\ Len(t) = Len(s) - 1
              /\ \A i \in 1..(Len(s) - 1) : t[i] = IF i < k THEN s[i] ELSE s[i + 1]
    BY <1>2, WithoutOne
  <2> HIDE DEF t
  <2>2. DOMAIN t = 1..(Len(s) - 1) /\ DOMAIN s = 1..Len(s)
    BY <2>1
  <2>3. OnceEach(t)
    BY <2>1, <2>2 DEF OnceEach
  <2>4. ASSUME NEW x \in Elems(t) PROVE x \in Elems(s) /\ x # c
    <3>1. PICK i \in DOMAIN t : t[i] = x
      BY <2>4 DEF Elems
    <3>2. CASE i < k
      BY <2>1, <2>2, <3>1, <3>2 DEF Elems, OnceEach
    <3>3. CASE i >= k
      <4>1. i + 1 \in DOMAIN s /\ x = s[i + 1] /\ i + 1 # k
        BY <2>1, <2>2, <3>1, <3>3
      <4> QED BY <2>1, <2>2, <4>1 DEF Elems, OnceEach
    <3> QED BY <2>2, <3>2, <3>3
  <2>5. ASSUME NEW x \in Elems(s), x # c PROVE x \in Elems(t)
    <3>1. PICK i \in DOMAIN s : s[i] = x
      BY <2>5 DEF Elems
    <3>2. CASE i < k
      BY <2>1, <2>2, <3>1, <3>2 DEF Elems
    <3>3. CASE i > k
      <4>1. i - 1 \in DOMAIN t /\ t[i - 1] = x
        BY <2>1, <2>2, <3>1, <3>3
      <4> QED BY <4>1 DEF Elems
    <3> QED BY <2>1, <2>2, <2>5, <3>1, <3>2, <3>3
  <2> QED BY <2>1, <2>3, <2>4, <2>5 DEF t
<1> QED BY <1>1, <1>2

\* Who comes in is put in front.
LEMMA PrependElems ==
    ASSUME NEW s \in Seq(Conns), NEW c \in Conns, c \notin Elems(s), OnceEach(s)
    PROVE  /\ <<c>> \o s \in Seq(Conns)
           /\ Len(<<c>> \o s) = Len(s) + 1
           /\ \A i \in 1..(Len(s) + 1) : (<<c>> \o s)[i] = IF i = 1 THEN c ELSE s[i - 1]
           /\ Elems(<<c>> \o s) = Elems(s) \cup {c}
           /\ OnceEach(<<c>> \o s)
<1> DEFINE t == <<c>> \o s
<1>1. t \in Seq(Conns) /\ Len(t) = Len(s) + 1
  OBVIOUS
<1>2. \A i \in 1..(Len(s) + 1) : t[i] = IF i = 1 THEN c ELSE s[i - 1]
  OBVIOUS
<1>3. DOMAIN t = 1..(Len(s) + 1) /\ DOMAIN s = 1..Len(s)
  BY <1>1
<1> HIDE DEF t
<1>4. Elems(t) \subseteq Elems(s) \cup {c}
  BY <1>2, <1>3 DEF Elems
<1>5. c \in Elems(t)
  BY <1>2, <1>3 DEF Elems
<1>6. ASSUME NEW x \in Elems(s) PROVE x \in Elems(t)
  <2>1. PICK i \in DOMAIN s : s[i] = x
    BY DEF Elems
  <2>2. i + 1 \in DOMAIN t /\ t[i + 1] = x
    BY <1>2, <1>3, <2>1
  <2> QED BY <2>2 DEF Elems
<1>7. OnceEach(t)
  <2>1. SUFFICES ASSUME NEW i \in DOMAIN t, NEW j \in DOMAIN t, t[i] = t[j] PROVE i = j
    BY DEF OnceEach
  <2>2. \A n \in DOMAIN t : n # 1 => n - 1 \in DOMAIN s /\ t[n] = s[n - 1] /\ t[n] \in Elems(s)
    BY <1>2, <1>3 DEF Elems
  <2>3. t[1] = c
    BY <1>2, <1>3
  <2>4. CASE i = 1 \/ j = 1
    BY <2>1, <2>2, <2>3, <2>4
  <2>5. CASE i # 1 /\ j # 1
    <3>1. i - 1 = j - 1
      BY <2>1, <2>2, <2>5 DEF OnceEach
    <3> QED BY <1>3, <3>1
  <2> QED BY <2>4, <2>5
<1> QED BY <1>1, <1>2, <1>4, <1>5, <1>6, <1>7 DEF t

\* Turning a list around loses nobody.
LEMMA ReverseElems ==
    ASSUME NEW s \in Seq(Conns), OnceEach(s)
    PROVE  /\ Reverse(s) \in Seq(Conns)
           /\ Elems(Reverse(s)) = Elems(s)
           /\ OnceEach(Reverse(s))
<1> DEFINE t == Reverse(s)
<1>1. t \in Seq(Conns) /\ Len(t) = Len(s)
  BY DEF Reverse
<1>2. \A i \in 1..Len(s) : t[i] = s[(Len(s) - i) + 1] /\ (Len(s) - i) + 1 \in 1..Len(s)
  BY DEF Reverse
<1>3. DOMAIN t = 1..Len(s) /\ DOMAIN s = 1..Len(s)
  BY <1>1
<1> HIDE DEF t
<1>4. Elems(t) \subseteq Elems(s)
  BY <1>2, <1>3 DEF Elems
<1>5. ASSUME NEW x \in Elems(s) PROVE x \in Elems(t)
  <2>1. PICK i \in DOMAIN s : s[i] = x
    BY DEF Elems
  <2>2. (Len(s) - i) + 1 \in DOMAIN t /\ t[(Len(s) - i) + 1] = s[i]
    <3>1. (Len(s) - i) + 1 \in 1..Len(s) /\ (Len(s) - ((Len(s) - i) + 1)) + 1 = i
      BY <1>3
    <3> QED BY <1>2, <1>3, <3>1
  <2> QED BY <2>1, <2>2 DEF Elems
<1>6. OnceEach(t)
  BY <1>2, <1>3 DEF OnceEach
<1> QED BY <1>1, <1>4, <1>5, <1>6 DEF t

\* Who goes back is taken off the front.
LEMMA TailElems ==
    ASSUME NEW s \in Seq(Conns), s # <<>>, OnceEach(s)
    PROVE  /\ Head(s) \in Elems(s) /\ Head(s) \in Conns
           /\ Tail(s) \in Seq(Conns)
           /\ Elems(Tail(s)) \subseteq Elems(s) \ {Head(s)}
           /\ OnceEach(Tail(s))
<1>1. Len(s) >= 1 /\ Head(s) = s[1] /\ 1 \in DOMAIN s
  OBVIOUS
<1>2. Tail(s) \in Seq(Conns) /\ Len(Tail(s)) = Len(s) - 1
  BY <1>1
<1>3. \A i \in DOMAIN Tail(s) : Tail(s)[i] = s[i + 1] /\ i + 1 \in DOMAIN s /\ i + 1 # 1
  BY <1>1, <1>2
<1>4. Head(s) \in Elems(s) /\ Head(s) \in Conns
  BY <1>1 DEF Elems
<1>5. Elems(Tail(s)) \subseteq Elems(s) \ {Head(s)}
  BY <1>1, <1>3 DEF Elems, OnceEach
<1>6. OnceEach(Tail(s))
  <2>1. SUFFICES ASSUME NEW i \in DOMAIN Tail(s), NEW j \in DOMAIN Tail(s), Tail(s)[i] = Tail(s)[j]
                 PROVE  i = j
    BY DEF OnceEach
  <2>2. i + 1 = j + 1
    BY <1>3, <2>1 DEF OnceEach
  <2>3. i \in Nat /\ j \in Nat
    BY <1>2
  <2> QED BY <2>2, <2>3
<1> QED BY <1>2, <1>4, <1>5, <1>6

-----------------------------------------------------------------------------
(***************************************************************************)
(* Channels.                                                               *)
(***************************************************************************)

\* What a client that is logged in does to channels.
ChatBy(c) ==
    \/ Part(c)
    \/ \E r \in Rooms \ {where[c]} : Enter(c, r)
    \/ Reenter(c)
    \/ \E a \in Accounts : \/ \E to \in {Void, NoRoom} : Kick(c, a, to)
                           \/ Ban(c, a) \/ Unban(c, a) \/ TmpOp(c, a) \/ Deop(c, a)

ChatMove ==
    \/ UNCHANGED <<connVars, chatVars>>
    \/ Turn /\ Calm /\ UNCHANGED chatVars
    \/ \E c \in Conns : Spare(c) /\ UNCHANGED chatVars
    \/ \E c \in Conns : Free(c) /\ Part(c)
    \/ UNCHANGED connVars /\ \E c \in Conns : LoggedIn(c) /\ ChatBy(c)
    \/ UNCHANGED connVars /\ Turn /\ Reload
    \/ UNCHANGED connVars /\ \E r, t \in Rooms : SendBack(r, t)

LEMMA NextChat ==
    ASSUME [Next]_vars
    PROVE  ChatMove
<1>1. CASE UNCHANGED vars
  BY <1>1 DEF vars, ChatMove
<1>2. CASE ReloadConf \/ StartReap \/ \E r \in Rooms : SendNext(r)
  BY <1>2 DEF ReloadConf, StartReap, SendNext, ChatMove, Calm
<1>3. ASSUME NEW c \in Conns, ReapSkip(c) \/ Reap(c)
      PROVE  ChatMove
  BY <1>3 DEF ReapSkip, Reap, ChatMove
<1>4. ASSUME NEW c \in Conns, ClientStep(c)
      PROVE  ChatMove
  <2>1. CASE NewConn(c) \/ DropConn(c) \/ \E a \in Accounts : ClientLogin(c, a)
    BY <2>1 DEF NewConn, DropConn, ClientLogin, ChatMove, Calm
  <2>2. CASE LeaveChannel(c) \/ Rejoin(c) \/ CloseGame(c) \/ GameReport(c)
    BY <2>2 DEF LeaveChannel, Rejoin, CloseGame, GameReport, ChatMove, ChatBy
  <2>3. CASE \E n \in Names : JoinChannel(c, n)
    <3>1. PICK n \in Names : JoinChannel(c, n)
      BY <2>3
    <3>2. PICK r \in Rooms : IF r = where[c] THEN UNCHANGED chatVars ELSE Enter(c, r)
      BY <3>1 DEF JoinChannel
    <3>3. UNCHANGED connVars /\ LoggedIn(c)
      BY <3>1 DEF JoinChannel
    <3> QED BY <3>2, <3>3 DEF ChatMove, ChatBy
  <2>4. CASE \E a \in Accounts : \/ \E to \in {Void, NoRoom} : KickUser(c, a, to)
                                 \/ BanUser(c, a) \/ ChatCommand(c, a)
    BY <2>4 DEF KickUser, BanUser, ChatCommand, ChatMove, ChatBy
  <2>5. CASE \E n \in GameNames, pw \in BOOLEAN : JoinGame(c, n, pw)
    BY <2>5 DEF JoinGame, ChatMove, ChatBy
  <2>6. CASE \E g \in Games, n \in GameNames, l \in BOOLEAN :
                \/ \E pw \in BOOLEAN : StartGame(c, g, n, l, pw)
                \/ \E s \in Statuses \ {"done"} : StartGame4(c, g, n, l, s)
    BY <2>6 DEF StartGame, StartGame4, ChatMove, ChatBy
  <2>7. CASE \E s \in Statuses : GameStatus(c, s)
    BY <2>7 DEF GameStatus, ChatMove
  <2> QED BY <1>4, <2>1, <2>2, <2>3, <2>4, <2>5, <2>6, <2>7 DEF ClientStep
<1> QED BY <1>1, <1>2, <1>3, <1>4 DEF Next

\* Is c the connection of a client that has logged in?
Known(c) == cacct[c] \in Accounts /\ cstate[c] \in {"loggedin", "destroy"}

\* No list holds anybody twice; who is waiting to be sent back is in no channel.
BackOK ==
    /\ \A r \in Rooms : OnceEach(back[r])
    /\ \A r, s \in Rooms : \A c \in Elems(back[r]) : c \in Elems(back[s]) => r = s
    /\ \A r \in Rooms : \A c \in Elems(back[r]) : where[c] = NoRoom /\ Known(c)
    /\ Returning => sweep = {}

\* A channel that is not there bans nobody, and neither does the void.
BansOK == banned[Void] = {} /\ \A r \in Rooms \ live : banned[r] = {}

UsersOK == \A c \in Conns : where[c] # NoRoom => Known(c)

ChatInv == ChatTypeOK /\ ListsAgree /\ BackOK /\ BansOK /\ UsersOK /\ BannedStayOut

\* The other members of r once c has left.
Stay(c, r) == IF r = where[c] THEN Without(members[r], c) ELSE members[r]

LEMMA StayElems ==
    ASSUME ChatTypeOK, ListsAgree, NEW c \in Conns, NEW r \in Rooms
    PROVE  /\ Stay(c, r) \in Seq(Conns)
           /\ Elems(Stay(c, r)) = {m \in Conns : where[m] = r} \ {c}
           /\ OnceEach(Stay(c, r))
<1>1. members[r] \in Seq(Conns) /\ OnceEach(members[r])
  BY DEF ChatTypeOK, ListsAgree, OnceEach
<1>2. Elems(members[r]) = {m \in Conns : where[m] = r}
  BY DEF ListsAgree
<1>3. CASE r = where[c]
  <2>1. Stay(c, r) = Without(members[r], c)
    BY <1>3 DEF Stay
  <2> QED BY <1>1, <1>2, <2>1, WithoutElems
<1>4. CASE r # where[c]
  BY <1>1, <1>2, <1>4 DEF Stay
<1> QED BY <1>3, <1>4

\* Place, with the lists taken apart.
LEMMA PlaceParts ==
    ASSUME ChatTypeOK, ListsAgree, NEW c \in Conns, NEW r \in Rooms \cup {NoRoom}, Place(c, r)
    PROVE  /\ where' = [where EXCEPT ![c] = r]
           /\ live' = Listed(c, r)
           /\ members' = [x \in Rooms |-> IF x = r THEN <<c>> \o Stay(c, x) ELSE Stay(c, x)]
           /\ op' \in [Conns -> Rooms \cup {NoRoom}]
           /\ op'[c] \in {r, NoRoom}
           /\ \A m \in Conns \ {c} : op'[m] = op[m]
<1>1. \A x \in Rooms : Stay(c, x) = IF x = where[c] THEN Without(members[x], c) ELSE members[x]
  BY DEF Stay
<1>2. op \in [Conns -> Rooms \cup {NoRoom}] /\ op[c] \in {where[c], NoRoom}
  BY DEF ChatTypeOK, ListsAgree
<1>3. PICK b \in BOOLEAN :
          op' = [op EXCEPT ![c] = IF r # NoRoom /\ b THEN r
                                  ELSE IF @ = where[c] THEN NoRoom ELSE @]
  BY DEF Place
<1>4. members' = [x \in Rooms |-> IF x = r THEN <<c>> \o Stay(c, x) ELSE Stay(c, x)]
  BY <1>1 DEF Place
<1>5. where' = [where EXCEPT ![c] = r] /\ live' = Listed(c, r)
  BY DEF Place
<1> QED BY <1>2, <1>3, <1>4, <1>5

LEMMA NonEmptyElems ==
    ASSUME NEW s \in Seq(Conns), s # <<>>
    PROVE  Elems(s) # {}
<1>1. 1 \in DOMAIN s
  OBVIOUS
<1> QED BY <1>1 DEF Elems

\* The channel that goes when c leaves is one where nobody else is.
LEMMA EmptiedIs ==
    ASSUME ChatTypeOK, ListsAgree, NEW c \in Conns, NEW r \in Rooms
    PROVE  r \in Emptied(c) <=> /\ r = where[c] /\ r \notin Permanent
                               /\ \A m \in Conns \ {c} : where[m] # r
<1> DEFINE s == members[r]
<1>1. s \in Seq(Conns) /\ OnceEach(s) /\ Elems(s) = {m \in Conns : where[m] = r}
  BY DEF ChatTypeOK, ListsAgree, OnceEach
<1>2. r # NoRoom
  BY RoomAssumption DEF Names
<1>3. r \in Emptied(c) <=> r = where[c] /\ r \notin Permanent /\ Len(s) = 1
  BY <1>2 DEF Emptied
<1>4. ASSUME r = where[c]
      PROVE  Len(s) = 1 <=> \A m \in Conns \ {c} : where[m] # r
  <2> HIDE DEF s
  <2>1. PICK i \in DOMAIN s : s[i] = c
    BY <1>1, <1>4 DEF Elems
  <2>2. DOMAIN s = 1..Len(s) /\ Len(s) \in Nat /\ i \in 1..Len(s)
    BY <1>1, <2>1
  <2>3. ASSUME Len(s) = 1, NEW m \in Conns \ {c} PROVE where[m] # r
    <3>1. m \notin Elems(s)
      BY <2>1, <2>2, <2>3 DEF Elems
    <3> QED BY <1>1, <3>1
  <2>4. ASSUME Len(s) # 1 PROVE \E m \in Conns \ {c} : where[m] = r
    <3>1. PICK j \in DOMAIN s : j # i
      <4>1. CASE i = 1
        <5>1. 2 \in DOMAIN s
          BY <2>2, <2>4, <4>1
        <5> QED BY <4>1, <5>1
      <4>2. CASE i # 1
        <5>1. 1 \in DOMAIN s
          BY <2>2
        <5> QED BY <4>2, <5>1
      <4> QED BY <4>1, <4>2
    <3>2. s[j] # c /\ s[j] \in Elems(s)
      BY <1>1, <2>1, <3>1 DEF OnceEach, Elems
    <3> QED BY <1>1, <3>2
  <2> QED BY <2>3, <2>4
<1> QED BY <1>3, <1>4

\* The lists agree after any move of a connection from one channel to another.
LEMMA PlaceAgrees ==
    ASSUME ChatTypeOK, ListsAgree, NEW c \in Conns, NEW r \in Rooms \cup {NoRoom}, Place(c, r)
    PROVE  /\ members' \in [Rooms -> Seq(Conns)]
           /\ where' \in [Conns -> Rooms \cup {NoRoom}]
           /\ live' \subseteq Rooms
           /\ seen' \in [Conns -> SUBSET Conns]
           /\ ListsAgree'
<1> USE RoomAssumption DEF Names
<1>1. /\ where' = [where EXCEPT ![c] = r]
      /\ live' = Listed(c, r)
      /\ members' = [x \in Rooms |-> IF x = r THEN <<c>> \o Stay(c, x) ELSE Stay(c, x)]
      /\ op' \in [Conns -> Rooms \cup {NoRoom}]
      /\ op'[c] \in {r, NoRoom}
      /\ \A m \in Conns \ {c} : op'[m] = op[m]
  BY PlaceParts
<1>2. where \in [Conns -> Rooms \cup {NoRoom}] /\ live \subseteq Rooms
  BY DEF ChatTypeOK
<1>3. where' \in [Conns -> Rooms \cup {NoRoom}] /\ where'[c] = r
         /\ \A m \in Conns \ {c} : where'[m] = where[m]
  BY <1>1, <1>2
<1>4. ASSUME NEW x \in Rooms
      PROVE  /\ members'[x] \in Seq(Conns)
             /\ OnceEach(members'[x])
             /\ Elems(members'[x]) = {m \in Conns : where'[m] = x}
  <2>1. /\ Stay(c, x) \in Seq(Conns)
        /\ Elems(Stay(c, x)) = {m \in Conns : where[m] = x} \ {c}
        /\ OnceEach(Stay(c, x))
    BY StayElems
  <2>2. CASE x = r
    <3>1. members'[x] = <<c>> \o Stay(c, x)
      BY <1>1, <2>2
    <3>2. c \notin Elems(Stay(c, x))
      BY <2>1
    <3>3. /\ <<c>> \o Stay(c, x) \in Seq(Conns)
          /\ Elems(<<c>> \o Stay(c, x)) = Elems(Stay(c, x)) \cup {c}
          /\ OnceEach(<<c>> \o Stay(c, x))
      BY <2>1, <3>2, PrependElems
    <3>4. {m \in Conns : where'[m] = x} = ({m \in Conns : where[m] = x} \ {c}) \cup {c}
      BY <1>3, <2>2
    <3> QED BY <2>1, <3>1, <3>3, <3>4
  <2>3. CASE x # r
    <3>1. members'[x] = Stay(c, x)
      BY <1>1, <2>3
    <3> QED BY <1>3, <2>1, <2>3, <3>1
  <2> QED BY <2>2, <2>3
<1>5. members' \in [Rooms -> Seq(Conns)]
  BY <1>1, <1>4
<1>6. live' \subseteq Rooms
  BY <1>1, <1>2 DEF Listed
<1>7. seen' \in [Conns -> SUBSET Conns]
  <2>1. \A x \in Rooms : Elems(Stay(c, x)) \subseteq Conns
    BY StayElems
  <2>2. \A x \in Rooms : Stay(c, x) = IF x = where[c] THEN Without(members[x], c) ELSE members[x]
    BY DEF Stay
  <2>3. seen \in [Conns -> SUBSET Conns]
    BY DEF ChatTypeOK
  <2>4. /\ seen' = [m \in Conns |-> seen'[m]]
        /\ seen'[c] = IF r \in {NoRoom, Void} THEN {} ELSE Elems(Stay(c, r))
    BY <2>2 DEF Place
  <2>5. \A m \in Conns \ {c} : seen'[m] \subseteq seen[m] \cup {c}
    BY DEF Place
  <2>6. seen'[c] \subseteq Conns
    BY <2>1, <2>4
  <2>7. \A m \in Conns : seen'[m] \in SUBSET Conns
    BY <2>3, <2>5, <2>6
  <2> QED BY <2>4, <2>7
<1>8. \A x \in Rooms : x = r \/ members'[x] = Stay(c, x)
  BY <1>1
<1>9. \A x \in Rooms : members'[x] # <<>> => x \in live'
  <2>1. SUFFICES ASSUME NEW x \in Rooms, members'[x] # <<>>, x # r PROVE x \in live'
    BY <1>1 DEF Listed
  <2>2. PICK m \in Conns : m # c /\ where[m] = x
    <3>1. Elems(members'[x]) # {}
      BY <1>4, <2>1, NonEmptyElems
    <3>2. Elems(members'[x]) = {m \in Conns : where[m] = x} \ {c}
      BY <1>8, <2>1, StayElems
    <3> QED BY <3>1, <3>2
  <2>3. x \in live
    BY <2>2 DEF ListsAgree, Elems
  <2>4. x \notin Emptied(c)
    BY <2>2, EmptiedIs
  <2> QED BY <1>1, <2>3, <2>4 DEF Listed
<1>10. \A x \in live' \ Permanent : members'[x] # <<>>
  <2>1. SUFFICES ASSUME NEW x \in live', x \notin Permanent PROVE \E m \in Conns : where'[m] = x
    BY <1>4, <1>6 DEF Elems
  <2>2. x \in Rooms
    BY <1>6
  <2>3. CASE x = r
    BY <1>3, <2>3
  <2>4. CASE x # r
    <3>1. x \in live /\ x \notin Emptied(c)
      BY <1>1, <2>4 DEF Listed
    <3>2. members[x] # <<>> /\ members[x] \in Seq(Conns)
      BY <2>1, <3>1, <2>2 DEF ListsAgree, ChatTypeOK
    <3>3. PICK m \in Conns : where[m] = x
      BY <2>2, <3>2, NonEmptyElems DEF ListsAgree
    <3>4. CASE m # c
      BY <1>3, <3>3, <3>4
    <3>5. CASE m = c
      <4>1. PICK n \in Conns : n # c /\ where[n] = x
        BY <2>1, <2>2, <3>1, <3>3, <3>5, EmptiedIs
      <4> QED BY <1>3, <4>1
    <3> QED BY <3>4, <3>5
  <2> QED BY <2>3, <2>4
<1>11. \A m \in Conns : op'[m] \in {where'[m], NoRoom}
  BY <1>1, <1>3 DEF ListsAgree
<1> QED BY <1>3, <1>4, <1>5, <1>6, <1>7, <1>9, <1>10, <1>11 DEF ListsAgree, OnceEach

\* What holds after c has gone from one channel to another, but for the ban lists.
LEMMA MoveKeeps ==
    ASSUME ChatInv, NEW c \in Conns, NEW p \in Rooms \cup {NoRoom}, Place(c, p),
           \A m \in Conns \ {c} : cstate'[m] = cstate[m] /\ cacct'[m] = cacct[m],
           p # NoRoom => Known(c)',
           back' \in [Rooms -> Seq(Conns)],
           \A r \in Rooms : OnceEach(back'[r]) /\ Elems(back'[r]) \subseteq Elems(back[r]) \ {c},
           Returning' => sweep' = {},
           banned' \in [Rooms -> SUBSET Accounts]
    PROVE  ChatTypeOK' /\ ListsAgree' /\ BackOK' /\ UsersOK'
           /\ where' = [where EXCEPT ![c] = p] /\ live' = Listed(c, p)
<1>1. ChatTypeOK /\ ListsAgree /\ BackOK /\ UsersOK
  BY DEF ChatInv
<1>2. /\ members' \in [Rooms -> Seq(Conns)]
      /\ where' \in [Conns -> Rooms \cup {NoRoom}]
      /\ live' \subseteq Rooms
      /\ seen' \in [Conns -> SUBSET Conns]
      /\ ListsAgree'
  BY <1>1, PlaceAgrees
<1>3. /\ where' = [where EXCEPT ![c] = p] /\ live' = Listed(c, p)
      /\ op' \in [Conns -> Rooms \cup {NoRoom}]
  BY <1>1, PlaceParts
<1>4. ChatTypeOK'
  BY <1>2, <1>3 DEF ChatTypeOK
<1>5. where \in [Conns -> Rooms \cup {NoRoom}]
  BY <1>1 DEF ChatTypeOK
<1>6. \A m \in Conns \ {c} : where'[m] = where[m] /\ (Known(m)' <=> Known(m))
  BY <1>3, <1>5 DEF Known
<1>7. UsersOK'
  BY <1>1, <1>3, <1>5, <1>6 DEF UsersOK
<1>8. BackOK'
  <2>1. ASSUME NEW r \in Rooms, NEW m \in Elems(back'[r]) PROVE where'[m] = NoRoom /\ Known(m)'
    <3>1. m \in Elems(back[r]) /\ m # c
      OBVIOUS
    <3>2. m \in Conns
      BY <3>1, <1>1 DEF ChatTypeOK, Elems
    <3> QED BY <1>1, <1>6, <3>1, <3>2 DEF BackOK
  <2>2. ASSUME NEW r \in Rooms, NEW s \in Rooms, NEW m \in Elems(back'[r]), m \in Elems(back'[s])
        PROVE  r = s
    BY <1>1, <2>2 DEF BackOK
  <2> QED BY <2>1, <2>2 DEF BackOK
<1> QED BY <1>2, <1>3, <1>4, <1>7, <1>8

\* The same with the ban list of a channel that empties destroyed with it.
LEMMA MoveInv ==
    ASSUME ChatInv, NEW c \in Conns, NEW p \in Rooms \cup {NoRoom}, Place(c, p),
           \A m \in Conns \ {c} : cstate'[m] = cstate[m] /\ cacct'[m] = cacct[m],
           p # NoRoom => Known(c)' /\ cacct'[c] \notin BansAfter(c)[p],
           back' \in [Rooms -> Seq(Conns)],
           \A r \in Rooms : OnceEach(back'[r]) /\ Elems(back'[r]) \subseteq Elems(back[r]) \ {c},
           Returning' => sweep' = {},
           banned' = BansAfter(c)
    PROVE  ChatInv'
<1>1. ChatTypeOK /\ ListsAgree /\ BansOK /\ BannedStayOut
  BY DEF ChatInv
<1>2. banned \in [Rooms -> SUBSET Accounts] /\ where \in [Conns -> Rooms \cup {NoRoom}]
  BY <1>1 DEF ChatTypeOK
<1>3. /\ banned' \in [Rooms -> SUBSET Accounts]
      /\ \A r \in Rooms : banned'[r] \subseteq banned[r]
      /\ \A r \in Emptied(c) : r \in Rooms => banned'[r] = {}
  BY <1>2 DEF BansAfter
<1>4. /\ ChatTypeOK' /\ ListsAgree' /\ BackOK' /\ UsersOK'
      /\ where' = [where EXCEPT ![c] = p] /\ live' = Listed(c, p)
  BY <1>3, MoveKeeps
<1>5. BansOK'
  <2>1. Void \in Rooms
    BY RoomAssumption
  <2>2. \A r \in Rooms \ live' : r \notin live \/ r \in Emptied(c)
    BY <1>4 DEF Listed
  <2> QED BY <1>1, <1>3, <2>1, <2>2 DEF BansOK
<1>6. BannedStayOut'
  <2>1. SUFFICES ASSUME NEW m \in Conns, cstate'[m] = "loggedin", where'[m] # NoRoom
                 PROVE  cacct'[m] \notin banned'[where'[m]]
    BY DEF BannedStayOut
  <2>2. CASE m = c
    BY <1>2, <1>4, <2>1, <2>2
  <2>3. CASE m # c
    <3>1. where'[m] = where[m] /\ cstate'[m] = cstate[m] /\ cacct'[m] = cacct[m]
      BY <1>2, <1>4, <2>3
    <3>2. where[m] \in Rooms
      BY <1>2, <2>1, <3>1
    <3> QED BY <1>1, <1>3, <2>1, <3>1, <3>2 DEF BannedStayOut
  <2> QED BY <2>2, <2>3
<1> QED BY <1>4, <1>5, <1>6 DEF ChatInv

\* Nobody waits to be sent back while clients act.
LEMMA NobodyBack ==
    ASSUME ChatInv, Turn
    PROVE  \A r \in Rooms : back[r] = <<>> /\ Elems(back[r]) = {} /\ OnceEach(back[r])
BY DEF Turn, Returning, Elems, OnceEach

\* A move by a client, which sends nobody back.
LEMMA ActMoves ==
    ASSUME ChatInv, Turn, UNCHANGED connVars, NEW c \in Conns, NEW p \in Rooms \cup {NoRoom},
           Place(c, p), banned' = BansAfter(c), UNCHANGED back,
           p # NoRoom => Known(c) /\ cacct[c] \notin BansAfter(c)[p]
    PROVE  ChatInv'
<1>1. \A r \in Rooms : back[r] = <<>> /\ Elems(back[r]) = {} /\ OnceEach(back[r])
  BY NobodyBack
<1>2. back' \in [Rooms -> Seq(Conns)] /\ Returning' = Returning
  BY DEF ChatInv, ChatTypeOK, Returning
<1>3. Returning' => sweep' = {}
  BY <1>2 DEF Turn
<1>4. p # NoRoom => Known(c)' /\ cacct'[c] \notin BansAfter(c)[p]
  BY DEF Known
<1>5. \A m \in Conns \ {c} : cstate'[m] = cstate[m] /\ cacct'[m] = cacct[m]
  OBVIOUS
<1>6. \A r \in Rooms : OnceEach(back'[r]) /\ Elems(back'[r]) \subseteq Elems(back[r]) \ {c}
  BY <1>1
<1> QED BY <1>2, <1>3, <1>4, <1>5, <1>6, MoveInv

\* The void and a channel that does not turn c away have not banned its account.
LEMMA LetIn ==
    ASSUME ChatInv, NEW c \in Conns, NEW p \in Rooms, NEW s,
           p = Void \/ ~TurnedAway(c, p, s) \/ p \in Emptied(c)
    PROVE  cacct[c] \notin BansAfter(c)[p]
BY RoomAssumption DEF ChatInv, BansOK, TurnedAway, BansAfter

\* Ban with a connection that is moved.
LEMMA BanInv ==
    ASSUME ConnInv, ChatInv, UNCHANGED connVars, NEW c \in Conns, NEW a \in Accounts,
           LoggedIn(c), Ban(c, a)
    PROVE  ChatInv'
<1> DEFINE r == where[c]
           b == connof[a]
<1>1. /\ ChatTypeOK /\ ListsAgree /\ BackOK /\ BansOK /\ UsersOK /\ BannedStayOut
      /\ Turn /\ IsOp(c) /\ a \notin Ops /\ back' = back
      /\ banned' = IF r = Void THEN banned ELSE [banned EXCEPT ![r] = @ \cup {a}]
  BY DEF ChatInv, Ban, LoggedIn
<1>2. r \in Rooms /\ where \in [Conns -> Rooms \cup {NoRoom}] /\ Void \in Rooms
      /\ banned \in [Rooms -> SUBSET Accounts] /\ back \in [Rooms -> Seq(Conns)]
  BY <1>1, RoomAssumption DEF ChatTypeOK, IsOp
<1>3. banned' \in [Rooms -> SUBSET Accounts]
  BY <1>1, <1>2
<1>4. r \in live
  BY <1>1, <1>2 DEF ListsAgree, Elems
<1>5. CASE ~ (Beside(c, a) /\ r # Void)
  <2>1. UNCHANGED <<live, members, where, op, seen, back>>
    BY <1>1, <1>5 DEF Ban
  <2>2. ChatTypeOK' /\ ListsAgree' /\ BackOK' /\ UsersOK'
    BY <1>1, <1>3, <2>1 DEF ChatTypeOK, ListsAgree, BackOK, UsersOK, Known, Returning
  <2>3. BansOK'
    BY <1>1, <1>2, <1>4, <2>1 DEF BansOK
  <2>4. BannedStayOut'
    <3>1. SUFFICES ASSUME NEW m \in Conns, cstate[m] = "loggedin", where[m] # NoRoom
                   PROVE  cacct[m] \notin banned'[where[m]]
      BY <2>1 DEF BannedStayOut
    <3>2. cacct[m] \notin banned[where[m]] /\ where[m] \in Rooms
      BY <1>1, <1>2, <3>1 DEF BannedStayOut
    <3>3. CASE where[m] = r /\ r # Void
      <4>1. ~Beside(c, a)
        BY <1>5, <3>3
      <4>2. connof[cacct[m]] = m /\ m # NoConn
        BY <3>1, ConnAssumption DEF ConnInv, OneLogin
      <4>3. cacct[m] # a
        BY <3>3, <4>1, <4>2 DEF Beside
      <4> QED BY <1>1, <1>2, <3>2, <3>3, <4>3
    <3>4. CASE where[m] # r \/ r = Void
      BY <1>1, <1>2, <3>2, <3>4
    <3> QED BY <3>3, <3>4
  <2> QED BY <2>2, <2>3, <2>4 DEF ChatInv
<1>6. CASE Beside(c, a) /\ r # Void
  <2>1. b \in Conns /\ where[b] = r /\ Place(b, Void)
    BY <1>1, <1>6 DEF Ban, Beside, ConnInv, ConnTypeOK
  <2>2. b # c
    <3>1. cacct[b] = a /\ cacct[c] \in Ops
      BY <1>1, <1>6 DEF ConnInv, OneLogin, Beside, IsOp
    <3> QED BY <1>1, <3>1
  <2>3. r \notin Emptied(b)
    BY <1>1, <1>2, <2>1, <2>2, EmptiedIs
  <2>4. \A s \in Rooms : back[s] = <<>> /\ Elems(back[s]) = {} /\ OnceEach(back[s])
    BY <1>1, NobodyBack
  <2>5. Known(b)
    BY <1>1, <1>2, <2>1, RoomAssumption DEF UsersOK, Names
  <2>6. /\ \A m \in Conns \ {b} : cstate'[m] = cstate[m] /\ cacct'[m] = cacct[m]
        /\ Known(b)'
        /\ back' \in [Rooms -> Seq(Conns)]
        /\ \A s \in Rooms : OnceEach(back'[s]) /\ Elems(back'[s]) \subseteq Elems(back[s]) \ {b}
        /\ (Returning' => sweep' = {})
    BY <1>1, <1>2, <2>4, <2>5 DEF Known, Turn, Returning
  <2>7. /\ ChatTypeOK' /\ ListsAgree' /\ BackOK' /\ UsersOK'
        /\ where' = [where EXCEPT ![b] = Void] /\ live' = Listed(b, Void)
    BY <1>2, <1>3, <2>1, <2>6, MoveKeeps
  <2>8. BansOK'
    <3>1. \A s \in Rooms \ live' : (s \notin live \/ s \in Emptied(b)) /\ s # r
      BY <1>4, <2>3, <2>7 DEF Listed
    <3>2. Emptied(b) = {}
      BY <2>1, <2>3 DEF Emptied
    <3> QED BY <1>1, <1>2, <1>6, <3>1, <3>2 DEF BansOK
  <2>9. BannedStayOut'
    <3>1. SUFFICES ASSUME NEW m \in Conns, cstate[m] = "loggedin", where'[m] # NoRoom
                   PROVE  cacct[m] \notin banned'[where'[m]]
      BY DEF BannedStayOut
    <3>2. CASE m = b
      BY <1>1, <1>2, <1>6, <2>1, <2>7, <3>2 DEF BansOK
    <3>3. CASE m # b
      <4>1. where'[m] = where[m] /\ where[m] \in Rooms
        BY <1>2, <2>7, <3>1, <3>3
      <4>2. cacct[m] \notin banned[where[m]]
        BY <1>1, <3>1, <4>1 DEF BannedStayOut
      <4>3. connof[cacct[m]] = m
        BY <3>1 DEF ConnInv, OneLogin
      <4>4. cacct[m] # a
        BY <3>3, <4>3
      <4> QED BY <1>1, <1>2, <4>1, <4>2, <4>4
    <3> QED BY <3>2, <3>3
  <2> QED BY <2>7, <2>8, <2>9 DEF ChatInv
<1> QED BY <1>5, <1>6

LEMMA ChatInvInit == ChatInit => ChatInv
<1> SUFFICES ASSUME ChatInit PROVE ChatInv
  OBVIOUS
<1> USE RoomAssumption DEF ChatInit, Names
<1>1. ChatTypeOK
  BY DEF ChatTypeOK
<1>2. ListsAgree
  BY DEF ListsAgree, Elems
<1>3. BackOK
  BY DEF BackOK, OnceEach, Elems, Returning
<1>4. BansOK /\ UsersOK /\ BannedStayOut
  BY DEF BansOK, UsersOK, BannedStayOut
<1> QED BY <1>1, <1>2, <1>3, <1>4 DEF ChatInv

\* Connections change without a step of any channel.
LEMMA CalmInv ==
    ASSUME ConnInv, ChatInv, UNCHANGED chatVars,
           \/ Turn /\ Calm
           \/ \E c \in Conns : Spare(c)
    PROVE  ChatInv'
<1>1. /\ ChatTypeOK /\ ListsAgree /\ BackOK /\ BansOK /\ UsersOK /\ BannedStayOut
      /\ ConnTypeOK
  BY DEF ChatInv, ConnInv
<1>2. ChatTypeOK' /\ ListsAgree' /\ BansOK'
  BY <1>1 DEF chatVars, ChatTypeOK, ListsAgree, BansOK
<1>3. \A c \in Conns : /\ Known(c) => Known(c)' /\ cacct'[c] = cacct[c]
                       /\ Known(c) /\ cstate'[c] = "loggedin" => cstate[c] = "loggedin"
  <2>1. CASE UNCHANGED connVars \/ StartSweep \/ \E c \in Conns : Spare(c)
    BY <2>1 DEF StartSweep, Spare, Known
  <2>2. ASSUME NEW d \in Conns, Accept(d) \/ Doom(d) \/ \E a \in Accounts : Login(d, a)
        PROVE  \A c \in Conns : /\ Known(c) => Known(c)' /\ cacct'[c] = cacct[c]
                                /\ Known(c) /\ cstate'[c] = "loggedin" => cstate[c] = "loggedin"
    BY <1>1, <2>2 DEF Accept, Doom, Login, Known, ConnTypeOK
  <2> QED BY <2>1, <2>2 DEF Calm
<1>4. UsersOK'
  BY <1>1, <1>3 DEF UsersOK, chatVars
<1>5. BannedStayOut'
  <2>1. SUFFICES ASSUME NEW c \in Conns, cstate'[c] = "loggedin", where[c] # NoRoom
                 PROVE  cacct'[c] \notin banned[where[c]]
    BY DEF BannedStayOut, chatVars
  <2> QED BY <1>1, <1>3, <2>1 DEF UsersOK, BannedStayOut
<1>6. BackOK'
  <2>1. Returning' = Returning
    BY DEF Returning, chatVars
  <2>2. Returning' => sweep' = {}
    <3>1. CASE Turn
      BY <2>1, <3>1 DEF Turn
    <3>2. ASSUME NEW c \in Conns, Spare(c) PROVE ~Returning
      BY <1>1, <3>2 DEF Spare, BackOK
    <3> QED BY <2>1, <3>1, <3>2
  <2>3. \A r \in Rooms : Elems(back[r]) \subseteq Conns
    BY <1>1 DEF ChatTypeOK, Elems
  <2>4. \A r \in Rooms : \A c \in Elems(back[r]) : where[c] = NoRoom /\ Known(c)'
    BY <1>1, <1>3, <2>3 DEF BackOK
  <2>5. back' = back /\ where' = where
    BY DEF chatVars
  <2> QED BY <1>1, <2>2, <2>4, <2>5 DEF BackOK
<1> QED BY <1>1, <1>2, <1>4, <1>5, <1>6 DEF ChatInv

\* A client acts.
LEMMA ChatByInv ==
    ASSUME ConnInv, ChatInv, UNCHANGED connVars, NEW c \in Conns, LoggedIn(c), ChatBy(c)
    PROVE  ChatInv'
<1> USE RoomAssumption DEF Names
<1>1. Turn /\ Known(c) /\ Void \in Rooms /\ where \in [Conns -> Rooms \cup {NoRoom}]
  BY DEF LoggedIn, Known, ConnInv, ChatInv, ChatTypeOK
<1>2. CASE Part(c)
  <2>1. CASE UNCHANGED chatVars
    BY <1>1, <2>1, CalmInv DEF Calm
  <2>2. CASE Place(c, NoRoom) /\ banned' = BansAfter(c) /\ UNCHANGED back
    BY <1>1, <2>2, ActMoves
  <2> QED BY <1>2, <2>1, <2>2 DEF Part
<1>3. ASSUME NEW r \in Rooms, Enter(c, r)
      PROVE  ChatInv'
  <2> DEFINE p == IF TurnedAway(c, r, members[r]) THEN Void ELSE r
  <2>1. p \in Rooms /\ cacct[c] \notin BansAfter(c)[p]
    BY <1>1, LetIn
  <2>2. Place(c, p) /\ banned' = BansAfter(c) /\ UNCHANGED back
    BY <1>3 DEF Enter
  <2> HIDE DEF p
  <2> QED BY <1>1, <2>1, <2>2, ActMoves
<1>4. CASE Reenter(c)
  <2> DEFINE r == where[c]
             p == IF TurnedAway(c, r, Without(members[r], c)) /\ r \notin Emptied(c)
                  THEN Void ELSE r
  <2>1. r \in Rooms
    BY <1>1, <1>4 DEF Reenter
  <2>2. p \in Rooms /\ cacct[c] \notin BansAfter(c)[p]
    BY <1>1, <2>1, LetIn
  <2>3. Place(c, p) /\ banned' = BansAfter(c) /\ UNCHANGED back
    BY <1>4 DEF Reenter
  <2> HIDE DEF p
  <2> QED BY <1>1, <2>2, <2>3, ActMoves
<1>5. ASSUME NEW a \in Accounts, NEW to \in {Void, NoRoom}, Kick(c, a, to)
      PROVE  ChatInv'
  <2> DEFINE b == connof[a]
  <2>1. /\ b \in Conns /\ Known(b)
        /\ Place(b, to) /\ banned' = BansAfter(b) /\ UNCHANGED back
    BY <1>1, <1>5 DEF Kick, Beside, ConnInv, ConnTypeOK, OneLogin, Known
  <2> HIDE DEF b
  <2>2. to # NoRoom => cacct[b] \notin BansAfter(b)[to]
    BY <1>1, <2>1, LetIn
  <2> QED BY <1>1, <2>1, <2>2, ActMoves
<1>6. ASSUME NEW a \in Accounts, Ban(c, a)
      PROVE  ChatInv'
  BY <1>6, BanInv
<1>7. ASSUME NEW a \in Accounts, Unban(c, a)
      PROVE  ChatInv'
  <2>1. /\ UNCHANGED <<live, members, where, op, seen, back>>
        /\ banned \in [Rooms -> SUBSET Accounts] /\ where[c] \in Rooms
    BY <1>1, <1>7 DEF Unban, IsOp, ChatInv, ChatTypeOK
  <2>2. /\ banned' \in [Rooms -> SUBSET Accounts]
        /\ \A r \in Rooms : banned'[r] \subseteq banned[r]
    BY <1>7, <2>1 DEF Unban
  <2>3. ChatTypeOK' /\ ListsAgree' /\ BackOK' /\ UsersOK'
    BY <2>1, <2>2 DEF ChatInv, ChatTypeOK, ListsAgree, BackOK, UsersOK, Known, Returning
  <2>4. BansOK' /\ BannedStayOut'
    BY <1>1, <2>1, <2>2 DEF ChatInv, BansOK, BannedStayOut
  <2> QED BY <2>3, <2>4 DEF ChatInv
<1>8. ASSUME NEW a \in Accounts, TmpOp(c, a) \/ Deop(c, a)
      PROVE  ChatInv'
  <2>1. /\ UNCHANGED <<live, members, where, banned, seen, back>>
        /\ op \in [Conns -> Rooms \cup {NoRoom}]
    BY <1>8 DEF TmpOp, Deop, ChatInv, ChatTypeOK
  <2>2. \/ op' = [op EXCEPT ![connof[a]] = where[c]] /\ where[connof[a]] = where[c]
        \/ op' = [op EXCEPT ![connof[a]] = NoRoom]
    BY <1>8 DEF TmpOp, Deop, Beside
  <2>3. op' \in [Conns -> Rooms \cup {NoRoom}] /\ \A m \in Conns : op'[m] \in {where[m], NoRoom}
    BY <1>1, <2>1, <2>2 DEF ChatInv, ListsAgree
  <2>4. ChatTypeOK' /\ ListsAgree'
    BY <2>1, <2>3 DEF ChatInv, ChatTypeOK, ListsAgree
  <2>5. BackOK' /\ UsersOK' /\ BansOK' /\ BannedStayOut'
    BY <2>1 DEF ChatInv, BackOK, UsersOK, Known, Returning, BansOK, BannedStayOut
  <2> QED BY <2>4, <2>5 DEF ChatInv
<1> QED BY <1>2, <1>3, <1>4, <1>5, <1>6, <1>7, <1>8 DEF ChatBy

LEMMA ReloadInv ==
    ASSUME ChatInv, UNCHANGED connVars, Turn, Reload
    PROVE  ChatInv'
<1> USE RoomAssumption DEF Names, Reload
<1>1. /\ ChatTypeOK /\ ListsAgree /\ UsersOK
      /\ \A r \in Rooms : members[r] \in Seq(Conns) /\ OnceEach(members[r])
  BY DEF ChatInv, ChatTypeOK, ListsAgree, OnceEach
<1>2. ASSUME NEW r \in Rooms
      PROVE  /\ back'[r] \in Seq(Conns) /\ OnceEach(back'[r])
             /\ Elems(back'[r]) = {m \in Conns : where[m] = r}
  <2>1. back'[r] = Reverse(members[r])
    BY DEF Saved
  <2>2. Elems(members[r]) = {m \in Conns : where[m] = r}
    BY <1>1 DEF ListsAgree
  <2> QED BY <1>1, <2>1, <2>2, ReverseElems
<1>3. back' \in [Rooms -> Seq(Conns)]
  BY <1>2 DEF Saved
<1>4. ChatTypeOK'
  BY <1>3 DEF ChatTypeOK
<1>5. ListsAgree'
  BY DEF ListsAgree, Elems
<1>6. BackOK'
  <2>1. \A r \in Rooms : \A m \in Elems(back'[r]) : m \in Conns /\ where[m] = r /\ where[m] # NoRoom
    BY <1>2
  <2>2. \A r \in Rooms : \A m \in Elems(back'[r]) : where'[m] = NoRoom /\ Known(m)'
    BY <1>1, <2>1 DEF UsersOK, Known
  <2>3. ASSUME NEW r \in Rooms, NEW s \in Rooms, NEW m \in Elems(back'[r]), m \in Elems(back'[s])
        PROVE  r = s
    <3>1. where[m] = r /\ where[m] = s
      BY <2>1, <2>3
    <3> QED BY <3>1
  <2>4. sweep' = {}
    BY DEF Turn
  <2> QED BY <1>2, <2>2, <2>3, <2>4 DEF BackOK
<1>7. BansOK' /\ UsersOK' /\ BannedStayOut'
  BY DEF BansOK, UsersOK, BannedStayOut
<1> QED BY <1>4, <1>5, <1>6, <1>7 DEF ChatInv

LEMMA SendBackInv ==
    ASSUME ChatInv, UNCHANGED connVars, NEW r \in Rooms, NEW t \in Rooms, SendBack(r, t)
    PROVE  ChatInv'
<1>1. /\ ChatTypeOK /\ BackOK
      /\ back[r] # <<>> /\ back \in [Rooms -> Seq(Conns)]
      /\ back' = [back EXCEPT ![r] = Tail(@)]
  BY DEF ChatInv, ChatTypeOK, SendBack
<1>2. PICK c \in Conns :
      /\ c = Head(back[r]) /\ c \in Elems(back[r])
      /\ Tail(back[r]) \in Seq(Conns)
      /\ Elems(Tail(back[r])) \subseteq Elems(back[r]) \ {c}
      /\ OnceEach(Tail(back[r]))
  BY <1>1, TailElems DEF BackOK
<1>3. back' \in [Rooms -> Seq(Conns)] /\ back'[r] = Tail(back[r])
         /\ \A s \in Rooms \ {r} : back'[s] = back[s]
  BY <1>1, <1>2
<1>4. \A s \in Rooms : OnceEach(back'[s]) /\ Elems(back'[s]) \subseteq Elems(back[s]) \ {c}
  BY <1>1, <1>2, <1>3 DEF BackOK
<1>5. sweep' = {} /\ Known(c) /\ Known(c)'
  <2>1. sweep = {}
    BY <1>1 DEF BackOK, Returning
  <2>2. Known(c)
    BY <1>1, <1>2 DEF BackOK
  <2>3. Known(c)' = Known(c)
    BY DEF Known
  <2> QED BY <2>1, <2>2, <2>3
<1>6. CASE TurnedAway(c, t, members[t])
  <2>1. UNCHANGED <<live, members, where, op, seen, banned>>
    BY <1>2, <1>6 DEF SendBack
  <2>2. ChatTypeOK'
    BY <1>1, <1>3, <2>1 DEF ChatTypeOK
  <2>3. ListsAgree' /\ BansOK' /\ UsersOK' /\ BannedStayOut'
    BY <2>1 DEF ChatInv, ListsAgree, BansOK, UsersOK, Known, BannedStayOut
  <2>4. BackOK'
    <3>1. \A s \in Rooms : \A m \in Elems(back'[s]) : where'[m] = NoRoom /\ Known(m)'
      BY <1>1, <1>4, <2>1 DEF BackOK, Known
    <3>2. \A s, q \in Rooms : \A m \in Elems(back'[s]) : m \in Elems(back'[q]) => s = q
      BY <1>1, <1>4 DEF BackOK
    <3> QED BY <1>4, <1>5, <3>1, <3>2 DEF BackOK
  <2> QED BY <2>2, <2>3, <2>4 DEF ChatInv
<1>7. CASE ~TurnedAway(c, t, members[t])
  <2>1. Place(c, t) /\ banned' = BansAfter(c)
    BY <1>2, <1>7 DEF SendBack
  <2>2. cacct'[c] \notin BansAfter(c)[t]
    BY <1>2, <1>7, LetIn
  <2>3. \A m \in Conns \ {c} : cstate'[m] = cstate[m] /\ cacct'[m] = cacct[m]
    OBVIOUS
  <2> QED BY <1>2, <1>3, <1>4, <1>5, <2>1, <2>2, <2>3, MoveInv
<1> QED BY <1>6, <1>7

LEMMA ChatInvNext ==
    ASSUME ConnInv, ChatInv, ChatMove
    PROVE  ChatInv'
<1>1. CASE UNCHANGED <<connVars, chatVars>>
  BY <1>1 DEF chatVars, ChatInv, ChatTypeOK, ListsAgree, BackOK, BansOK, UsersOK, Known,
              BannedStayOut, Returning
<1>2. CASE Turn /\ Calm /\ UNCHANGED chatVars
  BY <1>2, CalmInv
<1>3. CASE \E c \in Conns : Spare(c) /\ UNCHANGED chatVars
  BY <1>3, CalmInv
<1>4. ASSUME NEW c \in Conns, Free(c), Part(c)
      PROVE  ChatInv'
  <2>1. /\ c \in sweep /\ ~Returning
        /\ \A m \in Conns \ {c} : cstate'[m] = cstate[m] /\ cacct'[m] = cacct[m]
    BY <1>4 DEF Free, ChatInv, BackOK
  <2>2. \A r \in Rooms : back[r] = <<>> /\ Elems(back[r]) = {} /\ OnceEach(back[r])
    BY <2>1 DEF Returning, Elems, OnceEach
  <2>3. CASE where[c] = NoRoom
    <3>1. UNCHANGED chatVars
      BY <1>4, <2>3 DEF Part
    <3>2. ChatTypeOK' /\ ListsAgree' /\ BansOK'
      BY <3>1 DEF chatVars, ChatInv, ChatTypeOK, ListsAgree, BansOK
    <3>3. UsersOK'
      BY <2>1, <2>3, <3>1 DEF chatVars, ChatInv, UsersOK, Known
    <3>4. BannedStayOut'
      BY <2>1, <2>3, <3>1 DEF chatVars, ChatInv, BannedStayOut
    <3>5. BackOK'
      BY <2>1, <2>2, <3>1 DEF chatVars, BackOK, Returning, Elems
    <3> QED BY <3>2, <3>3, <3>4, <3>5 DEF ChatInv
  <2>4. CASE where[c] # NoRoom
    <3>1. Place(c, NoRoom) /\ banned' = BansAfter(c) /\ UNCHANGED back
      BY <1>4, <2>4 DEF Part
    <3>2. back' \in [Rooms -> Seq(Conns)] /\ ~Returning'
      BY <2>1, <3>1 DEF ChatInv, ChatTypeOK, Returning
    <3>3. \A r \in Rooms : OnceEach(back'[r]) /\ Elems(back'[r]) \subseteq Elems(back[r]) \ {c}
      BY <2>2, <3>1
    <3> QED BY <2>1, <3>1, <3>2, <3>3, MoveInv
  <2> QED BY <2>3, <2>4
<1>5. ASSUME UNCHANGED connVars, NEW c \in Conns, LoggedIn(c), ChatBy(c)
      PROVE  ChatInv'
  BY <1>5, ChatByInv
<1>6. CASE UNCHANGED connVars /\ Turn /\ Reload
  BY <1>6, ReloadInv
<1>7. ASSUME UNCHANGED connVars, NEW r \in Rooms, NEW t \in Rooms, SendBack(r, t)
      PROVE  ChatInv'
  BY <1>7, SendBackInv
<1> QED BY <1>1, <1>2, <1>3, <1>4, <1>5, <1>6, <1>7 DEF ChatMove

LEMMA ChatInvAlways == Spec => []ChatInv
<1>1. Init => ChatInv
  BY ChatInvInit DEF Init
<1>2. ConnInv /\ ChatInv /\ [Next]_vars => ChatInv'
  BY NextChat, ChatInvNext
<1> QED BY <1>1, <1>2, ConnInvAlways, PTL DEF Spec

\* The list of members of every channel holds just those whose channel pointer names it,
\* each once; channels in use are listed and empty temporary ones are not; nobody is a
\* temporary operator of a channel other than the one it is in.
THEOREM ChannelListsAgree == Spec => []ListsAgree
<1>1. ChatInv => ListsAgree
  BY DEF ChatInv
<1> QED BY <1>1, ChatInvAlways, PTL

\* No account is logged in in a channel it is banned from, whoever joins, is moved or sent
\* back, and whatever becomes of channels and their ban lists meanwhile.
THEOREM BannedKeptOut == Spec => []BannedStayOut
<1>1. ChatInv => BannedStayOut
  BY DEF ChatInv
<1> QED BY <1>1, ChatInvAlways, PTL

-----------------------------------------------------------------------------
(***************************************************************************)
(* Room in channels, and what the clients show.  For these a step moves    *)
(* one connection, empties all channels, or changes no list of members.    *)
(***************************************************************************)

Fit(c, p) == p \in {NoRoom, Void} \/ cacct[c] \in Ops \/ Room(p, Stay(c, p))

ListMove ==
    \/ UNCHANGED <<members, where, seen>>
    \/ \E c \in Conns, p \in Rooms \cup {NoRoom} : Place(c, p) /\ Fit(c, p)
    \/ /\ members' = [r \in Rooms |-> <<>>]
       /\ where' = [c \in Conns |-> NoRoom]
       /\ seen' = [c \in Conns |-> {}]

\* A channel that does not turn c away has room for it.
LEMMA RoomIfLetIn ==
    ASSUME ChatInv, NEW c \in Conns, NEW r \in Rooms,
           ~TurnedAway(c, r, Stay(c, r)) \/ r \in Emptied(c)
    PROVE  Fit(c, r)
<1>1. ChatTypeOK /\ ListsAgree
  BY DEF ChatInv
<1>2. /\ Stay(c, r) \in Seq(Conns)
      /\ Elems(Stay(c, r)) = {m \in Conns : where[m] = r} \ {c}
  BY <1>1, StayElems
<1>3. CASE r \in live /\ r \notin Emptied(c)
  BY <1>3 DEF Fit, TurnedAway
<1>4. CASE r \notin live \/ r \in Emptied(c)
  <2>1. {m \in Conns : where[m] = r} \ {c} = {}
    <3>1. CASE r \in Emptied(c)
      BY <1>1, <3>1, EmptiedIs
    <3>2. CASE r \notin live
      BY <1>1, <3>2 DEF ListsAgree, Elems
    <3> QED BY <1>4, <3>1, <3>2
  <2>2. Stay(c, r) = <<>>
    BY <1>2, <2>1, NonEmptyElems
  <2>3. Cap[r] = -1 \/ 0 < Cap[r]
    BY RoomAssumption
  <2> QED BY <2>2, <2>3 DEF Fit, Room
<1> QED BY <1>3, <1>4

LEMMA ChatByLists ==
    ASSUME ConnInv, ChatInv, NEW c \in Conns, ChatBy(c)
    PROVE  ListMove
<1> USE RoomAssumption
<1>1. CASE Part(c)
  BY <1>1 DEF Part, ListMove, chatVars, Fit
<1>2. ASSUME NEW r \in Rooms \ {where[c]}, Enter(c, r)
      PROVE  ListMove
  <2>1. Stay(c, r) = members[r]
    BY DEF Stay
  <2>2. ~TurnedAway(c, r, members[r]) => Fit(c, r)
    BY <2>1, RoomIfLetIn
  <2> QED BY <1>2, <2>2 DEF Enter, ListMove, Fit
<1>3. CASE Reenter(c)
  <2> DEFINE r == where[c]
  <2>1. r \in Rooms /\ Stay(c, r) = Without(members[r], c)
    BY <1>3 DEF Reenter, ChatInv, ChatTypeOK, Stay
  <2>2. ~TurnedAway(c, r, Without(members[r], c)) \/ r \in Emptied(c) => Fit(c, r)
    BY <2>1, RoomIfLetIn
  <2>3. \E p \in {Void, r} : Place(c, p) /\ Fit(c, p)
    BY <1>3, <2>2 DEF Reenter, Fit
  <2> QED BY <2>1, <2>3 DEF ListMove
<1>4. ASSUME NEW a \in Accounts, \/ \E to \in {Void, NoRoom} : Kick(c, a, to)
                                 \/ Ban(c, a) \/ Unban(c, a) \/ TmpOp(c, a) \/ Deop(c, a)
      PROVE  ListMove
  <2>1. where[c] # NoRoom /\ (Beside(c, a) => connof[a] \in Conns)
    BY <1>4 DEF Kick, Ban, Unban, TmpOp, Deop, IsOp, IsAnyOp, Beside, ConnInv, ConnTypeOK
  <2>2. CASE \E to \in {Void, NoRoom} : Kick(c, a, to)
    BY <2>1, <2>2 DEF Kick, ListMove, Fit
  <2>3. CASE Ban(c, a)
    BY <2>1, <2>3 DEF Ban, ListMove, Fit
  <2>4. CASE Unban(c, a) \/ TmpOp(c, a) \/ Deop(c, a)
    BY <2>4 DEF Unban, TmpOp, Deop, ListMove
  <2> QED BY <1>4, <2>2, <2>3, <2>4
<1> QED BY <1>1, <1>2, <1>3, <1>4 DEF ChatBy

LEMMA ChatMoveLists ==
    ASSUME ConnInv, ChatInv, ChatMove
    PROVE  ListMove /\ \A m \in Conns : where'[m] # NoRoom => cacct'[m] = cacct[m]
<1>1. ListMove
  <2>1. CASE UNCHANGED chatVars
    BY <2>1 DEF chatVars, ListMove
  <2>2. ASSUME NEW c \in Conns, ChatBy(c) PROVE ListMove
    BY <2>2, ChatByLists
  <2>3. CASE Reload
    BY <2>3 DEF Reload, ListMove
  <2>4. ASSUME NEW r \in Rooms, NEW t \in Rooms, SendBack(r, t) PROVE ListMove
    <3>1. PICK c \in Conns : c = Head(back[r]) /\ where[c] = NoRoom
      BY <2>4, TailElems DEF SendBack, ChatInv, ChatTypeOK, BackOK
    <3>2. Stay(c, t) = members[t]
      BY <3>1, RoomAssumption DEF Stay, Names
    <3>3. CASE TurnedAway(c, t, members[t])
      BY <2>4, <3>1, <3>3 DEF SendBack, ListMove
    <3>4. CASE ~TurnedAway(c, t, members[t])
      <4>1. Fit(c, t)
        BY <3>2, <3>4, RoomIfLetIn
      <4> QED BY <2>4, <3>1, <3>4, <4>1 DEF SendBack, ListMove
    <3> QED BY <3>3, <3>4
  <2> QED BY <2>1, <2>2, <2>3, <2>4 DEF ChatMove, ChatBy
<1>2. ASSUME NEW m \in Conns, where'[m] # NoRoom
      PROVE  cacct'[m] = cacct[m]
  <2>1. CASE UNCHANGED connVars
    BY <2>1
  <2>2. CASE UNCHANGED chatVars /\ (Calm \/ \E c \in Conns : Spare(c))
    <3>1. Known(m)
      BY <1>2, <2>2 DEF ChatInv, UsersOK, chatVars
    <3> QED BY <2>2, <3>1 DEF Calm, StartSweep, Accept, Doom, Spare, Login, Known,
                              ConnInv, ConnTypeOK
  <2>3. ASSUME NEW c \in Conns, Free(c), Part(c) PROVE cacct'[m] = cacct[m]
    <3>1. m # c
      BY <1>2, <2>3 DEF Part, Place, ChatInv, ChatTypeOK, chatVars
    <3> QED BY <2>3, <3>1 DEF Free
  <2> QED BY <2>1, <2>2, <2>3 DEF ChatMove
<1> QED BY <1>1, <1>2

\* Those in the list s came in when there was room for them under the maximum n.
Fits(s, n) == \A i \in DOMAIN s : cacct[s[i]] \in Ops \/ n = -1 \/ Len(s) - i < n

LEMMA WithoutFits ==
    ASSUME NEW s \in Seq(Conns), NEW c, OnceEach(s), NEW n \in Int, Fits(s, n)
    PROVE  Fits(Without(s, c), n)
<1>1. CASE c \notin Elems(s)
  BY <1>1 DEF Without
<1>2. CASE c \in Elems(s)
  <2> DEFINE t == Without(s, c)
  <2>1. PICK k \in 1..Len(s) :
              /\ s[k] = c
              /\ t \in Seq(Conns)
              /\ Len(t) = Len(s) - 1
              /\ \A i \in 1..(Len(s) - 1) : t[i] = IF i < k THEN s[i] ELSE s[i + 1]
    BY <1>2, WithoutOne
  <2> HIDE DEF t
  <2>2. DOMAIN t = 1..(Len(s) - 1) /\ DOMAIN s = 1..Len(s) /\ Len(s) \in Nat
    BY <2>1
  <2>3. ASSUME NEW i \in DOMAIN t, cacct[t[i]] \notin Ops, n # -1 PROVE Len(t) - i < n
    <3>1. i \in Nat
      BY <2>2
    <3>2. CASE i < k
      BY <2>1, <2>2, <2>3, <3>1, <3>2 DEF Fits
    <3>3. CASE ~ (i < k)
      <4>1. i + 1 \in DOMAIN s /\ t[i] = s[i + 1]
        BY <2>1, <2>2, <3>1, <3>3
      <4>2. Len(s) - (i + 1) < n
        BY <2>3, <4>1 DEF Fits
      <4> QED BY <2>1, <2>2, <3>1, <4>2
    <3> QED BY <3>2, <3>3
  <2> QED BY <2>3 DEF Fits, t
<1> QED BY <1>1, <1>2

LEMMA RoomFitsNext ==
    ASSUME ConnInv, ChatInv, RoomFits, ChatMove
    PROVE  RoomFits'
<1>1. /\ ChatTypeOK /\ ListsAgree
      /\ \A r \in Rooms : members[r] \in Seq(Conns) /\ OnceEach(members[r]) /\ Cap[r] \in Int
      /\ \A r \in Rooms : Fits(members[r], Cap[r])
  BY RoomAssumption DEF ChatInv, ChatTypeOK, ListsAgree, OnceEach, RoomFits, Fits
<1>2. ListMove /\ \A m \in Conns : where'[m] # NoRoom => cacct'[m] = cacct[m]
  BY ChatMoveLists
<1>3. ChatInv'
  BY ChatInvNext
<1>4. ASSUME NEW r \in Rooms PROVE \A i \in DOMAIN members'[r] : cacct'[members'[r][i]] = cacct[members'[r][i]]
  <2>1. Elems(members'[r]) = {m \in Conns : where'[m] = r} /\ r # NoRoom
    BY <1>3, RoomAssumption DEF ChatInv, ListsAgree, Names
  <2> QED BY <1>2, <2>1 DEF Elems
<1>5. SUFFICES ASSUME NEW r \in Rooms PROVE Fits(members'[r], Cap[r])
  BY <1>4 DEF RoomFits, Fits
<1>6. CASE UNCHANGED <<members, where, seen>>
  BY <1>1, <1>6
<1>7. CASE members' = [x \in Rooms |-> <<>>]
  BY <1>7 DEF Fits
<1>8. ASSUME NEW c \in Conns, NEW p \in Rooms \cup {NoRoom}, Place(c, p), Fit(c, p)
      PROVE  Fits(members'[r], Cap[r])
  <2>1. members' = [x \in Rooms |-> IF x = p THEN <<c>> \o Stay(c, x) ELSE Stay(c, x)]
    BY <1>1, <1>8, PlaceParts
  <2>2. Fits(Stay(c, r), Cap[r])
    BY <1>1, WithoutFits DEF Stay
  <2>3. CASE r # p
    BY <2>1, <2>2, <2>3
  <2>4. CASE r = p
    <3> DEFINE s == Stay(c, r)
               t == <<c>> \o s
    <3>1. members'[r] = t
      BY <2>1, <2>4
    <3>2. s \in Seq(Conns) /\ c \notin Elems(s) /\ OnceEach(s)
      BY <1>1, StayElems
    <3> HIDE DEF s
    <3>3. /\ t \in Seq(Conns) /\ Len(t) = Len(s) + 1 /\ Len(s) \in Nat
          /\ \A i \in 1..(Len(s) + 1) : t[i] = IF i = 1 THEN c ELSE s[i - 1]
      BY <3>2, PrependElems
    <3>4. cacct[c] \in Ops \/ Cap[r] = -1 \/ Len(s) < Cap[r]
      BY <1>8, <2>4, RoomAssumption DEF Fit, Room, Names, s
    <3> HIDE DEF t
    <3>5. Fits(t, Cap[r])
      <4>1. DOMAIN t = 1..(Len(s) + 1) /\ DOMAIN s = 1..Len(s) /\ Cap[r] \in Int
        BY <1>1, <3>2, <3>3
      <4>2. SUFFICES ASSUME NEW i \in DOMAIN t, cacct[t[i]] \notin Ops, Cap[r] # -1
                     PROVE  Len(t) - i < Cap[r]
        BY DEF Fits
      <4>3. CASE i = 1
        BY <3>3, <3>4, <4>1, <4>2, <4>3
      <4>4. CASE i # 1
        <5>1. i - 1 \in DOMAIN s /\ t[i] = s[i - 1] /\ i \in Nat
          BY <3>3, <4>1, <4>4
        <5>2. Len(s) - (i - 1) < Cap[r]
          BY <2>2, <4>2, <5>1 DEF Fits, s
        <5> QED BY <3>3, <4>1, <5>1, <5>2
      <4> QED BY <4>3, <4>4
    <3> QED BY <3>1, <3>5
  <2> QED BY <2>3, <2>4
<1> QED BY <1>2, <1>6, <1>7, <1>8 DEF ListMove

\* No channel takes in more than its maximum but for operators and admins: neither those
\* who join, nor those sent back after a reload, nor a copy made for them.
THEOREM ChannelsHaveRoom == Spec => []RoomFits
<1>1. Init => RoomFits
  BY DEF Init, ChatInit, RoomFits
<1>2. ConnInv /\ ChatInv /\ RoomFits /\ [Next]_vars => RoomFits'
  BY NextChat, RoomFitsNext
<1> QED BY <1>1, <1>2, ConnInvAlways, ChatInvAlways, PTL DEF Spec

LEMMA ViewsNext ==
    ASSUME Muted = {}, ConnInv, ChatInv, ViewsFollow, ChatMove
    PROVE  ViewsFollow'
<1>1. /\ ChatTypeOK /\ ListsAgree
      /\ where \in [Conns -> Rooms \cup {NoRoom}] /\ seen \in [Conns -> SUBSET Conns]
  BY DEF ChatInv, ChatTypeOK
<1>2. ListMove
  BY ChatMoveLists
<1>3. CASE UNCHANGED <<members, where, seen>>
  BY <1>3 DEF ViewsFollow
<1>4. CASE where' = [c \in Conns |-> NoRoom]
  BY <1>4 DEF ViewsFollow
<1>5. ASSUME NEW c \in Conns, NEW p \in Rooms \cup {NoRoom}, Place(c, p)
      PROVE  ViewsFollow'
  <2>1. SUFFICES ASSUME NEW m \in Conns, where'[m] \notin {NoRoom, Void}
                 PROVE  seen'[m] = {x \in Conns : where'[x] = where'[m]} \ {m}
    BY DEF ViewsFollow
  <2>2. where'[c] = p /\ \A x \in Conns \ {c} : where'[x] = where[x]
    <3>1. where' = [where EXCEPT ![c] = p]
      BY <1>1, <1>5, PlaceParts
    <3> QED BY <1>1, <3>1
  <2>3. \A x \in Rooms : Elems(Stay(c, x)) = {y \in Conns : where[y] = x} \ {c}
    BY <1>1, StayElems
  <2>4. \A x \in Rooms : Stay(c, x) = IF x = where[c] THEN Without(members[x], c) ELSE members[x]
    BY DEF Stay
  <2>5. CASE m = c
    <3>1. p \in Rooms /\ p \notin {NoRoom, Void}
      BY <2>1, <2>2, <2>5
    <3>2. seen'[c] = Elems(Stay(c, p))
      BY <1>5, <2>4, <3>1 DEF Place
    <3> QED BY <2>2, <2>3, <2>5, <3>1, <3>2
  <2>6. CASE m # c
    <3>1. where[m] \notin {NoRoom, Void} /\ where[m] \in Rooms /\ where'[m] = where[m]
      BY <1>1, <2>1, <2>2, <2>6
    <3>2. seen[m] = {x \in Conns : where[x] = where[m]} \ {m}
      BY <3>1 DEF ViewsFollow
    <3>3. seen'[m] =
             (seen[m] \ {x \in {c} : /\ where[c] # NoRoom /\ m \in Elems(members[where[c]])
                                     /\ Announced(c, where[c])})
             \cup {x \in {c} : p \notin {NoRoom, Void} /\ m \in Elems(Stay(c, p))}
      BY <1>5, <2>4, <2>6 DEF Place
    <3>4. ASSUME where[c] = where[m]
          PROVE  where[c] # NoRoom /\ m \in Elems(members[where[c]]) /\ Announced(c, where[c])
      BY <1>1, <3>1, <3>4 DEF ListsAgree, Announced
    <3>5. p \notin {NoRoom, Void} /\ m \in Elems(Stay(c, p)) <=> p = where[m]
      BY <2>3, <2>6, <3>1
    <3>6. seen'[m] = (seen[m] \ {c}) \cup {x \in {c} : p = where[m]}
      <4>1. c \in seen[m] => where[c] = where[m]
        BY <3>2
      <4> QED BY <3>3, <3>4, <3>5, <4>1
    <3> QED BY <2>2, <2>6, <3>1, <3>2, <3>6
  <2> QED BY <2>5, <2>6
<1> QED BY <1>2, <1>3, <1>4, <1>5 DEF ListMove

\* When no account is muted, every client shows just the others in its channel, after any
\* order of joins, kicks, bans, lost connections and reloads.
THEOREM ClientsShowMembers == Muted = {} /\ Spec => []ViewsFollow
<1>1. Muted = {} /\ Init => ViewsFollow
  BY DEF Init, ChatInit, ViewsFollow
<1>2. Muted = {} /\ ConnInv /\ ChatInv /\ ViewsFollow /\ [Next]_vars => ViewsFollow'
  BY NextChat, ViewsNext
<1>3. CASE Muted = {}
  <2>1. Init => ViewsFollow
    BY <1>1, <1>3
  <2>2. ConnInv /\ ChatInv /\ ViewsFollow /\ [Next]_vars => ViewsFollow'
    BY <1>2, <1>3
  <2> QED BY <2>1, <2>2, ConnInvAlways, ChatInvAlways, PTL DEF Spec
<1> QED BY <1>3

-----------------------------------------------------------------------------
(***************************************************************************)
(* Reading the configuration again.  Members are asked for by the short    *)
(* name of their channel.  That finds a channel of that full name first,   *)
(* whatever its own short name, so the hypothesis is that no channel has   *)
(* for its name what is the short name of another.                         *)
(***************************************************************************)

OwnName == \A r \in Rooms : Short[r] \in Rooms => Short[r] = r

\* Those in the list s, in that order, still find room beside k others under the maximum n.
WillFit(s, k, n) == \A i \in DOMAIN s : cacct[s[i]] \in Ops \/ n = -1 \/ k + i - 1 < n

\* While members are sent back nobody is banned, and those of a channel without copies
\* find room in it.
ReturnInv ==
    /\ Returning => \A r \in Rooms : banned[r] = {}
    /\ \A r \in Rooms : Short[r] = r => WillFit(back[r], Len(members[r]), Cap[r])

\* Once turned around, a list that has always had room goes back into the empty channel.
LEMMA ReverseFits ==
    ASSUME NEW s \in Seq(Conns), NEW n \in Int, Fits(s, n)
    PROVE  WillFit(Reverse(s), 0, n)
<1> DEFINE t == Reverse(s)
<1>1. t \in Seq(Conns) /\ Len(t) = Len(s) /\ \A i \in 1..Len(s) : t[i] = s[(Len(s) - i) + 1]
  BY DEF Reverse
<1> HIDE DEF t
<1>2. ASSUME NEW i \in DOMAIN t
      PROVE  cacct[t[i]] \in Ops \/ n = -1 \/ 0 + i - 1 < n
  <2> DEFINE j == (Len(s) - i) + 1
  <2>1. i \in 1..Len(s) /\ DOMAIN s = 1..Len(s) /\ Len(s) \in Nat
    BY <1>1
  <2>2. j \in 1..Len(s) /\ Len(s) - j = 0 + i - 1
    BY ONLY <2>1
  <2>3. t[i] = s[j]
    BY <1>1, <2>1
  <2> HIDE DEF j
  <2> QED BY <2>1, <2>2, <2>3 DEF Fits
<1> QED BY <1>2 DEF WillFit, t

\* The first of a list has gone in: the others still fit.
LEMMA TailFits ==
    ASSUME NEW s \in Seq(Conns), s # <<>>, NEW k \in Nat, NEW n \in Int, WillFit(s, k, n)
    PROVE  WillFit(Tail(s), k + 1, n)
<1>1. /\ Len(s) \in Nat /\ Len(s) >= 1
      /\ DOMAIN s = 1..Len(s) /\ DOMAIN Tail(s) = 1..(Len(s) - 1)
      /\ \A i \in 1..(Len(s) - 1) : Tail(s)[i] = s[i + 1]
  OBVIOUS
<1>2. ASSUME NEW i \in DOMAIN Tail(s)
      PROVE  cacct[Tail(s)[i]] \in Ops \/ n = -1 \/ (k + 1) + i - 1 < n
  <2>1. i \in Int /\ i + 1 \in DOMAIN s /\ Tail(s)[i] = s[i + 1]
    BY <1>1
  <2>2. k + (i + 1) - 1 = (k + 1) + i - 1
    BY <2>1
  <2>3. cacct[s[i + 1]] \in Ops \/ n = -1 \/ k + (i + 1) - 1 < n
    BY <2>1 DEF WillFit
  <2> QED BY <2>1, <2>2, <2>3
<1> QED BY <1>2 DEF WillFit

\* Who is sent back lands in a channel of the same short name and is let in.
LEMMA SentHome ==
    ASSUME OwnName, ChatInv, ReturnInv, NEW r \in Rooms, NEW t \in Rooms, SendBack(r, t)
    PROVE  Short[t] = Short[r] /\ ~TurnedAway(Head(back[r]), t, members[t])
<1> DEFINE n == Short[r]
           c == Head(back[r])
<1>1. /\ back[r] # <<>> /\ back[r] \in Seq(Conns) /\ live \subseteq Rooms
      /\ members[r] \in Seq(Conns)
  BY DEF SendBack, ChatInv, ChatTypeOK
<1>2. banned[t] = {}
  BY <1>1 DEF ReturnInv, Returning
<1>3. LeadsTo(n, t)
  BY DEF SendBack
<1>4. CASE n \in live /\ t = n
  <2>1. t = r /\ Short[r] = r
    BY <1>1, <1>4 DEF OwnName
  <2>2. 1 \in DOMAIN back[r] /\ c = back[r][1] /\ Len(members[r]) \in Nat
    BY <1>1
  <2>3. cacct[c] \in Ops \/ Cap[r] = -1 \/ Len(members[r]) + 1 - 1 < Cap[r]
    BY <2>1, <2>2 DEF ReturnInv, WillFit
  <2>4. Len(members[r]) + 1 - 1 = Len(members[r])
    BY <2>2
  <2>5. cacct[c] \in Ops \/ Room(r, members[r])
    BY <2>3, <2>4 DEF Room
  <2> QED BY <1>2, <2>1, <2>5 DEF TurnedAway
<1>5. CASE t \in Roomy(n)
  BY <1>2, <1>5 DEF Roomy, Copies, TurnedAway
<1>6. CASE t \notin live /\ Short[t] = n
  BY <1>6 DEF TurnedAway
<1>7. CASE n \notin live /\ t = n
  <2>1. t = r
    BY <1>7 DEF OwnName
  <2> QED BY <1>7, <2>1 DEF TurnedAway
<1> QED BY <1>3, <1>4, <1>5, <1>6, <1>7 DEF LeadsTo

LEMMA ReloadReturn ==
    ASSUME ChatInv, RoomFits, UNCHANGED connVars, Turn, Reload
    PROVE  ReturnInv'
<1>1. \A r \in Rooms : banned'[r] = {}
  BY DEF Reload
<1>2. ASSUME NEW r \in Rooms PROVE (WillFit(back[r], Len(members[r]), Cap[r]))'
  <2>1. members[r] \in Seq(Conns) /\ Cap[r] \in Int /\ Fits(members[r], Cap[r])
    BY RoomAssumption DEF ChatInv, ChatTypeOK, RoomFits, Fits
  <2>2. WillFit(Reverse(members[r]), 0, Cap[r])
    BY <2>1, ReverseFits
  <2>3. back'[r] = Reverse(members[r]) /\ members'[r] = <<>> /\ cacct' = cacct
    BY DEF Reload, Saved, connVars
  <2>4. Len(members'[r]) = 0
    BY <2>3
  <2> QED BY <2>2, <2>3, <2>4 DEF WillFit
<1> QED BY <1>1, <1>2 DEF ReturnInv

LEMMA SendBackReturn ==
    ASSUME OwnName, ChatInv, ReturnInv, UNCHANGED connVars,
           NEW r \in Rooms, NEW t \in Rooms, SendBack(r, t)
    PROVE  /\ ReturnInv'
           /\ where'[Head(back[r])] = t /\ Short[t] = Short[r]
           /\ \A s \in Rooms \ {r} : back'[s] = back[s]
<1> DEFINE c == Head(back[r])
<1>1. /\ ChatTypeOK /\ ListsAgree /\ BackOK
      /\ back[r] # <<>> /\ back \in [Rooms -> Seq(Conns)]
      /\ back' = [back EXCEPT ![r] = Tail(@)]
      /\ where \in [Conns -> Rooms \cup {NoRoom}]
  BY DEF ChatInv, ChatTypeOK, SendBack
<1>2. c \in Conns /\ where[c] = NoRoom
  BY <1>1, TailElems DEF BackOK
<1>3. Short[t] = Short[r] /\ ~TurnedAway(c, t, members[t])
  BY SentHome
<1>4. Place(c, t) /\ banned' = BansAfter(c)
  BY <1>3 DEF SendBack
<1>5. where'[c] = t
  <2>1. where' = [where EXCEPT ![c] = t]
    BY <1>1, <1>2, <1>4, PlaceParts
  <2> QED BY <1>1, <1>2, <2>1
<1>6. /\ members'[t] = <<c>> \o members[t] /\ members[t] \in Seq(Conns)
      /\ \A s \in Rooms \ {t} : members'[s] = members[s]
  <2>1. \A s \in Rooms : Stay(c, s) = members[s]
    BY <1>2, RoomAssumption DEF Stay, Names
  <2>2. members' = [x \in Rooms |-> IF x = t THEN <<c>> \o Stay(c, x) ELSE Stay(c, x)]
    BY <1>1, <1>2, <1>4, PlaceParts
  <2> QED BY <1>1, <2>1, <2>2 DEF ChatTypeOK
<1>7. back'[r] = Tail(back[r]) /\ \A s \in Rooms \ {r} : back'[s] = back[s]
  BY <1>1
<1>8. \A s \in Rooms : banned'[s] = {}
  BY <1>1, <1>4 DEF ReturnInv, Returning, BansAfter
<1>9. ASSUME NEW q \in Rooms, Short[q] = q
      PROVE  (WillFit(back[q], Len(members[q]), Cap[q]))'
  <2>1. WillFit(back[q], Len(members[q]), Cap[q]) /\ cacct' = cacct
    BY <1>9 DEF ReturnInv, connVars
  <2>2. CASE q = t
    <3>1. q = r
      BY <1>3, <1>9, <2>2 DEF OwnName
    <3>2. Len(members'[q]) = Len(members[q]) + 1 /\ Len(members[q]) \in Nat
      BY <1>2, <1>6, <2>2
    <3>3. back[q] \in Seq(Conns) /\ back[q] # <<>>
      BY <1>1, <3>1
    <3>4. Cap[q] \in Int
      BY RoomAssumption
    <3>5. WillFit(Tail(back[q]), Len(members[q]) + 1, Cap[q])
      BY <2>1, <3>2, <3>3, <3>4, TailFits
    <3> QED BY <1>7, <2>1, <3>1, <3>2, <3>5 DEF WillFit
  <2>3. CASE q # t
    <3>1. q # r
      BY <1>3, <1>9, <2>3 DEF OwnName
    <3>2. back'[q] = back[q] /\ members'[q] = members[q]
      BY <1>6, <1>7, <2>3, <3>1
    <3> QED BY <2>1, <3>2 DEF WillFit
  <2> QED BY <2>2, <2>3
<1> QED BY <1>3, <1>5, <1>7, <1>8, <1>9 DEF ReturnInv

\* What a step does to those who wait to be sent back.
Homeward ==
    \A r \in Rooms : Len(back'[r]) < Len(back[r]) =>
        LET c == Head(back[r]) IN where'[c] # NoRoom /\ Short[where'[c]] = Short[r]

\* While clients act, and connections are destroyed, nobody waits.
LEMMA NobodyReturns ==
    ASSUME ~Returning, UNCHANGED back
    PROVE  ReturnInv' /\ Homeward
<1>1. ~Returning' /\ \A r \in Rooms : back'[r] = <<>> /\ back[r] = <<>>
  BY DEF Returning
<1>2. \A r \in Rooms : (WillFit(back[r], Len(members[r]), Cap[r]))'
  BY <1>1 DEF WillFit
<1> QED BY <1>1, <1>2 DEF ReturnInv, Homeward

LEMMA ReturnInvNext ==
    ASSUME OwnName, ConnInv, ChatInv, RoomFits, ReturnInv, ChatMove
    PROVE  ReturnInv' /\ Homeward
<1>1. CASE UNCHANGED <<connVars, chatVars>>
  BY <1>1 DEF connVars, chatVars, ReturnInv, Returning, WillFit, Homeward
<1>2. CASE Turn /\ UNCHANGED back
  BY <1>2, NobodyReturns DEF Turn
<1>3. CASE sweep # {} /\ UNCHANGED back
  BY <1>3, NobodyReturns DEF ChatInv, BackOK
<1>4. CASE UNCHANGED connVars /\ Turn /\ Reload
  <2>1. \A r \in Rooms : back[r] = <<>>
    BY <1>4 DEF Turn, Returning
  <2>2. \A r \in Rooms : back'[r] \in Seq(Conns)
    BY <1>4, ChatInvNext DEF ChatMove, ChatInv, ChatTypeOK
  <2>3. Homeward
    BY <2>1, <2>2 DEF Homeward
  <2> QED BY <1>4, <2>3, ReloadReturn
<1>5. ASSUME UNCHANGED connVars, NEW r \in Rooms, NEW t \in Rooms, SendBack(r, t)
      PROVE  ReturnInv' /\ Homeward
  <2>1. /\ ReturnInv'
        /\ where'[Head(back[r])] = t /\ Short[t] = Short[r]
        /\ \A s \in Rooms \ {r} : back'[s] = back[s]
    BY <1>5, SendBackReturn
  <2>2. \A s \in Rooms \ {r} : ~(Len(back'[s]) < Len(back[s]))
    BY <2>1 DEF ChatInv, ChatTypeOK
  <2>3. t # NoRoom
    BY RoomAssumption DEF Names
  <2>4. Homeward
    BY <2>1, <2>2, <2>3 DEF Homeward
  <2> QED BY <2>1, <2>4
<1>6. ASSUME NEW c \in Conns, Spare(c) \/ Free(c) PROVE sweep # {}
  BY <1>6 DEF Spare, Free
<1>7. ASSUME NEW c \in Conns, Part(c) \/ ChatBy(c) PROVE UNCHANGED back
  BY <1>7 DEF ChatBy, Part, Enter, Reenter, Kick, Ban, Unban, TmpOp, Deop, chatVars
<1>8. UNCHANGED chatVars => UNCHANGED back
  BY DEF chatVars
<1> QED BY <1>1, <1>2, <1>3, <1>4, <1>5, <1>6, <1>7, <1>8 DEF ChatMove, LoggedIn

\* If no channel has for its name the short name of another, a reload of the configuration
\* leaves nobody out: each member is sent to a channel of its own short name and let in,
\* for the lists are turned around, so that everybody finds the room there was when it came.
THEOREM ReloadRejoins == OwnName /\ Spec => RejoinsAll
<1>1. OwnName /\ Init => ReturnInv
  BY DEF Init, ChatInit, ReturnInv, Returning, WillFit
<1>2. OwnName /\ ConnInv /\ ChatInv /\ RoomFits /\ ReturnInv /\ [Next]_vars => ReturnInv' /\ Homeward
  BY NextChat, ReturnInvNext
<1>3. CASE OwnName
  <2>1. Init => ReturnInv
    BY <1>1, <1>3
  <2>2. ConnInv /\ ChatInv /\ RoomFits /\ ReturnInv /\ [Next]_vars => ReturnInv' /\ [Homeward]_vars
    BY <1>2, <1>3
  <2> QED BY <2>1, <2>2, ConnInvAlways, ChatInvAlways, ChannelsHaveRoom, PTL
          DEF Spec, RejoinsAll, Homeward
<1> QED BY <1>3

-----------------------------------------------------------------------------
(***************************************************************************)
(* The slots of a game.                                                    *)
(***************************************************************************)

\* First is the least element of a set of slots.
LEMMA FirstIn ==
    ASSUME NEW S, S \subseteq Nat, S # {}
    PROVE  First(S) \in S /\ \A j \in S : First(S) <= j
<1>1. \E x \in S : \A y \in S : ~ (<<y, x>> \in OpToRel(<, Nat))
  BY NatLessThanWellFounded, WFMin, Zenon
<1>2. PICK n \in S : \A m \in S : ~ (<<m, n>> \in OpToRel(<, Nat))
  BY <1>1, Zenon
<1>3. ASSUME NEW m \in S PROVE n <= m
  <2>1. m \in Nat /\ n \in Nat
    OBVIOUS
  <2>2. m < n => <<m, n>> \in OpToRel(<, Nat)
    BY <2>1 DEF OpToRel
  <2>3. ~ (m < n)
    BY <1>2, <2>2, Zenon
  <2> QED BY <2>1, <2>3
<1>4. \E i \in S : \A j \in S : i <= j
  BY <1>3, Zenon
<1> QED BY <1>4, Zenon DEF First

\* A game has finitely many players.
LEMMA HeldFinite ==
    ASSUME NEW s \in Seq(Slot)
    PROVE  /\ DOMAIN s \subseteq Nat /\ Held(s) \subseteq DOMAIN s
           /\ IsFiniteSet(Held(s)) /\ Cardinality(Held(s)) \in Nat
           /\ \A a : /\ HeldBy(s, a) \subseteq Held(s)
                     /\ IsFiniteSet(HeldBy(s, a)) /\ Cardinality(HeldBy(s, a)) \in Nat
<1>1. DOMAIN s = 1..Len(s) /\ Len(s) \in Nat
  OBVIOUS
<1>2. IsFiniteSet(DOMAIN s)
  BY <1>1, FS_Interval
<1>3. Held(s) \subseteq DOMAIN s
  BY DEF Held
<1>4. IsFiniteSet(Held(s)) /\ Cardinality(Held(s)) \in Nat
  BY <1>2, <1>3, FS_Subset, FS_CardinalityType
<1>5. ASSUME NEW a
      PROVE  /\ HeldBy(s, a) \subseteq Held(s)
             /\ IsFiniteSet(HeldBy(s, a)) /\ Cardinality(HeldBy(s, a)) \in Nat
  <2>1. HeldBy(s, a) \subseteq Held(s)
    BY DEF HeldBy
  <2> QED BY <1>4, <2>1, FS_Subset, FS_CardinalityType
<1> QED BY <1>1, <1>3, <1>4, <1>5

\* The host of a game is a connection of one of its slots.
LEMMA HostType ==
    ASSUME NEW s \in Seq(Slot), NEW old \in Conns \cup {NoConn}
    PROVE  Host(s, old) \in Conns \cup {NoConn}
<1>1. CASE Held(s) = {}
  BY <1>1 DEF Host
<1>2. CASE Held(s) # {}
  <2>1. First(Held(s)) \in DOMAIN s
    BY <1>2, HeldFinite, FirstIn
  <2>2. s[First(Held(s))] \in Slot
    BY <2>1
  <2> QED BY <1>2, <2>2 DEF Host, Slot
<1> QED BY <1>1, <1>2

\* Who joins takes one slot more.
LEMMA JoinedSlots ==
    ASSUME NEW r \in Game, NEW c \in Conns, cacct[c] \in Accounts
    PROVE  /\ Joined(r, c) \in Game
           /\ Joined(r, c).name = r.name /\ Joined(r, c).status = r.status
           /\ Joined(r, c).ref = r.ref + 1
           /\ \E i \in Nat \ Held(r.slots) :
                 /\ Held(Joined(r, c).slots) = Held(r.slots) \cup {i}
                 /\ \A a : HeldBy(Joined(r, c).slots, a) =
                              HeldBy(r.slots, a) \cup {j \in {i} : a = cacct[c]}
<1> DEFINE s == r.slots
           free == DOMAIN s \ Held(s)
           new == [acct |-> cacct[c], conn |-> c, report |-> <<>>]
           s2 == IF free = {} THEN Append(s, new) ELSE [s EXCEPT ![First(free)] = new]
           i == IF free = {} THEN Len(s) + 1 ELSE First(free)
<1>1. new \in Slot /\ s \in Seq(Slot) /\ r.ref \in Nat /\ r.owner \in Conns \cup {NoConn}
  BY DEF Slot, Game
<1>2. Held(s) \subseteq DOMAIN s /\ DOMAIN s = 1..Len(s) /\ Len(s) \in Nat
  BY <1>1 DEF Held
<1>3. free # {} => First(free) \in free
  <2>1. free \subseteq Nat
    BY <1>2
  <2> HIDE DEF free
  <2> QED BY <2>1, FirstIn
<1>4. new.acct = cacct[c] /\ new.conn = c /\ c # NoConn
  BY ConnAssumption
<1>5. /\ s2 \in Seq(Slot) /\ i \in Nat \ Held(s)
      /\ DOMAIN s2 = DOMAIN s \cup {i}
      /\ s2[i] = new /\ \A j \in DOMAIN s \ {i} : s2[j] = s[j]
  <2>1. CASE free = {}
    <3>1. s2 = Append(s, new) /\ i = Len(s) + 1
      BY <2>1
    <3> HIDE DEF s2, i, new, s, free
    <3>2. s2 \in Seq(Slot) /\ DOMAIN s2 = 1..(Len(s) + 1) /\ s2[i] = new
      BY <1>1, <1>2, <3>1
    <3>3. \A j \in DOMAIN s : s2[j] = s[j] /\ j # i
      BY <1>1, <1>2, <3>1
    <3>4. DOMAIN s2 = DOMAIN s \cup {i} /\ i \in Nat \ Held(s)
      BY <1>2, <3>1, <3>2
    <3> QED BY <3>2, <3>3, <3>4
  <2>2. CASE free # {}
    <3>1. s2 = [s EXCEPT ![i] = new] /\ i \in DOMAIN s /\ i \notin Held(s)
      BY <1>3, <2>2
    <3> HIDE DEF s2, i, new, s, free
    <3> QED BY <1>1, <1>2, <3>1
  <2> QED BY <2>1, <2>2
<1>6. Joined(r, c) = [r EXCEPT !.slots = s2, !.ref = r.ref + 1, !.owner = Host(s2, r.owner)]
  BY DEF Joined
<1> HIDE DEF s2, i, new, s, free
<1>7. r.ref + 1 \in Nat /\ Host(s2, r.owner) \in Conns \cup {NoConn}
  BY <1>1, <1>5, HostType
<1>8. /\ Joined(r, c) \in Game /\ Joined(r, c).slots = s2 /\ Joined(r, c).ref = r.ref + 1
      /\ Joined(r, c).name = r.name /\ Joined(r, c).status = r.status
  <2> DEFINE n == r.ref + 1
             o == Host(s2, r.owner)
             g == Joined(r, c)
  <2>1. n \in Nat /\ o \in Conns \cup {NoConn} /\ s2 \in Seq(Slot)
    BY <1>5, <1>7
  <2>2. g = [r EXCEPT !.slots = s2, !.ref = n, !.owner = o]
    BY <1>6
  <2> HIDE DEF n, o, g
  <2>3. /\ g \in Game /\ g.slots = s2 /\ g.ref = n
        /\ g.name = r.name /\ g.status = r.status
    BY <2>1, <2>2 DEF Game
  <2> QED BY <2>3 DEF n, g
<1>9. Held(s2) = Held(s) \cup {i}
  BY <1>4, <1>5 DEF Held
<1>10. ASSUME NEW a
       PROVE  HeldBy(s2, a) = HeldBy(s, a) \cup {j \in {i} : a = cacct[c]}
  <2>1. \A j \in Held(s) : j # i /\ s2[j] = s[j]
    BY <1>2, <1>5
  <2> QED BY <1>4, <1>5, <1>9, <2>1 DEF HeldBy
<1> QED BY <1>5, <1>8, <1>9, <1>10 DEF s

\* Who leaves others behind gives up one slot of its account.
LEMMA LeftSlots ==
    ASSUME NEW r \in Game, NEW c \in Conns, HeldBy(r.slots, cacct[c]) # {}, r.ref >= 1
    PROVE  /\ LeftBy(r, c) \in Game
           /\ LeftBy(r, c).name = r.name /\ LeftBy(r, c).status = r.status
           /\ LeftBy(r, c).ref = r.ref - 1
           /\ \E i \in HeldBy(r.slots, cacct[c]) :
                 /\ Held(LeftBy(r, c).slots) = Held(r.slots) \ {i}
                 /\ \A a : HeldBy(LeftBy(r, c).slots, a) = HeldBy(r.slots, a) \ {i}
<1> DEFINE s == r.slots
           mine == HeldBy(s, cacct[c])
           i == First(mine)
           s2 == [s EXCEPT ![i].conn = NoConn]
<1>1. s \in Seq(Slot) /\ r.ref \in Nat /\ r.owner \in Conns \cup {NoConn}
  BY DEF Game
<1>2. /\ mine \subseteq DOMAIN s /\ Held(s) \subseteq DOMAIN s /\ DOMAIN s \subseteq Nat
      /\ DOMAIN s = 1..Len(s) /\ Len(s) \in Nat
  BY <1>1, HeldFinite
<1>3. i \in mine
  BY <1>2, FirstIn
<1>4. LeftBy(r, c) = [r EXCEPT !.slots = s2, !.ref = r.ref - 1, !.owner = Host(s2, r.owner)]
  BY DEF LeftBy
<1> HIDE DEF i, mine
<1>5. /\ s2 \in Seq(Slot) /\ DOMAIN s2 = DOMAIN s
      /\ s2[i].conn = NoConn /\ \A j \in DOMAIN s \ {i} : s2[j] = s[j]
  <2>1. i \in DOMAIN s /\ s[i] \in Slot
    BY <1>1, <1>2, <1>3
  <2>2. s2 = [s EXCEPT ![i] = [s[i] EXCEPT !.conn = NoConn]]
    OBVIOUS
  <2>3. [s[i] EXCEPT !.conn = NoConn] \in Slot /\ [s[i] EXCEPT !.conn = NoConn].conn = NoConn
    BY <2>1 DEF Slot
  <2> HIDE DEF s2, s
  <2> QED BY <1>1, <1>2, <2>1, <2>2, <2>3
<1> HIDE DEF s2, s
<1>6. r.ref - 1 \in Nat /\ Host(s2, r.owner) \in Conns \cup {NoConn}
  BY <1>1, <1>5, HostType
<1>7. /\ LeftBy(r, c) \in Game /\ LeftBy(r, c).slots = s2 /\ LeftBy(r, c).ref = r.ref - 1
      /\ LeftBy(r, c).name = r.name /\ LeftBy(r, c).status = r.status
  <2> DEFINE n == r.ref - 1
             o == Host(s2, r.owner)
             g == LeftBy(r, c)
  <2>1. n \in Nat /\ o \in Conns \cup {NoConn} /\ s2 \in Seq(Slot)
    BY <1>5, <1>6
  <2>2. g = [r EXCEPT !.slots = s2, !.ref = n, !.owner = o]
    BY <1>4
  <2> HIDE DEF n, o, g
  <2>3. /\ g \in Game /\ g.slots = s2 /\ g.ref = n
        /\ g.name = r.name /\ g.status = r.status
    BY <2>1, <2>2 DEF Game
  <2> QED BY <2>3 DEF n, g
<1>8. Held(s2) = Held(s) \ {i}
  BY <1>5 DEF Held
<1>9. ASSUME NEW a
      PROVE  HeldBy(s2, a) = HeldBy(s, a) \ {i}
  <2>1. \A j \in Held(s) \ {i} : s2[j] = s[j]
    BY <1>2, <1>5
  <2> QED BY <1>8, <2>1 DEF HeldBy
<1> QED BY <1>3, <1>7, <1>8, <1>9 DEF s, mine

-----------------------------------------------------------------------------
(***************************************************************************)
(* Games.                                                                  *)
(***************************************************************************)

InGame(at, who, g, a) == {c \in Conns : at[c] = g /\ who[c] = a}

\* The games G when connections are in the games at and have the accounts who.
Rostered(G, at, who) ==
    /\ DOMAIN G \subseteq Games
    /\ \A g \in DOMAIN G : G[g] \in Game /\ G[g].ref = Cardinality(Held(G[g].slots))
    /\ at \in [Conns -> Games \cup {NoGame}]
    /\ \A c \in Conns : at[c] # NoGame => at[c] \in DOMAIN G /\ who[c] \in Accounts
    /\ \A g \in DOMAIN G, a \in Accounts :
          Cardinality(HeldBy(G[g].slots, a)) = Cardinality(InGame(at, who, g, a))

LEMMA InGameFinite ==
    ASSUME NEW at, NEW who, NEW g, NEW a
    PROVE  /\ IsFiniteSet(InGame(at, who, g, a))
           /\ Cardinality(InGame(at, who, g, a)) \in Nat
BY ConnAssumption, FS_Subset, FS_CardinalityType DEF InGame

\* A player has a slot, and the slots of who is alone are all of the game's.
LEMMA RosteredPlayer ==
    ASSUME NEW G, NEW at, NEW who, Rostered(G, at, who), NEW c \in Conns, at[c] # NoGame
    PROVE  LET r == G[at[c]] IN
           /\ at[c] \in DOMAIN G /\ r \in Game /\ who[c] \in Accounts
           /\ HeldBy(r.slots, who[c]) # {} /\ r.ref >= 1
           /\ r.ref < 2 => \A d \in Conns : at[d] = at[c] => d = c
<1> DEFINE g == at[c]
           a == who[c]
           s == G[g].slots
<1>1. g \in DOMAIN G /\ G[g] \in Game /\ a \in Accounts /\ G[g].ref = Cardinality(Held(s))
  BY DEF Rostered
<1>2. s \in Seq(Slot)
  BY <1>1 DEF Game
<1> HIDE DEF s
<1>3. \A b \in Accounts : /\ Cardinality(HeldBy(s, b)) = Cardinality(InGame(at, who, g, b))
                          /\ IsFiniteSet(InGame(at, who, g, b))
                          /\ HeldBy(s, b) \subseteq Held(s) /\ IsFiniteSet(HeldBy(s, b))
  BY <1>1, <1>2, InGameFinite, HeldFinite DEF Rostered, s
<1>4. \A d \in Conns : at[d] = g => who[d] \in Accounts /\ d \in InGame(at, who, g, who[d])
                                    /\ HeldBy(s, who[d]) # {}
  <2>1. ASSUME NEW d \in Conns, at[d] = g
        PROVE  who[d] \in Accounts /\ d \in InGame(at, who, g, who[d]) /\ HeldBy(s, who[d]) # {}
    <3>1. who[d] \in Accounts /\ d \in InGame(at, who, g, who[d])
      BY <2>1 DEF Rostered, InGame
    <3>2. Cardinality(InGame(at, who, g, who[d])) # 0
      BY <1>3, <3>1, FS_EmptySet
    <3> QED BY <1>3, <3>1, <3>2, FS_EmptySet
  <2> QED BY <2>1
<1>5. IsFiniteSet(Held(s)) /\ Cardinality(Held(s)) \in Nat /\ HeldBy(s, a) # {}
  BY <1>2, <1>4, HeldFinite
<1>6. Held(s) # {}
  BY <1>1, <1>3, <1>5
<1>7. G[g].ref >= 1
  BY <1>1, <1>5, <1>6, FS_EmptySet
<1>8. ASSUME G[g].ref < 2, NEW d \in Conns, at[d] = g
      PROVE  d = c
  <2>1. Cardinality(Held(s)) = 1
    BY <1>1, <1>5, <1>7, <1>8
  <2>2. PICK i : Held(s) = {i}
    BY <1>5, <2>1, FS_Singleton
  <2>3. HeldBy(s, a) = {i} /\ HeldBy(s, who[d]) = {i}
    BY <1>1, <1>3, <1>4, <1>8, <2>2
  <2>4. who[d] = a
    BY <2>3 DEF HeldBy
  <2>5. Cardinality(InGame(at, who, g, a)) = 1
    BY <1>1, <1>3, <2>3, FS_Singleton
  <2>6. PICK x : InGame(at, who, g, a) = {x}
    BY <1>1, <1>3, <2>5, FS_Singleton
  <2> QED BY <1>4, <1>8, <2>4, <2>6
<1> QED BY <1>1, <1>4, <1>5, <1>7, <1>8 DEF s

\* The roster is right after c has left.
LEMMA AfterRostered ==
    ASSUME NEW G, Rostered(G, cgame, cacct), NEW c \in Conns
    PROVE  Rostered(After(G, c), [cgame EXCEPT ![c] = NoGame], cacct)
<1> DEFINE at == [cgame EXCEPT ![c] = NoGame]
           g == cgame[c]
           a == cacct[c]
<1>1. /\ DOMAIN G \subseteq Games /\ cgame \in [Conns -> Games \cup {NoGame}]
      /\ NoGame \notin DOMAIN G
  BY GameAssumption DEF Rostered
<1>2. at \in [Conns -> Games \cup {NoGame}] /\ at[c] = NoGame /\ \A d \in Conns \ {c} : at[d] = cgame[d]
  BY <1>1
<1> HIDE DEF at
<1>3. \A h \in DOMAIN G, b \in Accounts :
         h # g => InGame(at, cacct, h, b) = InGame(cgame, cacct, h, b)
  BY <1>1, <1>2 DEF InGame
<1>4. CASE g = NoGame
  <2>1. at = cgame /\ After(G, c) = G
    BY <1>1, <1>4 DEF After, at
  <2> QED BY <2>1 DEF at
<1>5. CASE g # NoGame
  <2>1. /\ g \in DOMAIN G /\ G[g] \in Game /\ a \in Accounts
        /\ HeldBy(G[g].slots, a) # {} /\ G[g].ref >= 1
        /\ G[g].ref < 2 => \A d \in Conns : cgame[d] = g => d = c
    BY <1>5, RosteredPlayer
  <2>2. CASE G[g].ref < 2
    <3>1. After(G, c) = Drop(G, g)
      BY <1>5, <2>1, <2>2 DEF After, LastOut
    <3>2. /\ DOMAIN Drop(G, g) = DOMAIN G \ {g}
          /\ \A h \in DOMAIN G \ {g} : Drop(G, g)[h] = G[h]
      BY DEF Drop
    <3>3. \A d \in Conns : at[d] # NoGame => at[d] \in DOMAIN G \ {g} /\ cacct[d] \in Accounts
      BY <1>2, <2>1, <2>2 DEF Rostered
    <3> HIDE DEF g, a
    <3>4. Rostered(Drop(G, g), at, cacct)
      BY <1>1, <1>2, <1>3, <3>2, <3>3 DEF Rostered
    <3> QED BY <3>1, <3>4 DEF at
  <2>3. CASE ~ (G[g].ref < 2)
    <3> DEFINE r == LeftBy(G[g], c)
    <3>1. After(G, c) = Put(G, g, r)
      BY <1>5, <2>1, <2>3 DEF After, LastOut
    <3>2. /\ r \in Game /\ r.ref = G[g].ref - 1
          /\ \E i \in HeldBy(G[g].slots, a) :
                 /\ Held(r.slots) = Held(G[g].slots) \ {i}
                 /\ \A b : HeldBy(r.slots, b) = HeldBy(G[g].slots, b) \ {i}
      BY <2>1, LeftSlots
    <3> HIDE DEF r
    <3>3. PICK i \in HeldBy(G[g].slots, a) :
                 /\ Held(r.slots) = Held(G[g].slots) \ {i}
                 /\ \A b : HeldBy(r.slots, b) = HeldBy(G[g].slots, b) \ {i}
      BY <3>2
    <3>4. /\ G[g].slots \in Seq(Slot) /\ G[g].ref = Cardinality(Held(G[g].slots))
          /\ i \in Held(G[g].slots)
      BY <2>1, <3>3 DEF Game, Rostered, HeldBy
    <3>5. r.ref = Cardinality(Held(r.slots))
      <4>1. IsFiniteSet(Held(G[g].slots))
        BY <3>4, HeldFinite
      <4>2. Cardinality(Held(G[g].slots) \ {i}) = Cardinality(Held(G[g].slots)) - 1
        BY <3>4, <4>1, FS_RemoveElement
      <4> QED BY <3>2, <3>3, <3>4, <4>2
    <3>6. ASSUME NEW b \in Accounts
          PROVE  Cardinality(HeldBy(r.slots, b)) = Cardinality(InGame(at, cacct, g, b))
      <4>1. Cardinality(HeldBy(G[g].slots, b)) = Cardinality(InGame(cgame, cacct, g, b))
        BY <2>1 DEF Rostered
      <4>2. CASE b = a
        <5>1. InGame(at, cacct, g, a) = InGame(cgame, cacct, g, a) \ {c}
          BY <1>2, <1>5 DEF InGame
        <5>2. c \in InGame(cgame, cacct, g, a)
          BY DEF InGame
        <5>3. Cardinality(InGame(at, cacct, g, a)) = Cardinality(InGame(cgame, cacct, g, a)) - 1
          BY <5>1, <5>2, InGameFinite, FS_RemoveElement
        <5>4. Cardinality(HeldBy(r.slots, a)) = Cardinality(HeldBy(G[g].slots, a)) - 1
          BY <3>3, <3>4, HeldFinite, FS_RemoveElement
        <5> QED BY <4>1, <4>2, <5>3, <5>4
      <4>3. CASE b # a
        <5>1. InGame(at, cacct, g, b) = InGame(cgame, cacct, g, b)
          BY <1>2, <1>5, <4>3 DEF InGame
        <5>2. HeldBy(r.slots, b) = HeldBy(G[g].slots, b)
          BY <3>3, <4>3 DEF HeldBy
        <5> QED BY <4>1, <5>1, <5>2
      <4> QED BY <4>2, <4>3
    <3>7. /\ DOMAIN Put(G, g, r) = DOMAIN G /\ Put(G, g, r)[g] = r
          /\ \A h \in DOMAIN G \ {g} : Put(G, g, r)[h] = G[h]
      BY <2>1 DEF Put
    <3>8. \A d \in Conns : at[d] # NoGame => at[d] \in DOMAIN G /\ cacct[d] \in Accounts
      BY <1>2 DEF Rostered
    <3> HIDE DEF g, a
    <3>9. Rostered(Put(G, g, r), at, cacct)
      <4> DEFINE P == Put(G, g, r)
      <4>1. DOMAIN P = DOMAIN G /\ P[g] = r /\ \A h \in DOMAIN G \ {g} : P[h] = G[h]
        BY <3>7
      <4> HIDE DEF P
      <4>2. \A h \in DOMAIN P : P[h] \in Game /\ P[h].ref = Cardinality(Held(P[h].slots))
        BY <3>2, <3>5, <4>1 DEF Rostered
      <4>3. \A h \in DOMAIN P, b \in Accounts :
               Cardinality(HeldBy(P[h].slots, b)) = Cardinality(InGame(at, cacct, h, b))
        BY <1>3, <3>6, <4>1 DEF Rostered
      <4> QED BY <1>1, <1>2, <3>8, <4>1, <4>2, <4>3 DEF Rostered, P
    <3> QED BY <3>1, <3>9 DEF at
  <2> QED BY <2>2, <2>3
<1> QED BY <1>4, <1>5

\* It is right after c, in no game, has joined g.
LEMMA JoinedRostered ==
    ASSUME NEW G, NEW at, Rostered(G, at, cacct), NEW c \in Conns, at[c] = NoGame,
           cacct[c] \in Accounts, NEW g \in DOMAIN G
    PROVE  Rostered(Put(G, g, Joined(G[g], c)), [at EXCEPT ![c] = g], cacct)
<1> DEFINE r == Joined(G[g], c)
           to == [at EXCEPT ![c] = g]
           a == cacct[c]
<1>1. /\ DOMAIN G \subseteq Games /\ at \in [Conns -> Games \cup {NoGame}] /\ G[g] \in Game
      /\ g # NoGame /\ NoGame \notin Games
  BY GameAssumption DEF Rostered
<1>2. to \in [Conns -> Games \cup {NoGame}] /\ to[c] = g /\ \A d \in Conns \ {c} : to[d] = at[d]
  BY <1>1
<1> HIDE DEF to
<1>3. /\ r \in Game /\ r.ref = G[g].ref + 1
      /\ \E i \in Nat \ Held(G[g].slots) :
            /\ Held(r.slots) = Held(G[g].slots) \cup {i}
            /\ \A b : HeldBy(r.slots, b) = HeldBy(G[g].slots, b) \cup {j \in {i} : b = a}
  BY <1>1, JoinedSlots
<1> HIDE DEF r
<1>4. PICK i \in Nat \ Held(G[g].slots) :
            /\ Held(r.slots) = Held(G[g].slots) \cup {i}
            /\ \A b : HeldBy(r.slots, b) = HeldBy(G[g].slots, b) \cup {j \in {i} : b = a}
  BY <1>3
<1>5. G[g].slots \in Seq(Slot) /\ G[g].ref = Cardinality(Held(G[g].slots))
  BY <1>1 DEF Game, Rostered
<1>6. r.ref = Cardinality(Held(r.slots))
  <2>1. IsFiniteSet(Held(G[g].slots))
    BY <1>5, HeldFinite
  <2>2. Cardinality(Held(G[g].slots) \cup {i}) = Cardinality(Held(G[g].slots)) + 1
    BY <1>4, <2>1, FS_AddElement
  <2> QED BY <1>3, <1>4, <1>5, <2>2
<1>7. ASSUME NEW b \in Accounts
      PROVE  Cardinality(HeldBy(r.slots, b)) = Cardinality(InGame(to, cacct, g, b))
  <2>1. Cardinality(HeldBy(G[g].slots, b)) = Cardinality(InGame(at, cacct, g, b))
    BY DEF Rostered
  <2>2. CASE b = a
    <3>1. InGame(to, cacct, g, a) = InGame(at, cacct, g, a) \cup {c}
      BY <1>2 DEF InGame
    <3>2. c \notin InGame(at, cacct, g, a)
      BY <1>1 DEF InGame
    <3>3. Cardinality(InGame(to, cacct, g, a)) = Cardinality(InGame(at, cacct, g, a)) + 1
      BY <3>1, <3>2, InGameFinite, FS_AddElement
    <3>4. HeldBy(r.slots, a) = HeldBy(G[g].slots, a) \cup {i} /\ i \notin HeldBy(G[g].slots, a)
      BY <1>4 DEF HeldBy
    <3>5. Cardinality(HeldBy(r.slots, a)) = Cardinality(HeldBy(G[g].slots, a)) + 1
      BY <1>5, <3>4, HeldFinite, FS_AddElement
    <3> QED BY <2>1, <2>2, <3>3, <3>5
  <2>3. CASE b # a
    <3>1. InGame(to, cacct, g, b) = InGame(at, cacct, g, b)
      BY <1>2, <2>3 DEF InGame
    <3>2. HeldBy(r.slots, b) = HeldBy(G[g].slots, b)
      BY <1>4, <2>3
    <3> QED BY <2>1, <3>1, <3>2
  <2> QED BY <2>2, <2>3
<1>8. \A h \in DOMAIN G, b \in Accounts :
         h # g => InGame(to, cacct, h, b) = InGame(at, cacct, h, b)
  BY <1>1, <1>2 DEF InGame
<1>9. /\ DOMAIN Put(G, g, r) = DOMAIN G /\ Put(G, g, r)[g] = r
      /\ \A h \in DOMAIN G \ {g} : Put(G, g, r)[h] = G[h]
  BY DEF Put
<1>10. \A d \in Conns : to[d] # NoGame => to[d] \in DOMAIN G /\ cacct[d] \in Accounts
  BY <1>2 DEF Rostered
<1> HIDE DEF a
<1>11. Rostered(Put(G, g, r), to, cacct)
  <2> DEFINE P == Put(G, g, r)
  <2>1. DOMAIN P = DOMAIN G /\ P[g] = r /\ \A h \in DOMAIN G \ {g} : P[h] = G[h]
    BY <1>9
  <2> HIDE DEF P
  <2>2. \A h \in DOMAIN P : P[h] \in Game /\ P[h].ref = Cardinality(Held(P[h].slots))
    BY <1>3, <1>6, <2>1 DEF Rostered
  <2>3. \A h \in DOMAIN P, b \in Accounts :
           Cardinality(HeldBy(P[h].slots, b)) = Cardinality(InGame(to, cacct, h, b))
    BY <1>7, <1>8, <2>1 DEF Rostered
  <2> QED BY <1>1, <1>2, <1>10, <2>1, <2>2, <2>3 DEF Rostered, P
<1> QED BY <1>11 DEF r, to

\* It is right when a game is changed but not its players, and with a new game of nobody.
LEMMA PutRostered ==
    ASSUME NEW G, NEW at, NEW who, Rostered(G, at, who), NEW g \in Games, NEW r \in Game,
           IF g \in DOMAIN G
           THEN /\ r.ref = G[g].ref /\ Held(r.slots) = Held(G[g].slots)
                /\ \A a : HeldBy(r.slots, a) = HeldBy(G[g].slots, a)
           ELSE r.ref = 0 /\ Held(r.slots) = {}
    PROVE  Rostered(Put(G, g, r), at, who)
<1>1. /\ DOMAIN Put(G, g, r) = DOMAIN G \cup {g} /\ Put(G, g, r)[g] = r
      /\ \A h \in DOMAIN G \ {g} : Put(G, g, r)[h] = G[h]
  BY DEF Put
<1>2. CASE g \in DOMAIN G
  BY <1>1, <1>2 DEF Rostered
<1>3. CASE g \notin DOMAIN G
  <2>1. ASSUME NEW a \in Accounts
        PROVE  Cardinality(HeldBy(r.slots, a)) = Cardinality(InGame(at, who, g, a))
    <3>1. HeldBy(r.slots, a) = {}
      BY <1>3 DEF HeldBy
    <3>2. InGame(at, who, g, a) = {}
      BY <1>3, GameAssumption DEF InGame, Rostered
    <3> QED BY <3>1, <3>2
  <2>2. r.ref = Cardinality(Held(r.slots))
    BY <1>3, FS_EmptySet
  <2> QED BY <1>1, <1>3, <2>1, <2>2 DEF Rostered
<1> QED BY <1>2, <1>3

\* What a client that is logged in does to games.
GameBy(c) ==
    \/ \E n \in GameNames : \E g \in Available(n), pw \in BOOLEAN : Join(c, g, pw)
    \/ \E g \in Games, n \in GameNames, l \in BOOLEAN, s \in {"open", "full"} :
          Create(c, g, n, l, s)
    \/ \E s \in Statuses : SetStatus(c, s)
    \/ Report(c)

GameMove ==
    \/ UNCHANGED <<connVars, gameVars>>
    \/ (Calm \/ \E c \in Conns : Spare(c)) /\ NoGameStep
    \/ \E c \in Conns : Free(c) /\ Lost(c)
    \/ UNCHANGED connVars /\ \E c \in Conns : Quit(c)
    \/ UNCHANGED connVars /\ \E c \in Conns : cstate[c] = "loggedin" /\ GameBy(c)

LEMMA NextGame ==
    ASSUME ConnInv, ChatInv, [Next]_vars
    PROVE  GameMove
<1>1. CASE UNCHANGED vars
  BY <1>1 DEF vars, GameMove
<1>2. CASE ReloadConf \/ StartReap
  BY <1>2 DEF ReloadConf, StartReap, GameMove, Calm
<1>3. ASSUME NEW r \in Rooms, SendNext(r)
      PROVE  GameMove
  <2>1. back[r] # <<>> /\ back[r] \in Seq(Conns)
    BY <1>3 DEF SendNext, SendBack, ChatInv, ChatTypeOK
  <2>2. Head(back[r]) \in Conns
    BY <2>1
  <2>3. UNCHANGED connVars /\ (NoGameStep \/ Quit(Head(back[r])))
    BY <1>3 DEF SendNext
  <2> QED BY <2>2, <2>3 DEF GameMove, Calm
<1>4. ASSUME NEW c \in Conns, ReapSkip(c) \/ Reap(c)
      PROVE  GameMove
  BY <1>4 DEF ReapSkip, Reap, GameMove, Calm
<1>5. ASSUME NEW c \in Conns, ClientStep(c)
      PROVE  GameMove
  <2>1. CASE NewConn(c) \/ DropConn(c) \/ \E a \in Accounts : ClientLogin(c, a)
    BY <2>1 DEF NewConn, DropConn, ClientLogin, GameMove, Calm
  <2>2. CASE LeaveChannel(c) \/ Rejoin(c) \/ CloseGame(c) \/ GameReport(c)
    BY <2>2 DEF LeaveChannel, Rejoin, CloseGame, GameReport, LoggedIn, GameMove, GameBy, Calm
  <2>3. CASE \E n \in Names : JoinChannel(c, n)
    BY <2>3 DEF JoinChannel, GameMove, Calm
  <2>4. ASSUME NEW a \in Accounts, \/ \E to \in {Void, NoRoom} : KickUser(c, a, to)
                                   \/ BanUser(c, a) \/ ChatCommand(c, a)
        PROVE  GameMove
    <3>1. UNCHANGED connVars /\ (NoGameStep \/ (Beside(c, a) /\ Quit(connof[a])))
      BY <2>4 DEF KickUser, BanUser, ChatCommand, Kick
    <3>2. Beside(c, a) => connof[a] \in Conns
      BY DEF Beside, ConnInv, ConnTypeOK
    <3> QED BY <3>1, <3>2 DEF GameMove, Calm
  <2>5. CASE \E n \in GameNames, pw \in BOOLEAN : JoinGame(c, n, pw)
    <3>1. /\ UNCHANGED connVars /\ cstate[c] = "loggedin"
          /\ NoGameStep \/ \E n \in GameNames, pw \in BOOLEAN : \E g \in Available(n) : Join(c, g, pw)
      BY <2>5 DEF JoinGame, LoggedIn
    <3> QED BY <3>1 DEF GameMove, GameBy, Calm
  <2>6. ASSUME NEW g \in Games, NEW n \in GameNames, NEW l \in BOOLEAN,
               \/ \E pw \in BOOLEAN : StartGame(c, g, n, l, pw)
               \/ \E s \in Statuses \ {"done"} : StartGame4(c, g, n, l, s)
        PROVE  GameMove
    <3>1. /\ UNCHANGED connVars /\ cstate[c] = "loggedin"
          /\ \/ NoGameStep
             \/ \E h \in Available(n), pw \in BOOLEAN : Join(c, h, pw)
             \/ \E s \in {"open", "full"} : Create(c, g, n, l, s)
             \/ \E s \in Statuses : SetStatus(c, s)
      BY <2>6, GameAssumption DEF StartGame, StartGame4, LoggedIn
    <3> QED BY <3>1 DEF GameMove, GameBy, Calm
  <2>7. CASE \E s \in Statuses : GameStatus(c, s)
    BY <2>7 DEF GameStatus, LoggedIn, GameMove, GameBy
  <2> QED BY <1>5, <2>1, <2>2, <2>3, <2>4, <2>5, <2>6, <2>7 DEF ClientStep
<1> QED BY <1>1, <1>2, <1>3, <1>4, <1>5 DEF Next

\* No two games of one name can be joined.
Joinable(r) == r.status \in {"open", "full"}
Twinless(G) == \A g, h \in DOMAIN G :
    G[g].name = G[h].name /\ Joinable(G[g]) /\ Joinable(G[h]) => g = h

\* G2 has of the games of G some, under their names, and fewer that can be joined.
Fewer(G2, G) ==
    /\ DOMAIN G2 \subseteq DOMAIN G
    /\ \A g \in DOMAIN G2 : G2[g].name = G[g].name /\ (Joinable(G2[g]) => Joinable(G[g]))

LEMMA FewerTwinless ==
    ASSUME NEW G, NEW G2, Twinless(G), Fewer(G2, G)
    PROVE  Twinless(G2)
BY DEF Twinless, Fewer

LEMMA PutFewer ==
    ASSUME NEW G, NEW g \in DOMAIN G, NEW r, r.name = G[g].name, Joinable(r) => Joinable(G[g])
    PROVE  Fewer(Put(G, g, r), G)
BY DEF Put, Fewer

LEMMA AfterFewer ==
    ASSUME NEW G, Rostered(G, cgame, cacct), NEW c \in Conns
    PROVE  Fewer(After(G, c), G)
<1>1. CASE cgame[c] = NoGame
  BY <1>1 DEF After, Fewer
<1>2. CASE cgame[c] # NoGame
  <2> DEFINE g == cgame[c]
             r == LeftBy(G[g], c)
  <2>1. /\ g \in DOMAIN G /\ G[g] \in Game
        /\ HeldBy(G[g].slots, cacct[c]) # {} /\ G[g].ref >= 1
    BY <1>2, RosteredPlayer
  <2>2. r.name = G[g].name /\ r.status = G[g].status
    BY <2>1, LeftSlots
  <2>3. Fewer(Put(G, g, r), G)
    BY <2>1, <2>2, PutFewer DEF Joinable
  <2>4. Fewer(Drop(G, g), G)
    BY DEF Drop, Fewer
  <2> QED BY <1>2, <2>3, <2>4 DEF After
<1> QED BY <1>1, <1>2

GameInv ==
    /\ Rostered(game, cgame, cacct)
    /\ Twinless(game)
    /\ \A c \in Conns : cgame[c] # NoGame => Known(c)

CreditType == [slot : Nat, acct : Accounts, result : Verdicts]

LEMMA CreditsType ==
    ASSUME NEW s \in Seq(Slot)
    PROVE  Credits(s) \subseteq CreditType
<1>1. ASSUME NEW i \in DOMAIN s
      PROVE  [slot |-> i, acct |-> s[i].acct, result |-> Verdict(s, i)] \in CreditType
  <2>1. Verdict(s, i) \in {"none", "disconnect", "loss", "draw", "win"}
    BY DEF Verdict
  <2>2. i \in Nat /\ s[i] \in Slot
    OBVIOUS
  <2>3. s[i].acct \in Accounts
    BY <2>2 DEF Slot
  <2> QED BY <2>1, <2>2, <2>3 DEF CreditType, Verdicts
<1> QED BY <1>1 DEF Credits

LEMMA CreditedType ==
    ASSUME NEW G, Rostered(G, cgame, cacct), NEW c \in Conns
    PROVE  CreditedAfter(G, c) \subseteq CreditType
<1>1. CASE LastOut(G, c)
  <2>1. G[cgame[c]] \in Game
    BY <1>1, RosteredPlayer DEF LastOut
  <2>2. G[cgame[c]].slots \in Seq(Slot)
    BY <2>1 DEF Game
  <2> QED BY <1>1, <2>2, CreditsType DEF CreditedAfter
<1>2. CASE ~LastOut(G, c)
  BY <1>2 DEF CreditedAfter
<1> QED BY <1>1, <1>2

\* A report changes nothing but the report of a slot.
LEMMA ReportingSame ==
    ASSUME NEW r \in Game, NEW a, HeldBy(r.slots, a) # {}, NEW f \in [DOMAIN r.slots -> Verdicts]
    PROVE  LET q == Reporting(r, a, f) IN
           /\ q \in Game /\ q.name = r.name /\ q.status = r.status /\ q.ref = r.ref
           /\ Held(q.slots) = Held(r.slots) /\ \A b : HeldBy(q.slots, b) = HeldBy(r.slots, b)
<1> DEFINE s == r.slots
           mine == {j \in DOMAIN s : s[j].acct = a}
           i == First(mine)
           s2 == [s EXCEPT ![i].report = f]
           q == Reporting(r, a, f)
<1>1. s \in Seq(Slot) /\ DOMAIN s = 1..Len(s)
  BY DEF Game
<1>2. i \in DOMAIN s /\ s[i] \in Slot
  <2>1. mine # {} /\ mine \subseteq Nat
    BY <1>1 DEF HeldBy, Held
  <2> HIDE DEF mine
  <2>2. i \in mine
    BY <2>1, FirstIn
  <2>3. i \in DOMAIN s
    BY <2>2 DEF mine
  <2> QED BY <1>1, <2>3
<1>3. f \in Seq(Verdicts)
  BY <1>1
<1>4. q = r \/ q = [r EXCEPT !.slots = s2]
  BY DEF Reporting
<1> HIDE DEF i, mine
<1>5. [s[i] EXCEPT !.report = f] \in Slot
  BY <1>2, <1>3 DEF Slot
<1>6. /\ s2 \in Seq(Slot) /\ DOMAIN s2 = DOMAIN s
      /\ \A j \in DOMAIN s : s2[j].acct = s[j].acct /\ s2[j].conn = s[j].conn
  <2>1. s2 = [s EXCEPT ![i] = [s[i] EXCEPT !.report = f]]
    OBVIOUS
  <2>2. /\ [s[i] EXCEPT !.report = f].acct = s[i].acct
        /\ [s[i] EXCEPT !.report = f].conn = s[i].conn
    BY <1>2 DEF Slot
  <2> HIDE DEF s2, s
  <2> QED BY <1>1, <1>2, <1>5, <2>1, <2>2
<1> HIDE DEF s2
<1>7. Held(s2) = Held(s) /\ \A b : HeldBy(s2, b) = HeldBy(s, b)
  BY <1>6 DEF Held, HeldBy
<1> HIDE DEF q
<1>8. CASE q = r
  BY <1>8 DEF q
<1>9. CASE q = [r EXCEPT !.slots = s2]
  <2>1. q \in Game /\ q.slots = s2 /\ q.name = r.name /\ q.status = r.status /\ q.ref = r.ref
    BY <1>6, <1>9 DEF Game
  <2> QED BY <1>7, <2>1 DEF q
<1> QED BY <1>4, <1>8, <1>9

\* The roster is right, and no game has a twin, once c has reported f.
LEMMA ReportingKeeps ==
    ASSUME GameInv, NEW c \in Conns, cgame[c] # NoGame,
           NEW f \in [DOMAIN game[cgame[c]].slots -> Verdicts]
    PROVE  LET G == Put(game, cgame[c], Reporting(game[cgame[c]], cacct[c], f)) IN
           Rostered(G, cgame, cacct) /\ Twinless(G)
<1> DEFINE g == cgame[c]
           r == game[g]
           q == Reporting(r, cacct[c], f)
<1>1. /\ Rostered(game, cgame, cacct) /\ Twinless(game)
      /\ g \in DOMAIN game /\ g \in Games /\ r \in Game /\ HeldBy(r.slots, cacct[c]) # {}
  <2>1. Rostered(game, cgame, cacct) /\ Twinless(game)
    BY DEF GameInv
  <2>2. g \in DOMAIN game /\ r \in Game /\ HeldBy(r.slots, cacct[c]) # {}
    BY <2>1, RosteredPlayer
  <2> QED BY <2>1, <2>2 DEF Rostered
<1>2. /\ q \in Game /\ q.name = r.name /\ q.status = r.status /\ q.ref = r.ref
      /\ Held(q.slots) = Held(r.slots) /\ \A b : HeldBy(q.slots, b) = HeldBy(r.slots, b)
  BY <1>1, ReportingSame
<1> HIDE DEF q
<1>3. Rostered(Put(game, g, q), cgame, cacct)
  BY <1>1, <1>2, PutRostered
<1>4. Twinless(Put(game, g, q))
  BY <1>1, <1>2, PutFewer, FewerTwinless DEF Joinable
<1> QED BY <1>3, <1>4 DEF q

\* The roster depends on the accounts of players only.
LEMMA RosteredWho ==
    ASSUME NEW G, NEW at, NEW who, NEW whom, Rostered(G, at, who),
           \A c \in Conns : at[c] # NoGame => whom[c] = who[c]
    PROVE  Rostered(G, at, whom)
<1>1. \A g \in DOMAIN G, a \in Accounts : InGame(at, whom, g, a) = InGame(at, who, g, a)
  BY GameAssumption DEF InGame, Rostered
<1> QED BY <1>1 DEF Rostered

LEMMA GameInvInit == GameInit => GameInv /\ credited \subseteq CreditType
<1> SUFFICES ASSUME GameInit PROVE GameInv /\ credited \subseteq CreditType
  OBVIOUS
<1>1. DOMAIN game = {} /\ cgame = [c \in Conns |-> NoGame] /\ credited = {}
  BY DEF GameInit
<1> QED BY <1>1 DEF GameInv, Rostered, Twinless

\* c leaves its game, of which G tells more than game.
LEMMA LeaveInv ==
    ASSUME NEW G, Rostered(G, cgame, cacct), Twinless(G), NEW c \in Conns
    PROVE  /\ Rostered(After(G, c), [cgame EXCEPT ![c] = NoGame], cacct)
           /\ Twinless(After(G, c))
           /\ CreditedAfter(G, c) \subseteq CreditType
BY AfterRostered, AfterFewer, FewerTwinless, CreditedType

\* GameInv after a step that leaves the connections alone.
LEMMA GameInvKept ==
    ASSUME GameInv, UNCHANGED connVars, NEW c \in Conns, NEW g,
           Rostered(game', [cgame EXCEPT ![c] = g], cacct), Twinless(game'),
           cgame' = [cgame EXCEPT ![c] = g], g # NoGame => Known(c)
    PROVE  GameInv'
<1>1. cgame \in [Conns -> Games \cup {NoGame}]
  BY DEF GameInv, Rostered
<1>2. \A d \in Conns : cgame'[d] # NoGame => Known(d)'
  BY <1>1 DEF GameInv, Known
<1> QED BY <1>2 DEF GameInv

LEMMA JoinInv ==
    ASSUME GameInv, UNCHANGED connVars, NEW c \in Conns, Known(c), NEW g \in DOMAIN game,
           NEW pw \in BOOLEAN, Join(c, g, pw)
    PROVE  GameInv' /\ credited' \subseteq CreditType
<1> DEFINE G == After(game, c)
           at == [cgame EXCEPT ![c] = NoGame]
<1>1. /\ Rostered(game, cgame, cacct) /\ Twinless(game)
      /\ cgame \in [Conns -> Games \cup {NoGame}] /\ cacct[c] \in Accounts
  BY DEF GameInv, Rostered, Known
<1>2. CASE cgame[c] # NoGame /\ game[cgame[c]].name = game[g].name
  BY <1>2 DEF Join, NoGameStep, GameInv, Known
<1>3. CASE ~ (cgame[c] # NoGame /\ game[cgame[c]].name = game[g].name)
  <2>1. Rostered(G, at, cacct) /\ Twinless(G) /\ CreditedAfter(game, c) \subseteq CreditType
    BY <1>1, LeaveInv
  <2>2. at[c] = NoGame /\ [at EXCEPT ![c] = g] = [cgame EXCEPT ![c] = g]
    BY <1>1
  <2>3. g \in DOMAIN G
    BY <1>3 DEF After, Drop, Put
  <2>4. credited' = CreditedAfter(game, c)
    BY <1>3 DEF Join
  <2>5. \/ game' = Put(G, g, Joined(G[g], c)) /\ cgame' = [cgame EXCEPT ![c] = g]
        \/ game' = G /\ cgame' = at
    BY <1>3 DEF Join
  <2> HIDE DEF G, at
  <2>6. CASE game' = Put(G, g, Joined(G[g], c)) /\ cgame' = [cgame EXCEPT ![c] = g]
    <3>1. Rostered(game', [cgame EXCEPT ![c] = g], cacct)
      BY <1>1, <2>1, <2>2, <2>3, <2>6, JoinedRostered
    <3>2. Joined(G[g], c).name = G[g].name /\ Joined(G[g], c).status = G[g].status
      BY <1>1, <2>1, <2>3, JoinedSlots DEF Rostered
    <3>3. Twinless(game')
      BY <2>1, <2>3, <2>6, <3>2, PutFewer, FewerTwinless DEF Joinable
    <3> QED BY <2>1, <2>4, <2>6, <3>1, <3>3, GameInvKept
  <2>7. CASE game' = G /\ cgame' = at
    BY <2>1, <2>4, <2>7, GameInvKept DEF at
  <2> QED BY <2>5, <2>6, <2>7
<1> QED BY <1>2, <1>3

LEMMA CreateInv ==
    ASSUME GameInv, UNCHANGED connVars, NEW c \in Conns, Known(c), NEW g \in Games,
           NEW n \in GameNames, NEW l \in BOOLEAN, NEW s \in {"open", "full"},
           Create(c, g, n, l, s)
    PROVE  GameInv' /\ credited' \subseteq CreditType
<1> DEFINE new == [name |-> n, ladder |-> l, status |-> "open",
                   slots |-> <<>>, ref |-> 0, owner |-> NoConn]
           G == Put(game, g, new)
           in == Joined(new, c)
           r == [in EXCEPT !.status = s]
<1>1. /\ Rostered(game, cgame, cacct) /\ Twinless(game)
      /\ cgame \in [Conns -> Games \cup {NoGame}] /\ cacct[c] \in Accounts
      /\ cgame[c] = NoGame /\ g \notin DOMAIN game /\ credited' = {}
      /\ s \in {"open", "full", "started", "done"}
  BY GameAssumption DEF GameInv, Rostered, Known, Create
<1>2. new \in Game /\ new.ref = 0 /\ new.slots = <<>> /\ new.name = n
  BY DEF Game
<1>3. \A h \in DOMAIN game : game[h].name = n => ~Joinable(game[h])
  BY DEF Create, Taken, Available, Joinable
<1>4. \/ game' = Put(game, g, r) /\ cgame' = [cgame EXCEPT ![c] = g]
      \/ game' = G /\ cgame' = [cgame EXCEPT ![c] = NoGame]
  BY DEF Create
<1> HIDE DEF new
<1>5. Held(new.slots) = {}
  BY <1>2 DEF Held
<1>6. Rostered(G, cgame, cacct)
  BY <1>1, <1>2, <1>5, PutRostered
<1>7. DOMAIN G = DOMAIN game \cup {g} /\ G[g] = new /\ \A h \in DOMAIN game : G[h] = game[h]
  BY <1>1 DEF Put
<1>8. in \in Game /\ in.name = n /\ in.status = new.status
  BY <1>1, <1>2, JoinedSlots
<1>9. Put(G, g, in) = Put(game, g, in) /\ Put(Put(game, g, in), g, r) = Put(game, g, r)
  BY DEF Put
<1> HIDE DEF G, in
<1>10. r \in Game /\ r.name = n /\ r.ref = in.ref /\ r.slots = in.slots
  BY <1>1, <1>8 DEF Game
<1> HIDE DEF r
<1>11. ASSUME NEW q, q.name = n PROVE Twinless(Put(game, g, q))
  <2>1. /\ DOMAIN Put(game, g, q) = DOMAIN game \cup {g} /\ Put(game, g, q)[g] = q
        /\ \A h \in DOMAIN game : Put(game, g, q)[h] = game[h]
    BY <1>1 DEF Put
  <2> QED BY <1>1, <1>3, <1>11, <2>1 DEF Twinless
<1>12. CASE game' = Put(game, g, r) /\ cgame' = [cgame EXCEPT ![c] = g]
  <2>1. Rostered(Put(G, g, Joined(G[g], c)), [cgame EXCEPT ![c] = g], cacct)
    BY <1>1, <1>6, <1>7, JoinedRostered
  <2>2. Rostered(Put(game, g, in), [cgame EXCEPT ![c] = g], cacct)
    BY <1>7, <1>9, <2>1 DEF in
  <2> DEFINE P == Put(game, g, in)
  <2>3. g \in DOMAIN P /\ P[g] = in
    BY DEF Put
  <2> HIDE DEF P
  <2>4. Rostered(Put(P, g, r), [cgame EXCEPT ![c] = g], cacct)
    BY <1>10, <2>2, <2>3, PutRostered DEF P
  <2>5. Rostered(game', [cgame EXCEPT ![c] = g], cacct)
    BY <1>9, <1>12, <2>4 DEF P
  <2>6. Twinless(game')
    BY <1>10, <1>11, <1>12
  <2> QED BY <1>1, <1>12, <2>5, <2>6, GameInvKept
<1>13. CASE game' = G /\ cgame' = [cgame EXCEPT ![c] = NoGame]
  <2>1. Twinless(game')
    BY <1>2, <1>11, <1>13 DEF G
  <2>2. [cgame EXCEPT ![c] = NoGame] = cgame
    BY <1>1
  <2>3. Rostered(game', [cgame EXCEPT ![c] = NoGame], cacct)
    BY <1>6, <1>13, <2>2
  <2> QED BY <1>1, <1>13, <2>1, <2>3, GameInvKept
<1> QED BY <1>4, <1>12, <1>13

LEMMA SetStatusInv ==
    ASSUME GameInv, UNCHANGED connVars, NEW c \in Conns, NEW s \in Statuses, SetStatus(c, s)
    PROVE  GameInv' /\ credited' \subseteq CreditType
<1> DEFINE g == cgame[c]
           t == IF Settable(game[g].status, s) THEN s ELSE game[g].status
           r == [game[g] EXCEPT !.status = t]
<1>1. /\ Rostered(game, cgame, cacct) /\ Twinless(game)
      /\ g \in DOMAIN game /\ g \in Games /\ game[g] \in Game /\ g # NoGame
      /\ credited' = {} /\ cgame' = cgame
  BY DEF GameInv, Rostered, SetStatus
<1>2. game' = [game EXCEPT ![g] = r]
  BY <1>1 DEF SetStatus
<1>3. /\ t \in {"open", "full", "started", "done"}
      /\ t \in {"open", "full"} => game[g].status \in {"open", "full"}
  BY <1>1, GameAssumption DEF Settable, Game
<1> HIDE DEF t
<1>4. r \in Game /\ r.name = game[g].name /\ r.ref = game[g].ref /\ r.slots = game[g].slots
         /\ r.status = t
  BY <1>1, <1>3 DEF Game
<1>5. game' = Put(game, g, r)
  BY <1>1, <1>2 DEF Put
<1> HIDE DEF r
<1>6. Rostered(game', cgame, cacct)
  BY <1>1, <1>4, <1>5, PutRostered
<1>7. Twinless(game')
  BY <1>1, <1>3, <1>4, <1>5, PutFewer, FewerTwinless DEF Joinable
<1> QED BY <1>1, <1>6, <1>7 DEF GameInv, Known

LEMMA QuitInv ==
    ASSUME GameInv, UNCHANGED connVars, NEW c \in Conns, Quit(c)
    PROVE  GameInv' /\ credited' \subseteq CreditType
<1>1. Rostered(game, cgame, cacct) /\ Twinless(game)
  BY DEF GameInv
<1> QED BY <1>1, LeaveInv, GameInvKept DEF Quit

LEMMA ReportInv ==
    ASSUME GameInv, UNCHANGED connVars, NEW c \in Conns, Report(c)
    PROVE  GameInv' /\ credited' \subseteq CreditType
<1> DEFINE g == cgame[c]
           F == Reports(game[g].slots, cacct[c])
<1>1. Rostered(game, cgame, cacct) /\ Twinless(game)
  BY DEF GameInv
<1>2. /\ g # NoGame /\ cgame' = [cgame EXCEPT ![c] = NoGame]
      /\ \E G \in {game} \cup {Put(game, g, Reporting(game[g], cacct[c], f)) : f \in F} :
            game' = After(G, c) /\ credited' = CreditedAfter(G, c)
  BY DEF Report
<1>3. PICK G \in {game} \cup {Put(game, g, Reporting(game[g], cacct[c], f)) : f \in F} :
          game' = After(G, c) /\ credited' = CreditedAfter(G, c)
  BY <1>2
<1>4. ASSUME NEW f \in F
      PROVE  LET H == Put(game, g, Reporting(game[g], cacct[c], f)) IN
             Rostered(H, cgame, cacct) /\ Twinless(H)
  <2>1. f \in [DOMAIN game[g].slots -> Verdicts]
    BY DEF Reports, Verdicts
  <2> QED BY <1>2, <2>1, ReportingKeeps
<1>5. Rostered(G, cgame, cacct) /\ Twinless(G)
  BY <1>1, <1>4
<1>6. /\ Rostered(game', [cgame EXCEPT ![c] = NoGame], cacct) /\ Twinless(game')
      /\ credited' \subseteq CreditType
  BY <1>3, <1>5, LeaveInv
<1> QED BY <1>2, <1>6, GameInvKept

LEMMA LostInv ==
    ASSUME GameInv, ConnInv, NEW c \in Conns, Free(c), Lost(c)
    PROVE  GameInv' /\ credited' \subseteq CreditType
<1> DEFINE g == cgame[c]
           f == [i \in DOMAIN game[g].slots |->
                    IF game[g].slots[i].acct = cacct[c] THEN "disconnect" ELSE "none"]
           G == IF g # NoGame /\ game[g].status = "started"
                THEN Put(game, g, Reporting(game[g], cacct[c], f)) ELSE game
           at == [cgame EXCEPT ![c] = NoGame]
<1>1. Rostered(game, cgame, cacct) /\ Twinless(game) /\ cgame \in [Conns -> Games \cup {NoGame}]
  BY DEF GameInv, Rostered
<1>2. f \in [DOMAIN game[g].slots -> Verdicts]
  BY DEF Verdicts
<1>3. game' = After(G, c) /\ credited' = CreditedAfter(G, c) /\ cgame' = at
  BY DEF Lost
<1>4. Rostered(G, cgame, cacct) /\ Twinless(G)
  <2> HIDE DEF f
  <2> QED BY <1>1, <1>2, ReportingKeeps
<1> HIDE DEF G
<1>5. /\ Rostered(game', at, cacct) /\ Twinless(game')
      /\ credited' \subseteq CreditType
  BY <1>3, <1>4, LeaveInv
<1>6. \A d \in Conns : at[d] # NoGame => /\ d # c /\ cgame[d] # NoGame
                                         /\ cacct'[d] = cacct[d] /\ cstate'[d] = cstate[d]
  BY <1>1 DEF Free, ConnInv, ConnTypeOK
<1>7. Rostered(game', at, cacct')
  BY <1>5, <1>6, RosteredWho
<1>8. \A d \in Conns : at[d] # NoGame => Known(d)'
  BY <1>6 DEF GameInv, Known
<1> QED BY <1>3, <1>5, <1>7, <1>8 DEF GameInv

LEMMA GameInvNext ==
    ASSUME ConnInv, ChatInv, GameInv, credited \subseteq CreditType, GameMove
    PROVE  GameInv' /\ credited' \subseteq CreditType
<1>1. CASE UNCHANGED <<connVars, gameVars>>
  BY <1>1 DEF gameVars, GameInv, Known
<1>2. CASE (Calm \/ \E c \in Conns : Spare(c)) /\ NoGameStep
  <2>1. \A c \in Conns : Known(c) => Known(c)' /\ cacct'[c] = cacct[c]
    <3>1. CASE UNCHANGED connVars \/ StartSweep \/ \E c \in Conns : Spare(c)
      BY <3>1 DEF StartSweep, Spare, Known
    <3>2. ASSUME NEW d \in Conns, Accept(d) \/ Doom(d) \/ \E a \in Accounts : Login(d, a)
          PROVE  \A c \in Conns : Known(c) => Known(c)' /\ cacct'[c] = cacct[c]
      BY <3>2 DEF Accept, Doom, Login, Known, ConnInv, ConnTypeOK
    <3> QED BY <1>2, <3>1, <3>2 DEF Calm
  <2>2. game' = game /\ cgame' = cgame /\ credited' = {}
    BY <1>2 DEF NoGameStep
  <2>3. \A c \in Conns : cgame[c] # NoGame => Known(c)' /\ cacct'[c] = cacct[c]
    BY <2>1 DEF GameInv
  <2>4. Rostered(game, cgame, cacct')
    BY <2>3, RosteredWho DEF GameInv
  <2> QED BY <2>2, <2>3, <2>4 DEF GameInv
<1>3. ASSUME NEW c \in Conns, Free(c), Lost(c)
      PROVE  GameInv' /\ credited' \subseteq CreditType
  BY <1>3, LostInv
<1>4. ASSUME UNCHANGED connVars, NEW c \in Conns, Quit(c)
      PROVE  GameInv' /\ credited' \subseteq CreditType
  BY <1>4, QuitInv
<1>5. ASSUME UNCHANGED connVars, NEW c \in Conns, cstate[c] = "loggedin", GameBy(c)
      PROVE  GameInv' /\ credited' \subseteq CreditType
  <2>1. Known(c)
    BY <1>5 DEF Known, ConnInv
  <2> QED BY <1>5, <2>1, JoinInv, CreateInv, SetStatusInv, ReportInv DEF GameBy, Available
<1> QED BY <1>1, <1>2, <1>3, <1>4, <1>5 DEF GameMove

LEMMA GameInvAlways == Spec => [](GameInv /\ credited \subseteq CreditType)
<1>1. Init => GameInv /\ credited \subseteq CreditType
  BY GameInvInit DEF Init
<1>2. /\ ConnInv /\ ChatInv /\ GameInv /\ credited \subseteq CreditType
      /\ [Next]_vars
      => (GameInv /\ credited \subseteq CreditType)'
  BY NextGame, GameInvNext
<1> QED BY <1>1, <1>2, ConnInvAlways, ChatInvAlways, PTL DEF Spec

\* Every variable has its type in every reachable state.
THEOREM TypeCorrect == Spec => []TypeOK
<1>1. ConnInv /\ ChatInv /\ GameInv /\ credited \subseteq CreditType => TypeOK
  BY DEF ConnInv, ChatInv, GameInv, Rostered, TypeOK, GameTypeOK, CreditType
<1> QED BY <1>1, ConnInvAlways, ChatInvAlways, GameInvAlways, PTL

\* A game counts its players right, and each account holds a place for each of its
\* connections in the game, whoever leaves, reports, is moved or is reaped: nobody is left
\* in a game that is gone, and no game outlives its last player.
THEOREM RosterCounted == Spec => []RosterExact
<1>1. GameInv => RosterExact
  BY DEF GameInv, Rostered, RosterExact, InGame
<1> QED BY <1>1, GameInvAlways, PTL

\* At most one game of a name can be joined, through every way to create, start, leave
\* and end games.
THEOREM NamesAreUnique == Spec => []NoTwinGames
<1>1. ASSUME GameInv PROVE NoTwinGames
  <2>1. SUFFICES ASSUME NEW n \in GameNames PROVE Cardinality(Available(n)) <= 1
    BY DEF NoTwinGames
  <2>2. CASE Available(n) = {}
    BY <2>2, FS_EmptySet
  <2>3. CASE Available(n) # {}
    <3>1. PICK g \in Available(n) : TRUE
      BY <2>3
    <3>2. Available(n) = {g}
      BY <1>1, <3>1 DEF GameInv, Twinless, Joinable, Available
    <3> QED BY <3>2, FS_Singleton
  <2> QED BY <2>2, <2>3
<1> QED BY <1>1, GameInvAlways, PTL

-----------------------------------------------------------------------------
(***************************************************************************)
(* Bnetd implements Matches.                                               *)
(***************************************************************************)

\* The games of G that can be joined under the name n.
Avail(G, n) == {g \in DOMAIN G : G[g].name = n /\ Joinable(G[g])}

LEMMA BoardIs ==
    GameInv => /\ Board \in [GameNames -> Games \cup {NoGame}]
               /\ \A n \in GameNames : \/ Avail(game, n) = {} /\ Board[n] = NoGame
                                       \/ Avail(game, n) = {Board[n]} /\ Board[n] \in Games
<1> SUFFICES ASSUME GameInv
             PROVE  /\ Board \in [GameNames -> Games \cup {NoGame}]
                    /\ \A n \in GameNames : \/ Avail(game, n) = {} /\ Board[n] = NoGame
                                            \/ Avail(game, n) = {Board[n]} /\ Board[n] \in Games
  OBVIOUS
<1>1. ASSUME NEW n \in GameNames
      PROVE  \/ Avail(game, n) = {} /\ Board[n] = NoGame
             \/ Avail(game, n) = {Board[n]} /\ Board[n] \in Games
  <2>1. Avail(game, n) = Available(n)
    BY DEF Avail, Available, Joinable
  <2>2. Board[n] = IF Available(n) = {} THEN NoGame ELSE CHOOSE g \in Available(n) : TRUE
    BY DEF Board
  <2>3. CASE Available(n) = {}
    BY <2>1, <2>2, <2>3
  <2>4. CASE Available(n) # {}
    <3>1. Board[n] \in Available(n)
      BY <2>2, <2>4
    <3>2. \A g, h \in Avail(game, n) : g = h
      BY DEF GameInv, Twinless, Avail
    <3>3. Avail(game, n) = {Board[n]}
      BY <2>1, <3>1, <3>2
    <3> QED BY <3>1, <3>3 DEF Available, GameInv, Rostered
  <2> QED BY <2>3, <2>4
<1>2. Board = [n \in GameNames |-> Board[n]]
  BY DEF Board
<1> QED BY <1>1, <1>2

LEMMA BoardIsNext ==
    ASSUME GameInv'
    PROVE  /\ Board' \in [GameNames -> Games \cup {NoGame}]
           /\ \A n \in GameNames : \/ Avail(game', n) = {} /\ Board'[n] = NoGame
                                   \/ Avail(game', n) = {Board'[n]} /\ Board'[n] \in Games
<1>1. (GameInv => /\ Board \in [GameNames -> Games \cup {NoGame}]
                  /\ \A n \in GameNames : \/ Avail(game, n) = {} /\ Board[n] = NoGame
                                          \/ Avail(game, n) = {Board[n]} /\ Board[n] \in Games)'
  BY BoardIs, PTL
<1> QED BY <1>1 DEF Avail

\* Is c in no game with others?
Alone(c) == \A d \in Conns \ {c} : cgame[d] # cgame[c]

\* A player who is alone is the last that the game counts.
LEMMA AloneIsLast ==
    ASSUME NEW G, Rostered(G, cgame, cacct), NEW c \in Conns, cgame[c] # NoGame, Alone(c)
    PROVE  G[cgame[c]].ref < 2
<1> DEFINE g == cgame[c]
           a == cacct[c]
           s == G[g].slots
<1>1. g \in DOMAIN G /\ G[g] \in Game /\ a \in Accounts /\ G[g].ref = Cardinality(Held(s))
  BY RosteredPlayer DEF Rostered
<1>2. s \in Seq(Slot)
  BY <1>1 DEF Game
<1> HIDE DEF s
<1>3. \A b \in Accounts : /\ Cardinality(HeldBy(s, b)) = Cardinality(InGame(cgame, cacct, g, b))
                          /\ IsFiniteSet(HeldBy(s, b))
  BY <1>1, <1>2, HeldFinite DEF Rostered, s
<1>4. InGame(cgame, cacct, g, a) = {c} /\ \A b \in Accounts \ {a} : InGame(cgame, cacct, g, b) = {}
  BY DEF InGame, Alone
<1>5. \A b \in Accounts \ {a} : HeldBy(s, b) = {}
  BY <1>3, <1>4, FS_EmptySet
<1>6. Held(s) = HeldBy(s, a)
  <2>1. \A i \in Held(s) : s[i].acct \in Accounts /\ i \in HeldBy(s, s[i].acct)
    <3>1. \A i \in Held(s) : s[i] \in Slot
      BY <1>2 DEF Held
    <3>2. \A i \in Held(s) : s[i].acct \in Accounts
      BY <3>1 DEF Slot
    <3> QED BY <3>2 DEF HeldBy
  <2>2. HeldBy(s, a) \subseteq Held(s)
    BY DEF HeldBy
  <2> QED BY <1>5, <2>1, <2>2
<1>7. Cardinality(Held(s)) = 1
  BY <1>1, <1>3, <1>4, <1>6, FS_Singleton
<1> QED BY <1>1, <1>7

\* When c leaves, its game can no longer be joined just if c was alone in it.
LEMMA AfterAvail ==
    ASSUME NEW G, Rostered(G, cgame, cacct), NEW c \in Conns, NEW n
    PROVE  Avail(After(G, c), n) = Avail(G, n) \ {h \in {cgame[c]} : Alone(c)}
<1> DEFINE g == cgame[c]
           r == LeftBy(G[g], c)
<1>1. CASE g = NoGame
  BY <1>1, GameAssumption DEF After, Avail, Rostered
<1>2. CASE g # NoGame
  <2>1. /\ g \in DOMAIN G /\ G[g] \in Game /\ HeldBy(G[g].slots, cacct[c]) # {} /\ G[g].ref >= 1
        /\ G[g].ref < 2 => Alone(c)
    BY <1>2, RosteredPlayer DEF Alone
  <2>2. G[g].ref < 2 <=> Alone(c)
    BY <1>2, <2>1, AloneIsLast
  <2>3. r.name = G[g].name /\ r.status = G[g].status
    BY <2>1, LeftSlots
  <2> HIDE DEF r
  <2>4. CASE Alone(c)
    <3>1. After(G, c) = Drop(G, g)
      BY <1>2, <2>1, <2>2, <2>4 DEF After, LastOut
    <3> QED BY <2>4, <3>1 DEF Drop, Avail
  <2>5. CASE ~Alone(c)
    <3>1. After(G, c) = Put(G, g, r)
      BY <1>2, <2>1, <2>2, <2>5 DEF After, LastOut, r
    <3>2. Avail(Put(G, g, r), n) = Avail(G, n)
      BY <2>1, <2>3 DEF Put, Avail, Joinable
    <3> QED BY <2>5, <3>1, <3>2
  <2> QED BY <2>4, <2>5
<1> QED BY <1>1, <1>2

\* A game that changes neither its name nor whether it can be joined.
LEMMA PutAvail ==
    ASSUME NEW G, NEW g \in DOMAIN G, NEW r, r.name = G[g].name, Joinable(r) <=> Joinable(G[g]),
           NEW n
    PROVE  Avail(Put(G, g, r), n) = Avail(G, n)
BY DEF Put, Avail

\* Leaving, seen on the board.
LEMMA LeftBoard ==
    ASSUME GameInv, GameInv', NEW c \in Conns,
           \A n \in GameNames :
              Avail(game', n) = Avail(game, n) \ {h \in {cgame[c]} : Alone(c)}
    PROVE  Board' = M!Left(c)
<1>1. /\ Board \in [GameNames -> Games \cup {NoGame}]
      /\ \A n \in GameNames : \/ Avail(game, n) = {} /\ Board[n] = NoGame
                              \/ Avail(game, n) = {Board[n]} /\ Board[n] \in Games
  BY BoardIs
<1>2. /\ Board' \in [GameNames -> Games \cup {NoGame}]
      /\ \A n \in GameNames : \/ Avail(game', n) = {} /\ Board'[n] = NoGame
                              \/ Avail(game', n) = {Board'[n]} /\ Board'[n] \in Games
  BY BoardIsNext
<1>3. M!Left(c) = [n \in GameNames |-> IF Board[n] = cgame[c] /\ Alone(c) THEN NoGame ELSE Board[n]]
  BY DEF M!Left, Alone
<1>4. ASSUME NEW n \in GameNames
      PROVE  Board'[n] = IF Board[n] = cgame[c] /\ Alone(c) THEN NoGame ELSE Board[n]
  <2>1. CASE Avail(game, n) = {}
    BY <1>1, <1>2, <2>1
  <2>2. CASE Avail(game, n) = {Board[n]} /\ Board[n] \in Games
    <3>1. CASE Board[n] = cgame[c] /\ Alone(c)
      BY <1>2, <2>2, <3>1
    <3>2. CASE ~ (Board[n] = cgame[c] /\ Alone(c))
      <4>1. Avail(game', n) = {Board[n]}
        BY <2>2, <3>2
      <4> QED BY <1>2, <3>2, <4>1
    <3> QED BY <3>1, <3>2
  <2> QED BY <1>1, <2>1, <2>2
<1> QED BY <1>2, <1>3, <1>4

\* The board stays when the games that can be joined stay.
LEMMA SameBoard ==
    ASSUME GameInv, GameInv', \A n \in GameNames : Avail(game', n) = Avail(game, n)
    PROVE  Board' = Board
<1>1. /\ Board \in [GameNames -> Games \cup {NoGame}]
      /\ \A n \in GameNames : \/ Avail(game, n) = {} /\ Board[n] = NoGame
                              \/ Avail(game, n) = {Board[n]} /\ Board[n] \in Games
  BY BoardIs
<1>2. /\ Board' \in [GameNames -> Games \cup {NoGame}]
      /\ \A n \in GameNames : \/ Avail(game', n) = {} /\ Board'[n] = NoGame
                              \/ Avail(game', n) = {Board'[n]} /\ Board'[n] \in Games
  BY BoardIsNext
<1>3. \A n \in GameNames : Board'[n] = Board[n]
  BY <1>1, <1>2
<1> QED BY <1>1, <1>2, <1>3

\* c leaves its game, of which G tells the name and whether it can be joined.
LEMMA LeaveMatch ==
    ASSUME GameInv, GameInv', NEW c \in Conns, NEW G, Rostered(G, cgame, cacct),
           \A n \in GameNames : Avail(G, n) = Avail(game, n),
           game' = After(G, c), cgame' = [cgame EXCEPT ![c] = NoGame]
    PROVE  [M!Next]_<<cgame, Board>>
<1>1. \A n \in GameNames : Avail(game', n) = Avail(game, n) \ {h \in {cgame[c]} : Alone(c)}
  BY AfterAvail
<1>2. CASE cgame[c] = NoGame
  <2>1. cgame' = cgame
    BY <1>2 DEF GameInv, Rostered
  <2>2. \A n \in GameNames : Avail(game', n) = Avail(game, n)
    BY <1>2 DEF After
  <2> QED BY <2>1, <2>2, SameBoard
<1>3. CASE cgame[c] # NoGame
  <2>1. Board' = M!Left(c)
    BY <1>1, LeftBoard
  <2> QED BY <1>3, <2>1 DEF M!Next, M!Leave
<1> QED BY <1>2, <1>3

LEMMA ReportingAvail ==
    ASSUME GameInv, NEW c \in Conns, cgame[c] # NoGame,
           NEW f \in [DOMAIN game[cgame[c]].slots -> Verdicts], NEW n
    PROVE  Avail(Put(game, cgame[c], Reporting(game[cgame[c]], cacct[c], f)), n) = Avail(game, n)
<1> DEFINE g == cgame[c]
           q == Reporting(game[g], cacct[c], f)
<1>1. g \in DOMAIN game /\ game[g] \in Game /\ HeldBy(game[g].slots, cacct[c]) # {}
  BY RosteredPlayer DEF GameInv
<1>2. q.name = game[g].name /\ q.status = game[g].status
  BY <1>1, ReportingSame
<1> HIDE DEF q
<1>3. Avail(Put(game, g, q), n) = Avail(game, n)
  BY <1>1, <1>2, PutAvail DEF Joinable
<1> QED BY <1>3 DEF q

LEMMA JoinMatch ==
    ASSUME GameInv, GameInv', NEW c \in Conns, cacct[c] \in Accounts, NEW n \in GameNames,
           NEW g \in Available(n), NEW pw \in BOOLEAN, Join(c, g, pw)
    PROVE  [M!Next]_<<cgame, Board>>
<1> DEFINE G == After(game, c)
           at == [cgame EXCEPT ![c] = NoGame]
<1>1. Rostered(game, cgame, cacct) /\ g \in DOMAIN game /\ game[g].name = n
  BY DEF GameInv, Available
<1>2. CASE NoGameStep
  BY <1>2, SameBoard DEF NoGameStep
<1>3. CASE /\ ~ (cgame[c] # NoGame /\ game[cgame[c]].name = game[g].name)
           /\ game' = Put(G, g, Joined(G[g], c)) /\ cgame' = [cgame EXCEPT ![c] = g]
  <2>1. Rostered(G, at, cacct)
    BY <1>1, AfterRostered
  <2>2. g \in DOMAIN G
    BY <1>1, <1>3 DEF After, Drop, Put
  <2>3. \A m \in GameNames : Avail(G, m) = Avail(game, m) \ {h \in {cgame[c]} : Alone(c)}
    BY <1>1, AfterAvail
  <2> HIDE DEF G
  <2>4. Joined(G[g], c).name = G[g].name /\ Joined(G[g], c).status = G[g].status
    BY <2>1, <2>2, JoinedSlots DEF Rostered
  <2>5. \A m \in GameNames : Avail(game', m) = Avail(G, m)
    BY <1>3, <2>2, <2>4, PutAvail DEF Joinable
  <2>6. Board' = M!Left(c)
    BY <2>3, <2>5, LeftBoard
  <2>7. Board[n] = g /\ g # NoGame
    <3>1. g \in Avail(game, n)
      BY DEF Avail, Available, Joinable
    <3> QED BY <1>1, <3>1, BoardIs, GameAssumption DEF Rostered
  <2>8. g # cgame[c]
    BY <1>3, <2>7
  <2>9. M!Enter(c, n)
    BY <1>3, <2>6, <2>7, <2>8 DEF M!Enter
  <2> QED BY <2>9 DEF M!Next
<1>4. CASE game' = G /\ cgame' = at
  BY <1>1, <1>4, LeaveMatch
<1> QED BY <1>2, <1>3, <1>4 DEF Join

LEMMA CreateMatch ==
    ASSUME GameInv, GameInv', NEW c \in Conns, cacct[c] \in Accounts, NEW g \in Games,
           NEW n \in GameNames, NEW l \in BOOLEAN, NEW s \in {"open", "full"},
           Create(c, g, n, l, s)
    PROVE  [M!Next]_<<cgame, Board>>
<1> DEFINE new == [name |-> n, ladder |-> l, status |-> "open",
                   slots |-> <<>>, ref |-> 0, owner |-> NoConn]
<1>1. /\ Rostered(game, cgame, cacct) /\ cgame \in [Conns -> Games \cup {NoGame}]
      /\ cgame[c] = NoGame /\ g \notin DOMAIN game /\ Avail(game, n) = {}
  BY DEF GameInv, Rostered, Create, Taken, Available, Avail, Joinable
<1>2. new \in Game
  BY DEF Game
<1>3. PICK r : /\ game' = Put(game, g, r) /\ r.name = n /\ Joinable(r)
               /\ cgame' \in {cgame, [cgame EXCEPT ![c] = g]}
  <2> DEFINE in == Joined(new, c)
             q == [in EXCEPT !.status = s]
  <2>1. \/ game' = Put(game, g, q) /\ cgame' = [cgame EXCEPT ![c] = g]
        \/ game' = Put(game, g, new) /\ cgame' = [cgame EXCEPT ![c] = NoGame]
    BY DEF Create
  <2>2. in \in Game /\ in.name = n
    BY <1>2, JoinedSlots
  <2>3. new.name = n /\ Joinable(new)
    BY DEF Joinable
  <2> HIDE DEF new, in
  <2>4. q.name = n /\ Joinable(q)
    BY <2>2 DEF Game, Joinable
  <2>5. [cgame EXCEPT ![c] = NoGame] = cgame
    BY <1>1
  <2> HIDE DEF q
  <2> QED BY <2>1, <2>3, <2>4, <2>5
<1>4. Avail(game', n) = {g} /\ \A m \in GameNames \ {n} : Avail(game', m) = Avail(game, m)
  <2>1. /\ DOMAIN game' = DOMAIN game \cup {g} /\ game'[g] = r
        /\ \A h \in DOMAIN game : game'[h] = game[h]
    BY <1>1, <1>3 DEF Put
  <2>2. \A h \in DOMAIN game' : h = g \/ (h \in DOMAIN game /\ h # g /\ game'[h] = game[h])
    BY <1>1, <2>1
  <2>3. Avail(game', n) = {g}
    <3>1. g \in Avail(game', n)
      BY <1>3, <2>1 DEF Avail
    <3>2. ASSUME NEW h \in Avail(game', n), h # g PROVE FALSE
      <4>1. h \in Avail(game, n)
        BY <2>2, <3>2 DEF Avail
      <4> QED BY <1>1, <4>1
    <3> QED BY <3>1, <3>2
  <2>4. ASSUME NEW m \in GameNames \ {n} PROVE Avail(game', m) = Avail(game, m)
    <3>1. g \notin Avail(game', m)
      BY <1>3, <2>1 DEF Avail
    <3>2. \A h : h \in Avail(game', m) => h \in Avail(game, m)
      BY <2>2, <3>1 DEF Avail
    <3>3. \A h : h \in Avail(game, m) => h \in Avail(game', m)
      BY <2>1 DEF Avail
    <3> QED BY <3>2, <3>3
  <2> QED BY <2>3, <2>4
<1>5. /\ Board \in [GameNames -> Games \cup {NoGame}]
      /\ \A m \in GameNames : \/ Avail(game, m) = {} /\ Board[m] = NoGame
                              \/ Avail(game, m) = {Board[m]} /\ Board[m] \in Games
  BY BoardIs
<1>6. /\ Board' \in [GameNames -> Games \cup {NoGame}]
      /\ \A m \in GameNames : \/ Avail(game', m) = {} /\ Board'[m] = NoGame
                              \/ Avail(game', m) = {Board'[m]} /\ Board'[m] \in Games
  BY BoardIsNext
<1>7. Board' = [Board EXCEPT ![n] = g]
  <2>1. Board'[n] = g
    BY <1>4, <1>6
  <2>2. \A m \in GameNames \ {n} : Board'[m] = Board[m]
    BY <1>4, <1>5, <1>6
  <2> QED BY <1>5, <1>6, <2>1, <2>2
<1>8. Board[n] = NoGame
  BY <1>1, <1>5
<1>9. ~ M!InUse(g)
  <2>1. \A d \in Conns : cgame[d] # g
    BY <1>1, GameAssumption DEF Rostered
  <2>2. \A m \in GameNames : Board[m] # g
    BY <1>1, <1>5, GameAssumption DEF Avail
  <2> QED BY <2>1, <2>2 DEF M!InUse
<1>10. M!Open(c, n, g)
  BY <1>1, <1>3, <1>7, <1>8, <1>9 DEF M!Open
<1> QED BY <1>10 DEF M!Next

LEMMA StatusMatch ==
    ASSUME GameInv, GameInv', NEW c \in Conns, NEW s \in Statuses, SetStatus(c, s)
    PROVE  [M!Next]_<<cgame, Board>>
<1> DEFINE g == cgame[c]
           t == IF Settable(game[g].status, s) THEN s ELSE game[g].status
           r == [game[g] EXCEPT !.status = t]
           n == game[g].name
<1>1. /\ Rostered(game, cgame, cacct) /\ cgame' = cgame /\ g # NoGame
      /\ g \in DOMAIN game /\ game[g] \in Game /\ n \in GameNames
  BY DEF GameInv, Rostered, SetStatus, Game
<1>2. game' = [game EXCEPT ![g] = r] /\ game' = Put(game, g, r)
  BY <1>1 DEF SetStatus, Put
<1>3. Joinable(r) => Joinable(game[g])
  BY <1>1, GameAssumption DEF Settable, Game, Joinable
<1>4. r.name = n
  BY <1>1 DEF Game
<1> HIDE DEF r
<1>5. CASE Joinable(r) <=> Joinable(game[g])
  <2>1. \A m \in GameNames : Avail(game', m) = Avail(game, m)
    <3>1. r.name = game[g].name
      BY <1>4
    <3> HIDE DEF n, g
    <3>2. \A m \in GameNames : Avail(Put(game, g, r), m) = Avail(game, m)
      BY <1>1, <1>5, <3>1, PutAvail
    <3> QED BY <1>2, <3>2
  <2> QED BY <1>1, <2>1, SameBoard
<1>6. CASE Joinable(game[g]) /\ ~Joinable(r)
  <2>1. /\ Board \in [GameNames -> Games \cup {NoGame}]
        /\ \A m \in GameNames : \/ Avail(game, m) = {} /\ Board[m] = NoGame
                                \/ Avail(game, m) = {Board[m]} /\ Board[m] \in Games
    BY BoardIs
  <2>2. /\ Board' \in [GameNames -> Games \cup {NoGame}]
        /\ \A m \in GameNames : \/ Avail(game', m) = {} /\ Board'[m] = NoGame
                                \/ Avail(game', m) = {Board'[m]} /\ Board'[m] \in Games
    BY BoardIsNext
  <2>3. g \in Avail(game, n)
    BY <1>1, <1>6 DEF Avail
  <2>4. Board[n] = g
    BY <1>1, <2>1, <2>3
  <2>5. \A m \in GameNames : Avail(game', m) = Avail(game, m) \ {g}
    <3>1. DOMAIN game' = DOMAIN game /\ game'[g] = r /\ \A h \in DOMAIN game \ {g} : game'[h] = game[h]
      BY <1>1, <1>2
    <3> QED BY <1>6, <3>1 DEF Avail
  <2>6. Board'[n] = NoGame
    BY <1>1, <2>1, <2>2, <2>4, <2>5
  <2>7. ASSUME NEW m \in GameNames, m # n PROVE Board'[m] = Board[m]
    <3>1. g \notin Avail(game, m)
      BY <2>7 DEF Avail
    <3>2. Avail(game', m) = Avail(game, m)
      BY <2>5, <3>1
    <3> QED BY <2>1, <2>2, <3>2
  <2> HIDE DEF n
  <2>8. Board' = [Board EXCEPT ![n] = NoGame]
    BY <1>1, <2>1, <2>2, <2>6, <2>7
  <2>9. M!Start(c, n)
    BY <1>1, <2>4, <2>8 DEF M!Start
  <2> QED BY <1>1, <2>9 DEF M!Next
<1> QED BY <1>3, <1>5, <1>6

LEMMA MatchStep ==
    ASSUME ConnInv, GameInv, GameInv', GameMove
    PROVE  [M!Next]_<<cgame, Board>>
<1>1. CASE game' = game /\ cgame' = cgame
  BY <1>1, SameBoard
<1>2. ASSUME NEW c \in Conns, Lost(c)
      PROVE  [M!Next]_<<cgame, Board>>
  <2> DEFINE g == cgame[c]
             f == [i \in DOMAIN game[g].slots |->
                      IF game[g].slots[i].acct = cacct[c] THEN "disconnect" ELSE "none"]
             G == IF g # NoGame /\ game[g].status = "started"
                  THEN Put(game, g, Reporting(game[g], cacct[c], f)) ELSE game
  <2>1. f \in [DOMAIN game[g].slots -> Verdicts]
    BY DEF Verdicts
  <2>2. game' = After(G, c) /\ cgame' = [cgame EXCEPT ![c] = NoGame]
    BY <1>2 DEF Lost
  <2> HIDE DEF f
  <2>3. Rostered(G, cgame, cacct)
    BY <2>1, ReportingKeeps DEF GameInv
  <2>4. \A n \in GameNames : Avail(G, n) = Avail(game, n)
    BY <2>1, ReportingAvail
  <2> HIDE DEF G
  <2> QED BY <2>2, <2>3, <2>4, LeaveMatch
<1>3. ASSUME NEW c \in Conns, Quit(c)
      PROVE  [M!Next]_<<cgame, Board>>
  BY <1>3, LeaveMatch DEF Quit, GameInv
<1>4. ASSUME NEW c \in Conns, Report(c)
      PROVE  [M!Next]_<<cgame, Board>>
  <2> DEFINE g == cgame[c]
             F == Reports(game[g].slots, cacct[c])
  <2>1. /\ g # NoGame /\ cgame' = [cgame EXCEPT ![c] = NoGame]
        /\ \E G \in {game} \cup {Put(game, g, Reporting(game[g], cacct[c], f)) : f \in F} :
              game' = After(G, c)
    BY <1>4 DEF Report
  <2>2. PICK G \in {game} \cup {Put(game, g, Reporting(game[g], cacct[c], f)) : f \in F} :
            game' = After(G, c)
    BY <2>1
  <2>3. ASSUME NEW f \in F
        PROVE  LET H == Put(game, g, Reporting(game[g], cacct[c], f)) IN
               Rostered(H, cgame, cacct) /\ \A n \in GameNames : Avail(H, n) = Avail(game, n)
    <3>1. f \in [DOMAIN game[g].slots -> Verdicts]
      BY DEF Reports, Verdicts
    <3> QED BY <2>1, <3>1, ReportingKeeps, ReportingAvail
  <2>4. Rostered(G, cgame, cacct) /\ \A n \in GameNames : Avail(G, n) = Avail(game, n)
    BY <2>3 DEF GameInv
  <2> QED BY <2>1, <2>2, <2>4, LeaveMatch
<1>5. ASSUME NEW c \in Conns, cstate[c] = "loggedin", GameBy(c)
      PROVE  [M!Next]_<<cgame, Board>>
  <2>1. cacct[c] \in Accounts
    BY <1>5 DEF ConnInv
  <2> QED BY <1>4, <1>5, <2>1, JoinMatch, CreateMatch, StatusMatch DEF GameBy
<1> QED BY <1>1, <1>2, <1>3, <1>5 DEF GameMove, gameVars, NoGameStep

\* The games of bnetd are a board of matches: a name shows one match that can be entered,
\* nobody enters a match that has started, and it goes with its last player.
THEOREM GamesAreMatches == Spec => MatchesSpec
<1>1. Init => M!Init
  BY DEF Init, GameInit, M!Init, Board, Available
<1>2. ConnInv /\ ChatInv /\ GameInv /\ GameInv' /\ [Next]_vars => [M!Next]_<<cgame, Board>>
  BY NextGame, MatchStep
<1>3. GameInv /\ credited \subseteq CreditType => GameInv
  OBVIOUS
<1> QED BY <1>1, <1>2, <1>3, ConnInvAlways, ChatInvAlways, GameInvAlways, PTL
        DEF Spec, MatchesSpec, M!Spec
=============================================================================
