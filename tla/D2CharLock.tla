------------------------------ MODULE D2CharLock ------------------------------
(***************************************************************************)
(* The character locks of d2dbs, the database server of a Diablo II realm  *)
(* (src/pvpgn/src/d2dbs/charlock.cpp, dbspacket.cpp, dbserver.cpp).        *)
(*                                                                         *)
(* A game server asks d2dbs for the save of a character that joins one of  *)
(* its games; d2dbs locks the character for that server before it answers, *)
(* and refuses it to everybody until the server says the player has left,  *)
(* or until the server's connection ends.  d2dbs is one thread around      *)
(* select(): it handles the requests of a connection in order, one at a    *)
(* time, and a server is known only by the address it connects from.       *)
(*                                                                         *)
(* A step is the handling of one request, connection event or timeout, or  *)
(* a move of a game server (external: only its messages are in src/).  The *)
(* contents of the saves are left out.                                     *)
(***************************************************************************)
EXTENDS Naturals, Sequences, FiniteSets

CONSTANTS
    Chars,      \* character names (the table ignores case and realm)
    Servers,    \* addresses game servers connect from
    Conns,      \* connections (t_d2dbs_connection)
    AddrOf,     \* AddrOf[k]: the address connection k comes from
    Listed,     \* the addresses of the d2gs list of the preferences
    NoServer,   \* the owner of a character that is not locked
    Loads,      \* outcomes of reading a save: a subset of {"ok", "failed"}
    Relocks,    \* do game servers lock again what they play when they reconnect?
    BufRoom,    \* replies that fit a connection's WriteBuf
    MaxMsgs     \* bound: requests and replies of one connection under way

ASSUME AddrAssumption == AddrOf \in [Conns -> Servers] /\ Listed \subseteq Servers
ASSUME OwnerAssumption == NoServer \notin Servers
ASSUME LoadsAssumption == Loads \subseteq {"ok", "failed"}
ASSUME BoundAssumption == BufRoom \in Nat \ {0} /\ MaxMsgs \in Nat /\ Relocks \in BOOLEAN

VARIABLES
    cstats,     \* cstats[k]: "closed", "accepted" (stats 0) or "verified"
    lock,       \* lock[x]: the server character x is locked for, or NoServer
    inbox,      \* inbox[k]: requests sent on k and not handled yet, oldest first
    outbox,     \* outbox[k]: replies in WriteBuf of k the server has not read
    granted,    \* granted[k]: characters the server was given in session k
    claimed,    \* claimed[k]: characters the server locked again in session k
    peer        \* peer[k]: "up", or "down" when the server fell silent

vars == <<cstats, lock, inbox, outbox, granted, claimed, peer>>

Requests == [op : {"get", "save", "lock", "unlock"}, x : Chars]
Replies  == [op : {"success", "failed", "locked", "saved"}, x : Chars]
Msg(op, x) == [op |-> op, x |-> x]

\* The messages of a queue.
In(m, q) == \E i \in 1..Len(q) : q[i] = m

TypeOK ==
    /\ cstats \in [Conns -> {"closed", "accepted", "verified"}]
    /\ lock \in [Chars -> Servers \cup {NoServer}]
    /\ inbox \in [Conns -> Seq(Requests)]
    /\ outbox \in [Conns -> Seq(Replies)]
    /\ \A k \in Conns : Len(outbox[k]) <= BufRoom
    /\ granted \in [Conns -> SUBSET Chars]
    /\ claimed \in [Conns -> SUBSET Chars]
    /\ peer \in [Conns -> {"up", "down"}]

Init ==
    /\ cstats = [k \in Conns |-> "closed"]
    /\ lock = [x \in Chars |-> NoServer]
    /\ inbox = [k \in Conns |-> <<>>]
    /\ outbox = [k \in Conns |-> <<>>]
    /\ granted = [k \in Conns |-> {}]
    /\ claimed = [k \in Conns |-> {}]
    /\ peer = [k \in Conns |-> "up"]

-----------------------------------------------------------------------------
(***************************************************************************)
(* Connections.                                                            *)
(***************************************************************************)

\* dbs_server_loop accepts a connection; dbs_server_list_add_socket clears it.
Accept(k) ==
    /\ cstats[k] = "closed"
    /\ cstats' = [cstats EXCEPT ![k] = "accepted"]
    /\ peer' = [peer EXCEPT ![k] = "up"]
    /\ UNCHANGED <<lock, inbox, outbox, granted, claimed>>

\* Mutants of LocksWithout: the locks outlive the connection; a connection that
\* was never verified takes the locks of its address along.
LocksKept(K) == lock
LocksWithoutAny(K) ==
    [x \in Chars |-> IF \E k \in K : AddrOf[k] = lock[x] THEN NoServer ELSE lock[x]]

\* The lock table after the connections of K are shut down: a verified one
\* takes the locks of its server with it.
LocksWithout(K) ==
    [x \in Chars |-> IF \E k \in K : cstats[k] = "verified" /\ AddrOf[k] = lock[x]
                     THEN NoServer ELSE lock[x]]

\* dbs_server_shutdown_connection on every connection of K.
Shutdown(K) ==
    /\ lock' = LocksWithout(K)
    /\ inbox' = [k \in Conns |-> IF k \in K THEN <<>> ELSE inbox[k]]
    /\ outbox' = [k \in Conns |-> IF k \in K THEN <<>> ELSE outbox[k]]
    /\ granted' = [k \in Conns |-> IF k \in K THEN {} ELSE granted[k]]
    /\ claimed' = [k \in Conns |-> IF k \in K THEN {} ELSE claimed[k]]
    /\ UNCHANGED peer

\* Mutant of Previous: only connections that are not verified yet are replaced.
PreviousUnverified(k) ==
    {j \in Conns \ {k} : cstats[j] = "accepted" /\ AddrOf[j] = AddrOf[k]}

\* The connections a newly verified connection k replaces.
Previous(k) ==
    {j \in Conns \ {k} : cstats[j] # "closed" /\ AddrOf[j] = AddrOf[k]}

\* The first byte of a connection: the address must be listed, and every other
\* connection from it is destroyed, verified or not.
Verify(k) ==
    /\ cstats[k] = "accepted"
    /\ AddrOf[k] \in Listed
    /\ cstats' = [j \in Conns |-> IF j = k THEN "verified"
                                  ELSE IF j \in Previous(k) THEN "closed" ELSE cstats[j]]
    /\ Shutdown(Previous(k))

\* A connection ends: read or write error, a malformed request, an address
\* that is not listed, or dbs_check_timeout.
Close(k) ==
    /\ cstats[k] # "closed"
    /\ cstats' = [cstats EXCEPT ![k] = "closed"]
    /\ Shutdown({k})

\* d2dbs stops, in dbs_on_exit or in a crash, and starts with an empty table.
Restart ==
    /\ \E k \in Conns : cstats[k] # "closed"
    /\ cstats' = [k \in Conns |-> "closed"]
    /\ lock' = [x \in Chars |-> NoServer]
    /\ inbox' = [k \in Conns |-> <<>>]
    /\ outbox' = [k \in Conns |-> <<>>]
    /\ granted' = [k \in Conns |-> {}]
    /\ claimed' = [k \in Conns |-> {}]
    /\ UNCHANGED peer

-----------------------------------------------------------------------------
(***************************************************************************)
(* Requests: dbs_packet_handle takes the oldest one of a verified          *)
(* connection; it leaves ReadBuf only if the handler returns 1.            *)
(***************************************************************************)

\* The oldest request of connection k is an op on character x.
Heads(k, op, x) ==
    /\ cstats[k] = "verified"
    /\ inbox[k] # <<>>
    /\ Head(inbox[k]) = Msg(op, x)

Consume(k) == inbox' = [inbox EXCEPT ![k] = Tail(inbox[k])]

\* Mutant of Fits: off by one.
FitsOneMore(k) == Len(outbox[k]) <= BufRoom

Fits(k) == Len(outbox[k]) < BufRoom

Reply(k, op, x) == outbox' = [outbox EXCEPT ![k] = Append(outbox[k], Msg(op, x))]

\* cl_query_charlock_status: is the character in the table?
Locked(x) == lock[x] # NoServer

\* Mutant of Unlocked: the owner is compared the wrong way round.
UnlockedForOthers(x, s) == IF lock[x] # s THEN [lock EXCEPT ![x] = NoServer] ELSE lock

\* The table after cl_unlock_char: only the owner's lock is removed.
Unlocked(x, s) == IF lock[x] = s THEN [lock EXCEPT ![x] = NoServer] ELSE lock

\* Mutant of GetResults: cl_lock_char is relied upon, which succeeds on a
\* character that is locked already.
GetResultsUnchecked(k, x) ==
    {<<"success", IF Locked(x) THEN lock ELSE [lock EXCEPT ![x] = AddrOf[k]]>>}

\* The results dbs_packet_getdata can come to, each with the lock table it
\* leaves.  When the save cannot be read, the lock just taken is released for
\* `gsid', a variable only set when the character was locked: whether that is
\* the server's own number is chance.
GetResults(k, x) ==
    IF Locked(x) THEN {<<"locked", lock>>}
    ELSE {<<"success", [lock EXCEPT ![x] = AddrOf[k]]>> : o \in Loads \cap {"ok"}}
         \cup {<<"failed", l>> : l \in IF "failed" \in Loads
                                       THEN {lock, [lock EXCEPT ![x] = AddrOf[k]]} ELSE {}}

\* dbs_packet_getdata on a charsave: the table is changed first, then the
\* reply is dropped and the request kept if WriteBuf is full.
GetData(k) ==
    \E x \in Chars :
      /\ Heads(k, "get", x)
      /\ \E r \in GetResults(k, x) :
           /\ lock' = r[2]
           /\ IF Fits(k) THEN Reply(k, r[1], x) /\ Consume(k)
                         ELSE UNCHANGED <<inbox, outbox>>
      /\ UNCHANGED <<cstats, granted, claimed, peer>>

\* dbs_packet_savedata: the lock is not looked at.  With WriteBuf full the save
\* is written and the request kept, to be written again.
SaveData(k) ==
    \E x \in Chars :
      /\ Heads(k, "save", x)
      /\ Fits(k)
      /\ \E op \in {"saved", "failed"} : Reply(k, op, x)
      /\ Consume(k)
      /\ UNCHANGED <<cstats, lock, granted, claimed, peer>>

\* dbs_packet_charlock, lockstatus set: cl_lock_char leaves a locked character
\* alone and still returns 0; there is no reply.
LockChar(k) ==
    \E x \in Chars :
      /\ Heads(k, "lock", x)
      /\ lock' = IF Locked(x) THEN lock ELSE [lock EXCEPT ![x] = AddrOf[k]]
      /\ Consume(k)
      /\ UNCHANGED <<cstats, outbox, granted, claimed, peer>>

\* dbs_packet_charlock, lockstatus clear.
UnlockChar(k) ==
    \E x \in Chars :
      /\ Heads(k, "unlock", x)
      /\ lock' = Unlocked(x, AddrOf[k])
      /\ Consume(k)
      /\ UNCHANGED <<cstats, outbox, granted, claimed, peer>>

-----------------------------------------------------------------------------
(***************************************************************************)
(* A game server (external).                                               *)
(***************************************************************************)

GsCanSend(k) ==
    /\ cstats[k] # "closed"
    /\ peer[k] = "up"
    /\ Len(inbox[k]) + Len(outbox[k]) < MaxMsgs

Send(k, op, x) == inbox' = [inbox EXCEPT ![k] = Append(inbox[k], Msg(op, x))]

\* The server has asked for x, or been answered, and does not know the answer.
Asking(k, x) ==
    \/ In(Msg("get", x), inbox[k])
    \/ \E op \in {"success", "failed", "locked"} : In(Msg(op, x), outbox[k])

\* A player joins a game with character x: its save is asked for.
GsGet(k, x) ==
    /\ GsCanSend(k)
    /\ x \notin granted[k] \cup claimed[k]
    /\ ~Asking(k, x)
    /\ Send(k, "get", x)
    /\ UNCHANGED <<cstats, lock, outbox, granted, claimed, peer>>

\* The server saves a character it plays.
GsSave(k, x) ==
    /\ GsCanSend(k)
    /\ x \in granted[k] \cup claimed[k]
    /\ Send(k, "save", x)
    /\ UNCHANGED <<cstats, lock, outbox, granted, claimed, peer>>

\* The server locks again a character it has played since an earlier session.
GsLock(k, x) ==
    /\ Relocks
    /\ GsCanSend(k)
    /\ x \notin granted[k] \cup claimed[k]
    /\ ~Asking(k, x)
    /\ Send(k, "lock", x)
    /\ claimed' = [claimed EXCEPT ![k] = @ \cup {x}]
    /\ UNCHANGED <<cstats, lock, outbox, granted, peer>>

\* The player of character x leaves.
GsLeave(k, x) ==
    /\ GsCanSend(k)
    /\ x \in granted[k] \cup claimed[k]
    /\ Send(k, "unlock", x)
    /\ granted' = [granted EXCEPT ![k] = @ \ {x}]
    /\ claimed' = [claimed EXCEPT ![k] = @ \ {x}]
    /\ UNCHANGED <<cstats, lock, outbox, peer>>

\* The server reads a reply; a success gives it the character.
GsRead(k) ==
    /\ peer[k] = "up"
    /\ outbox[k] # <<>>
    /\ LET r == Head(outbox[k]) IN
         granted' = [granted EXCEPT ![k] = IF r.op = "success" THEN @ \cup {r.x} ELSE @]
    /\ outbox' = [outbox EXCEPT ![k] = Tail(@)]
    /\ UNCHANGED <<cstats, lock, inbox, claimed, peer>>

\* The server falls silent: it crashed, or its network did.
GsDown(k) ==
    /\ cstats[k] # "closed"
    /\ peer[k] = "up"
    /\ peer' = [peer EXCEPT ![k] = "down"]
    /\ UNCHANGED <<cstats, lock, inbox, outbox, granted, claimed>>

-----------------------------------------------------------------------------
\* dbs_packet_handle on a request.
HandleRequest(k) == GetData(k) \/ SaveData(k) \/ LockChar(k) \/ UnlockChar(k)

Next ==
    \/ Restart
    \/ \E k \in Conns : Accept(k)
    \/ \E k \in Conns : Verify(k)
    \/ \E k \in Conns : Close(k)
    \/ \E k \in Conns : GetData(k)
    \/ \E k \in Conns : SaveData(k)
    \/ \E k \in Conns : LockChar(k)
    \/ \E k \in Conns : UnlockChar(k)
    \/ \E k \in Conns, x \in Chars : GsGet(k, x)
    \/ \E k \in Conns, x \in Chars : GsSave(k, x)
    \/ \E k \in Conns, x \in Chars : GsLock(k, x)
    \/ \E k \in Conns, x \in Chars : GsLeave(k, x)
    \/ \E k \in Conns : GsRead(k)
    \/ \E k \in Conns : GsDown(k)

Spec == Init /\ [][Next]_vars

\* dbs_server_loop calls dbs_packet_handle for every connection in every turn
\* and, by dbs_check_timeout, closes a connection whose server has not answered
\* the echo requests for timeout_checkinterval; a live server reads its replies.
FairSpec ==
    /\ Spec
    /\ \A k \in Conns : WF_vars(HandleRequest(k))
    /\ \A k \in Conns : WF_vars(Verify(k))
    /\ \A k \in Conns : WF_vars(peer[k] = "down" /\ Close(k))
    /\ \A k \in Conns : WF_vars(GsRead(k))

-----------------------------------------------------------------------------
(***************************************************************************)
(* Properties.                                                             *)
(***************************************************************************)

\* Two connections of one address are never both verified: dbs_verify_ipaddr
\* destroys the earlier one, which would release the later one's locks.
OneSession ==
    \A j, k \in Conns :
      (cstats[j] = "verified" /\ cstats[k] = "verified" /\ AddrOf[j] = AddrOf[k]) => j = k

\* A locked character belongs to a server that is connected: no connection
\* ends, whichever way, and leaves a lock that nobody could release.
LocksHaveSession ==
    \A x \in Chars : Locked(x) =>
      \E k \in Conns : cstats[k] = "verified" /\ AddrOf[k] = lock[x]

\* Session k has been handed character x, or is being told so.
Handed(k, x) == x \in granted[k] \/ In(Msg("success", x), outbox[k])

\* A session that was handed a character still has its lock: it is not lost
\* to other connections of the same address, nor to late requests.
GrantsLocked ==
    \A k \in Conns, x \in Chars :
      Handed(k, x) => cstats[k] = "verified" /\ lock[x] = AddrOf[k]

\* A save that reaches dbs_packet_savedata, which does not look at the lock,
\* comes from the server that has it.
SavesLocked ==
    \A k \in Conns, x \in Chars :
      In(Msg("save", x), inbox[k]) => lock[x] = AddrOf[k]

\* A lock is somebody's: the session plays the character, is being told that
\* it may, or has a request under way that settles it.
NoOrphanLock ==
    \A x \in Chars : Locked(x) =>
      \E k \in Conns :
        /\ cstats[k] = "verified" /\ AddrOf[k] = lock[x]
        /\ \/ Handed(k, x) \/ x \in claimed[k]
           \/ In(Msg("unlock", x), inbox[k])

\* The sessions handed a character are leased it exclusively.
Lease == INSTANCE CharLease WITH user <- [x \in Chars |-> {k \in Conns : Handed(k, x)}]
LeaseSpec == Lease!Spec

\* When a player leaves, or its server falls silent, the character becomes free:
\* the unlock is handled, or the end of the session does its work, whatever the
\* server asked for before.
LocksEnd ==
    \A k \in Conns, x \in Chars :
      /\ cstats[k] = "verified" /\ lock[x] = AddrOf[k]
      /\ peer[k] = "down" \/ In(Msg("unlock", x), inbox[k])
      ~> lock[x] # AddrOf[k]

\* dbs_packet_getdata logs that it unlocked a character whose save it could not
\* read, so after that answer the character is free.
FailedLoadUnlocks ==
    [][\A k \in Conns, x \in Chars :
         (GetData(k) /\ outbox'[k] = Append(outbox[k], Msg("failed", x)))
            => lock'[x] = NoServer]_vars
=============================================================================
