---------------------------- MODULE BnetChannel ----------------------------
(***************************************************************************)
(* Channels of bnetd                                                       *)
(* (src/pvpgn/src/bnetd/channel.cpp, connection.cpp, command.cpp).         *)
(*                                                                         *)
(* A channel is known by its name; permanent ones share a short name, and  *)
(* whoever asks for that gets the first with room, or a new copy when all  *)
(* are full.  Other channels are created by who enters first, who becomes  *)
(* their temporary operator, and go with their last member.  The list of   *)
(* members and the channel pointer of a connection are kept apart, and so  *)
(* is what the clients have been told: seen[c] is who the client of c      *)
(* shows beside itself.                                                    *)
(*                                                                         *)
(* Reading the configuration again empties all channels, forgets them, and *)
(* sends every member back to its channel by the short name: back holds    *)
(* the lists saved for that (channellist_old).                             *)
(*                                                                         *)
(* The actions are parts of the steps of module Bnetd.                     *)
(***************************************************************************)
EXTENDS BnetConn, Integers, FiniteSets, Sequences, SequencesExt

CONSTANTS
    Rooms,          \* names of channels
    NoRoom,         \* a NULL channel
    Short,          \* Short[r]: the short name of r
    CopyNo,         \* CopyNo[r]: the number of r among those of its short name
    Configured,     \* the channels of the configuration file
    Permanent,      \* these and the copies made of them
    Void,           \* CHANNEL_NAME_BANNED, CHANNEL_NAME_KICKED
    Cap,            \* Cap[r]: maxmembers, -1 for no limit
    Ops,            \* accounts that are operators or admins
    Muted           \* accounts with auth_mute

Names == Rooms \cup {Short[r] : r \in Rooms}

ASSUME RoomAssumption ==
    /\ NoRoom \notin Names
    /\ Void \in Configured /\ Configured \subseteq Permanent /\ Permanent \subseteq Rooms
    /\ CopyNo \in [Rooms -> Nat]
    /\ Cap \in [Rooms -> {-1} \cup (Nat \ {0})] /\ Cap[Void] = -1
    /\ Ops \subseteq Accounts /\ Muted \subseteq Accounts

VARIABLES
    live,           \* channels in the list of channels
    members,        \* members[r]: memberlist, the latest first
    where,          \* where[c]: protocol.chat.channel
    banned,         \* banned[r]: banlist
    op,             \* op[c]: protocol.chat.tmpOP_channel
    seen,           \* seen[c]: the others that the client of c shows in its channel
    back            \* back[r]: members of r still to be sent back, in that order

chatVars == <<live, members, where, banned, op, seen, back>>

ChatTypeOK ==
    /\ live \subseteq Rooms
    /\ members \in [Rooms -> Seq(Conns)]
    /\ where \in [Conns -> Rooms \cup {NoRoom}]
    /\ banned \in [Rooms -> SUBSET Accounts]
    /\ op \in [Conns -> Rooms \cup {NoRoom}]
    /\ seen \in [Conns -> SUBSET Conns]
    /\ back \in [Rooms -> Seq(Conns)]

ChatInit ==
    /\ live = Configured
    /\ members = [r \in Rooms |-> <<>>]
    /\ where = [c \in Conns |-> NoRoom]
    /\ banned = [r \in Rooms |-> {}]
    /\ op = [c \in Conns |-> NoRoom]
    /\ seen = [c \in Conns |-> {}]
    /\ back = [r \in Rooms |-> <<>>]

Elems(s) == {s[i] : i \in DOMAIN s}

\* The list s without the first node that holds c.
Without(s, c) ==
    IF c \in Elems(s)
    THEN RemoveAt(s, CHOOSE i \in DOMAIN s : s[i] = c /\ \A j \in 1..(i - 1) : s[j] # c)
    ELSE s

\* Mutant of Room: one more than the maximum.
RoomForOneMore(r, s) == Cap[r] = -1 \/ Len(s) <= Cap[r]

\* Can somebody enter r beside those in the list s?
Room(r, s) == Cap[r] = -1 \/ Len(s) < Cap[r]

Copies(n) == {r \in live : Short[r] = n}
Roomy(n) == {r \in Copies(n) : Room(r, members[r])}

(***************************************************************************)
(* channellist_find_channel_by_name, and who calls it creates what it does *)
(* not find: asking for n leads to r.                                      *)
(***************************************************************************)
LeadsTo(n, r) ==
    \/ n \in live /\ r = n
    \/ n \notin live /\ r \in Roomy(n) /\ \A s \in Roomy(n) : CopyNo[r] <= CopyNo[s]
    \/ /\ n \notin live /\ Roomy(n) = {} /\ Copies(n) # {}
       /\ r \in Rooms \ live /\ Short[r] = n /\ CopyNo[r] = Cardinality(Copies(n)) + 1
    \/ n \notin live /\ Copies(n) = {} /\ r = n /\ n \in Rooms \ Permanent

\* Mutant of TurnedAway: operators alone are not kept out by a ban list.
TurnedAwayIfFull(c, r, s) ==
    r \in live /\ cacct[c] \notin Ops /\ ~Room(r, s)

\* conn_set_channel turns c away from r, whose other members are s.
TurnedAway(c, r, s) ==
    r \in live /\ (cacct[c] \in banned[r] \/ (cacct[c] \notin Ops /\ ~Room(r, s)))

\* Mutant of Emptied: channels stay.
EmptiedNever(c) == {}

\* A temporary channel is destroyed with its ban list when its last member leaves.
Emptied(c) ==
    {r \in {where[c]} : r # NoRoom /\ r \notin Permanent /\ Len(members[r]) = 1}

BansAfter(c) == [r \in Rooms |-> IF r \in Emptied(c) THEN {} ELSE banned[r]]

\* Mutant of Listed: leaving for no channel enters NULL in the list.
ListedNull(c, r) == (live \ Emptied(c)) \cup {r}

\* The list of channels once c has left its own for r.
Listed(c, r) == (live \ Emptied(c)) \cup ({r} \ {NoRoom})

\* Mutant of Announced: the end of a marked connection is not told.
AnnouncedAlive(c, r) == r # Void /\ cacct[c] \notin Muted /\ cstate[c] # "destroy"

\* channel_message_send passes on that c leaves r, unless its account is muted.
Announced(c, r) == r # Void /\ cacct[c] \notin Muted

(***************************************************************************)
(* channel_del_connection for the channel of c, if it has one, and         *)
(* channel_add_connection for r, if it is one; not the ban lists.          *)
(***************************************************************************)
Place(c, r) ==
    LET old == where[c]
        stay == [x \in Rooms |-> IF x = old THEN Without(members[x], c) ELSE members[x]]
        founds == /\ r \notin Permanent \cup {Void} /\ stay[r] = <<>>
                  /\ cacct[c] \notin Ops
    IN
    /\ where' = [where EXCEPT ![c] = r]
    /\ members' = [x \in Rooms |-> IF x = r THEN <<c>> \o stay[x] ELSE stay[x]]
    /\ live' = Listed(c, r)
    /\ op' = [op EXCEPT ![c] = IF r # NoRoom /\ founds THEN r
                               ELSE IF @ = old THEN NoRoom ELSE @]
    /\ seen' = [m \in Conns |->
          IF m = c THEN IF r \in {NoRoom, Void} THEN {} ELSE Elems(stay[r])
          ELSE (seen[m] \ {x \in {c} : /\ old # NoRoom /\ m \in Elems(members[old])
                                       /\ Announced(c, old)})
               \cup {x \in {c} : r \notin {NoRoom, Void} /\ m \in Elems(stay[r])}]

\* conn_part_channel, conn_quit_channel and the like: c leaves its channel, if it is in one.
Part(c) ==
    IF where[c] = NoRoom THEN UNCHANGED chatVars
    ELSE Place(c, NoRoom) /\ banned' = BansAfter(c) /\ UNCHANGED back

(***************************************************************************)
(* conn_set_channel, and, as every caller does when that fails, once more  *)
(* for the void.  The channel of c is left before anything is checked.     *)
(***************************************************************************)
Enter(c, r) ==
    /\ Place(c, IF TurnedAway(c, r, members[r]) THEN Void ELSE r)
    /\ banned' = BansAfter(c)
    /\ UNCHANGED back

\* channel_rejoin: c leaves its channel and asks for it again by its full name.
Reenter(c) ==
    LET r == where[c] IN
    /\ r # NoRoom
    /\ Place(c, IF TurnedAway(c, r, Without(members[r], c)) /\ r \notin Emptied(c)
                THEN Void ELSE r)
    /\ banned' = BansAfter(c)
    /\ UNCHANGED back

\* May c use the commands of a channel operator?  Some are not for a temporary one.
IsOp(c) == where[c] # NoRoom /\ cacct[c] \in Ops
IsAnyOp(c) == where[c] # NoRoom /\ (cacct[c] \in Ops \/ op[c] = where[c])

\* The connection of account a, when that is in the channel of c.
Beside(c, a) == connof[a] # NoConn /\ where[connof[a]] = where[c]

\* /kick: the client is sent to the void, an IRC one out of the channel.
Kick(c, a, to) ==
    /\ IsAnyOp(c) /\ Beside(c, a) /\ a \notin Ops
    /\ to \in {Void, NoRoom}
    /\ Place(connof[a], to)
    /\ banned' = BansAfter(connof[a])
    /\ UNCHANGED back

\* /ban: the name goes on the list, except in the void, and its connection to the void.
Ban(c, a) ==
    LET r == where[c] IN
    /\ IsOp(c) /\ a \notin Ops
    /\ banned' = IF r = Void THEN banned ELSE [banned EXCEPT ![r] = @ \cup {a}]
    /\ IF Beside(c, a) /\ r # Void
       THEN Place(connof[a], Void)
       ELSE UNCHANGED <<live, members, where, op, seen>>
    /\ UNCHANGED back

\* /unban
Unban(c, a) ==
    /\ IsOp(c) /\ a \in banned[where[c]]
    /\ banned' = [banned EXCEPT ![where[c]] = @ \ {a}]
    /\ UNCHANGED <<live, members, where, op, seen, back>>

\* /tmpop, and /op by a temporary operator.
TmpOp(c, a) ==
    /\ IsAnyOp(c) /\ Beside(c, a) /\ a \notin Ops
    /\ op' = [op EXCEPT ![connof[a]] = where[c]]
    /\ UNCHANGED <<live, members, where, banned, seen, back>>

\* /deop, as far as temporary operators go.
Deop(c, a) ==
    /\ IsAnyOp(c) /\ connof[a] # NoConn /\ op[connof[a]] = where[c]
    /\ op' = [op EXCEPT ![connof[a]] = NoRoom]
    /\ UNCHANGED <<live, members, where, banned, seen, back>>

\* Mutant of Saved: the lists are saved as they stand.
SavedAsTheyStand == members

\* The lists of members turned around, so that who came first goes back first.
Saved == [r \in Rooms |-> Reverse(members[r])]

(***************************************************************************)
(* channellist_reload: everybody is put out, with the lists of members     *)
(* saved, and the configuration read again.                                *)
(***************************************************************************)
Reload ==
    /\ back' = Saved
    /\ members' = [r \in Rooms |-> <<>>]
    /\ where' = [c \in Conns |-> NoRoom]
    /\ op' = [c \in Conns |-> NoRoom]
    /\ seen' = [c \in Conns |-> {}]
    /\ banned' = [r \in Rooms |-> {}]
    /\ live' = Configured

\* Are there members to be sent back?
Returning == \E r \in Rooms : back[r] # <<>>

\* The next member of r is sent to t by the short name of r; the last copy comes first.
SendBack(r, t) ==
    LET c == Head(back[r]) IN
    /\ back[r] # <<>>
    /\ \A s \in Rooms : Short[s] = Short[r] /\ back[s] # <<>> => CopyNo[s] <= CopyNo[r]
    /\ LeadsTo(Short[r], t)
    /\ back' = [back EXCEPT ![r] = Tail(@)]
    /\ IF TurnedAway(c, t, members[t])
       THEN UNCHANGED <<live, members, where, op, seen, banned>>
       ELSE Place(c, t) /\ banned' = BansAfter(c)
=============================================================================
