# A TLA+ model of PvPGN

PvPGN is a set of servers that speak the protocols of Battle.net games: `bnetd`
(chat, games, accounts), `d2cs` (the character server of a Diablo II realm),
`d2dbs` (its database server), and some tools. Closed-source game servers (D2GS)
run the Diablo II games and connect to `d2cs` and `d2dbs`. This directory holds
TLA+ specifications of parts of it, the TLC configurations that check them, and
TLAPS proofs about them. Paths below are relative to the repository.

The servers are single-threaded event loops around `select`/`poll`. Nothing is
preempted, so the difficulty is not data races: it is **re-entrancy** (a handler
that runs another handler, or a loop over a list whose body changes the list),
**answers that come late** (each request to another process is kept in a table
and looked up again), **connections replaced by newer ones** of the same peer,
**state kept twice** (a counter and a list, a pointer and a queue entry), and
**peers that fail** in the middle.

## Inventory

| Part | State | Operations | Hard behaviour | What makes it correct |
|---|---|---|---|---|
| d2cs games (`d2cs/game.cpp`, `gamequeue.cpp`, `serverqueue.cpp`, `d2gs.cpp`, `handle_d2gs.cpp`) | list of games, queue of creation requests, requests pending at game servers, game servers with `gamenum`/`maxgame` | create, join, cancel; the servers' replies and reports; expiry | re-entrant queue, late answers, a server lost or replaced | counts exact; no server over its room; queue served in order, with room, and never idle beside room; answers reach the right game |
| d2cs connections (`connection.cpp`, `handle_d2cs.cpp`, `handle_init.cpp`, `server.cpp`) | connections, their state and queue pointer | accept, log in, drop, reap, timed events | dead but still findable connections | queue entries and pointers agree |
| d2cs–bnetd link (`d2cs/bnetd.cpp`, `s2s.cpp`, `handle_bnetd.cpp`, `bnetd/realm.cpp`, `bnetd/handle_d2cs.cpp`) | the link, pending logins, active realms | account and character login, reconnection | two logins of one character under way; an answer to a dead connection | one login per character; no connection revived |
| d2dbs locks (`d2dbs/charlock.cpp`, `dbspacket.cpp`, `dbserver.cpp`) | lock table, verified connections, buffers | get, save, lock, unlock; connect, verify, timeout | reconnection over a dead connection, full buffers, unreadable saves | a character is played on one server; locks end with their session |
| d2dbs saves and ladder (`dbspacket.cpp`, `d2ladder.cpp`) | files and backups, ladder tables | save, back up, insert, write | crash between renames | a save readable after a crash; ladder sorted, one place per character |
| bnetd attribute cache (`attrgroup.cpp`, `attrlayer.cpp`, `account.cpp`) | attributes in memory, lists of loaded and dirty accounts, loop cursors | get, set, save, flush, remove | cursors that survive between turns; write-back | no change lost; lists sorted by age; cursor valid |
| bnetd storage (`storage_*.cpp`, `sql_*.cpp`, `file_*.cpp`) | files or tables | read, write | I/O failure | what is written is read back |
| bnetd connections and timers (`server.cpp`, `connection.cpp`, `timer.cpp`, `handle_bnet.cpp`) | connection states, timers by owner | login, timeout, kick | login replaced by a newer one; timers that free their owner | one connection per account; no timer outlives its owner |
| bnetd channels (`channel.cpp`, `message.cpp`, `irc.cpp`) | members, operator, bans | join, leave, kick, ban | operator leaves; channel destroyed when empty | operator is a member; banned are out |
| bnetd games, ladders (`game.cpp`, `ladder.cpp`, `tournament.cpp`) | players, results, status | create, join, report, close | conflicting or missing reports | every result counted once |
| bnetd matchmaking (`anongame*.cpp`, `handle_anongame.cpp`) | search queues, matches | search, cancel, match | player gone between match and start | nobody in two matches or queues |
| bnetd clans, friends (`clan.cpp`, `friends.cpp`, `team.cpp`) | members and ranks, invitations | invite, accept, promote, disband | invitation answered late | one chieftain; one clan per account |
| bnetd commands, mail, address bans, watches, news | lists | commands | list changed while traversed | quotas kept |
| bnetd other protocols (`handle_wol*.cpp`, `file.cpp`, `tracker.cpp`, …) | little | I/O | – | – |
| common library (`common/`) | containers, packets, polling | – | removal during traversal | what the callers rely on |
| tools (`bnproxy`, `bntrackd`, `bnpass`, `bniutils`, `bnpcap`, `client`), `compat`, `win32`, `tinycdb`, `test`, `d2pack109` (an older C fork of the realm servers), `web`, scripts | – | – | – | outside the servers' core |

Interactions: a client logs in to `bnetd`, is handed to `d2cs` with a session
number, and `d2cs` asks `bnetd` to confirm account and character. The client asks
`d2cs` to create or join a game; `d2cs` asks a game server over its connection and
passes the answer on. The game server asks `d2dbs` for the character's save and
`d2dbs` locks the character for it; it reports players and the ends of games to
`d2cs`, and saves and unlocks to `d2dbs`. `PROJECT.json` lists under `hazards` what
can go wrong at which line, and the properties that would notice.

## Plan

1. `D2csGames` (with the abstract `GameSlots`) and its proofs (`D2csGames_proofs`,
   `D2csLinks_proofs`, `D2csQueue_proofs`) — done.
2. `D2CharLock` (with the abstract `CharLease`) and its proofs — done.
3. `AttrCache` (with the abstract `AccountStore`) and its proofs — done.
4. `Bnetd`: connections (`BnetConn`), channels (`BnetChannel`) and games (`BnetGame`, with
   the abstract `Matches`) of bnetd, composed, and its proofs — done.
5. `D2Login`: login through `bnetd` and the link to it, and its proofs — done.
6. `D2CharSave`: the two renames of a save and its backup, a crash between any two
   steps, the rewritten save; the `d2dbs` ladder as pure functions against a
   reference definition. Refinement of the lock table of `D2CharLock` by the hash
   chains and per-server lists of `charlock.cpp`.
7. `bnetd`: matchmaking queues, clan invitations, timers and their owners.
8. `d2gslist_reload` as an action of `D2csGames`; composition of `D2csGames` and
   `D2CharLock` with one game server between them.

## D2csGames: games, creation queue and game servers of d2cs

State: `cstate`, `kind` and `gamequeue` are fields of a client's `t_connection`
(its state, what a create request reads of its `charinfo`, its queue pointer);
`gq`, `game`, `sq` are the three global lists; `link`, `gamenum`, `maxgame` are fields of
`t_d2gs`; `lstate` is the state of a game server's connection; `toGs` and `fromGs`
are the two directions of its TCP connection, `hosted` the games that run on the
server. `budget` stands for the loop of `gqlist_check_creategame`, which runs
*inside* the handlers that destroy a game or receive `setgsinfo`: it is the number
of creations the loop may still attempt, and while it is positive nothing else is
enabled, so a handler and its loop are one event.

Actions are the handlers: `CreateGame`, `EnqueueGame`, `LeaveQueueByAsking` are the
outcomes of `on_client_creategamereq`; `ServeQueue` is one round of the loop;
`OnCreateGameReply`, `OnSetGsInfo`, `OnCloseGame`, … are the handlers of game-server
packets; `OnAuthAccepted` contains `d2gs_active`, with `d2gs_deactive` of an older
connection; `LinkReap` and `ClientReap` are `d2cs_conn_destroy`; `SqExpire` and
`VoidPurge` are the timed events, one element at a time. `Gs…` actions are the game
servers (external).

Abstractions. The conditions under which a join is refused without effect are
left out. Identifiers are the smallest free number (`Fresh`): the code's 32-bit
counters do not come back within a run. A client's kind is "ok", "dead" (a
hardcore character that died, refused where a server was found) or "low" (too low
for the difficulty, dropped without an answer). `on_client_creategamereq` run from
the queue may destroy the very entry the loop destroys next: the second removal
fails and ends the loop, which is the `MustWait` branch of `ServeQueue`.

Properties: `GamenumExact` (the counter kept in five places), `HostedOnActive`,
`QueueLinked`, `RoomServed` (the loop never tries a request that no server has
room for, which would drop the client unanswered, and nobody waits while there is room),
`RequestOnItsLink` (an answer is found by sequence number alone, and still is about
the right game), `OfferedGamesRun`, `NoOvertaking`, `PlayedGameKept`, `SlotsSpec`
(refinement of `GameSlots`: no server is given more games than it announced places
for), `PlacesReclaimed` and `QueueServed` (liveness).

A game server that logs in again while its old connection is open is in
`d2cs_overlap`. `RoomServed` and `PlayedGameKept` are checked with one connection
at a time only: a `closegame` or `setgsinfo` still unread on the replaced connection
acts on the new session (`d2cs/handle_d2gs.cpp:469` finds the game by the server's
number), and nothing in the repository promises otherwise.

Bounds: `MaxSq` (requests pending when a client asks), `MaxMsgs` (messages under way
when a server speaks unasked), `GsRoom` (games a server can run) and the sets. With
three clients, one waits behind another while a third asks; room 0 to 2 covers the
full server, the server with one place, and an announcement that takes places back;
two links are the least with a replacement. TLC runs one server: the choice among several
(`serverqueue.cpp`) is in the model and in the theorems, which hold for any number, but in
no run.

Fairness (`FairSpec`): the event loop keeps running (`server.cpp:235`), so the queue
loop ends, what arrived is handled and dead connections are reaped; idle empty games
are purged **if** `max_game_idletime` is set (`IdlePurge`; it is 0 by default and then
nothing is promised); game servers answer and close games in the end, which is an
assumption about them and not about `d2cs`. No fairness of clients.

All clients of the runs are of the kind "ok". A request that is skipped, of a dead
or low character, uses up the room it was served for, and those behind it wait beside a
free place: `RoomServed`, `NoOvertaking` and `QueueServed` fail with other kinds, all for
this reason. `conf/d2cs.conf.in:173` promises a periodic check of the game queues that would
serve them; the code (`server.cpp:176`) only tells the waiting clients their positions.

## D2CharLock: the character locks of d2dbs

State: `cstats` is `stats`/`verified` of a connection; `lock` is the lock table (which
ignores the realm); `inbox` and `outbox` are a connection's unread requests and unread
replies (`outbox` includes `WriteBuf`; `BufRoom` replies fit); `granted` and `claimed` are what
the game server believes it plays; `peer` tells whether it still speaks.

Actions: `Accept`, `Verify` (the class byte: the address must be listed, and every
other connection from it is destroyed), `Close` (error, bad request, timeout), `Restart`
(stop or crash of `d2dbs`), `GetData`, `SaveData`, `LockChar`, `UnlockChar` (the handlers run by
`dbs_packet_handle`, which keeps a request whose handler returns 0), and the game
server's moves (external). Every end of a verified connection is
`dbs_server_shutdown_connection` and releases the server's locks.

A server is identified with its address: `get_preset_d2gsid` gives each address one
number. `Loads` says whether saves can be read. When one cannot, the lock just taken is
released for an **uninitialised** `gsid` (`dbspacket.cpp:400`, `:453`, `:464`): the model
chooses whether it is the server's own. `Relocks` says whether game servers lock
again, unasked, what they play when they reconnect (`dbs_packet_charlock`); that
request has no reply. One reply takes one place of the buffer; keepalives, which only
fill the buffer, are part of not knowing `BufRoom`. The files are left out.

Properties: `OneSession`; `LocksHaveSession`; `GrantsLocked` (a session that was handed a
character keeps its lock, whatever late requests and dying connections of its address
do); `LeaseSpec` (refinement of `CharLease`: a character has one user, in which reading a
lock and taking it, a reply under way and a session's end take no part);
`NoOrphanLock`, when every save can be read and replies fit; `SavesLocked`, when servers do
not lock unasked (`dbs_packet_savedata` itself never looks at the lock, so it is the
game server's discipline that makes it true); liveness: `LocksEnd` (a lock whose player leaves, or whose server falls silent,
is released).

Fairness: the loop handles every connection in each turn; a silent connection is
closed by `dbs_check_timeout`; a game server that is up reads its replies.

Bounds: three connections, two of them from one address, are the least in which a
connection is replaced while another server waits for the character; one character
suffices because no action relates two; two messages per connection let an unlock
overtake nothing and be followed by another get. Symmetry exchanges the two
connections of one address.

Violation run: `charlock_failed` (the uninitialised `gsid`: the log says the character
was unlocked, and it is not). A reply that does not fit leaves the character locked and
the request to be handled again, when it is refused because of the server's own lock (the
comment at `dbspacket.cpp:612` says "do nothing"): the model has that, in `charlock_sessions`,
and `NoOrphanLock` is only claimed for a buffer that is large enough.

## AttrCache: the account attributes of bnetd

State: `listed` is the accounts in the hash tables; `loaded`, `accessed`, `dirty` are the flags of
the groups; `loadedlist` and `dirtylist` the two lists; `mem` and `disk` an account's
attributes in memory and in the storage; `idle` and `age` the time since `lastaccess` and
`dirtytime`; `scur`, `snext`, `fcur`, `fnext` the static variables `curr` and `next` of
`attrlayer_save` and `attrlayer_flush`. An unlinked node keeps its pointers (`elist_del`), and
a cursor may rest on it: `lgone` and `dgone` remember where they point. They are
forgotten when the cursor is at the head, because then nobody follows them.

Actions: `Get` and `SetAttr` (lookups load the account, and the default attributes when one
is missing, and move them to the end of the list), `Logoff` (`sync_on_logoff`), `Create`,
`Turn` (the main loop reads the clock and `attrlayer_save` begins), `SaveRound`, `SaveEnds`,
`FlushRound`, `FlushEnds` (the two loops), `Restart` (stop or crash, at any point).

Abstractions. An account has one value for all its attributes, as the
plain file engine reads and writes them together (its `read_attr` returns NULL; the CDB
and SQL engines, which read single attributes on demand, are not modelled). Time is counted in units of at most one per turn and up to the limits, which is
all that the comparisons can tell apart. Left out: the reload of the default attributes
on SIGHUP, writes that fail, accounts that cannot be read at the start, refused creations.
A failed read leaves a group loaded and empty, as in the code; that the next save
overwrites the attributes that were not read is a hazard no property states.

Properties: `NoChangeForgotten` (a group that is not dirty agrees with the storage, and
only loaded groups are dirty); `ListsSorted` (the loops stop at the first account that is
not due, so those due must be in front); `ShutdownSavesAll` (the forced loops start anew
wherever the cursors were); `StoreSpec` (refinement of `AccountStore`: readers get what was
set last, whatever is loaded, saved and unloaded, and a crash takes them back to what was
saved; the history variable `asked` records what was set last, and an account whose
attributes could not be read counts as having those in the storage, although its readers
get none); `DirtySaved` (liveness).

Bounds: two accounts and the default attributes make a list in which one node is in front
of, under and behind a cursor; two values make a change; time limits of one unit and
`userstep = 2` let an account be due while another is not and the loops stop for either
reason. Accounts are interchangeable, and so are values. Fairness (`FairSpec`): the main
loop keeps turning and the clock moves on; no user has to do anything.

With `sync_on_logoff = true`, the cursor of `attrlayer_save` may rest on an account that is not
due yet and is then saved at its user's logoff. `attrgroup_save` answers 0 for an account that
is not dirty (`attrgroup.cpp:177`), the loop takes that for "dirty too early"
(`attrlayer.cpp:148`) and stops, in this turn and in all later ones, while other accounts stay
changed: `DirtySaved` fails when `attr_live` is run with `SyncOnLogoff = TRUE`.
`DirtySaved` holds with the default `sync_on_logoff = false` (`attr_live`, where all accounts
fit in one `userstep`). There, too, anything else that saves the account the cursor rests
on parks it for ever, as smaller instances show: `attrgroup_flush` does when `userstep` is
less than the number of accounts due and `userflush` no longer than `usersync` (the defaults
are 100, 1200 and 300 seconds), and when a group changed after a failed read, which is not
marked accessed, is unloaded and saved at once.

## Bnetd: connections, channels and games of bnetd

State. `BnetConn`: `cstate` and `cacct` are `protocol.state` and `protocol.account` of a
connection, `connof` is the connection of an account, `sweep` what `connlist_reap` has still
to look at. `BnetChannel`: `live` is the list of channels, `members` and `banned` their lists,
`where` and `op` the channel pointers of a connection, `seen` what its client has been told,
`back` the lists that `channellist_reload` saves. `BnetGame`: `game` is the list of games with
their slots (the arrays `connections`, `players` and `reported_results`), `ref` and `owner`;
`cgame` the game pointer of a connection; `credited` what the last step gave to whom.

Actions. `Bnetd` composes the three: each of its actions is a packet handler, a command, a
round of a loop or `conn_destroy`, and says what it does to all of them. Entering a channel
leaves the game (`JoinChannel`, `Rejoin`), joining a game leaves the channel (`JoinGame`,
`StartGame4`), commands move somebody else's connection (`KickUser`, `BanUser`), a login marks
the account's old connection (`ClientLogin`), which stays in its channel and game until
`Reap`. `StartReap`, `ReapSkip` and `Reap` are `connlist_reap`; `ReloadConf` and `SendNext` are
`channellist_reload`. While a loop runs no client acts (`Turn`). The loop skips the reaping when
`fdwatch` times out (`server.cpp:1443`), which makes the time a connection stays marked longer
but adds no state.

Properties: `OneLogin` (an account is logged in once and points to where it is, however
old connections end); `ListsAgree` (member lists and channel pointers, kept apart);
`RoomFits`, also through reloads and copies of full channels; `BannedStayOut`; `ViewsFollow`
(clients show who is there, after kicks, marks, reaps and reloads); `RejoinsAll` (a reload
leaves nobody out, although channels fill up in another order than before);
`RosterExact` (the counter that decides when a game is evaluated and destroyed, with the
same account in a game twice); `NoTwinGames`; `MatchesSpec` (refinement of `Matches`: one open
match for a name, nobody enters one that has started).

Abstractions and assumptions. Clients do not ask for a copy of a channel by a number that
does not exist. Channels have no country, realm or clan rules, and none is for
administrators alone (maximum 0). A password is right or wrong. Account flags are constant, so
promoting an account (`/op`) and `/deop` of an operator are left out, and so are the commands and
states of IRC and WOL clients, but for an IRC client kicked out of a channel. Games are of one
client tag, the status "loaded" and `discisloss` are left out. Reports come from games that have
started or are done: one that comes before the start is not modelled. A ladder game that
refuses its creator (`Novices`) stays in the list, as in the code, where
`gamelist_check_voidgame` passes over games without a realm. Which of several short names is
sent back first by a reload is left open. There are finitely many connections, which the
descriptor limit makes true.

`Muted = {}` in `bnet_chat`: `channel_message_send` (`channel.cpp:671`) drops what a muted account
says, the note that it leaves included, so other clients go on showing it and `ViewsFollow` fails
with `Muted = {a3}`. The theorem has the same hypothesis.

Bounds. `bnet_chat`: three connections and accounts (an operator, one who is moved, one who
comes in), a lobby for two that is copied when it is full, the void, and a channel that its
users create, for one. That is enough for a full copy, a channel emptied while somebody is on
the way to it, a replaced login whose old connection holds a place, and a reload in which
one copy fills before the other is sent back. `bnet_games`: two connections and accounts, one
of whom cannot enter ladder games, two games, two names; the same account can be in a game
twice, by a second login. The two runs are kept apart because the product is out of reach;
the actions of both are the same, and the proofs are about both at once.

No fairness is assumed and no liveness claimed: a connection with unsent output
is kept as long as it likes.

Violation run: `bnet_twice`. A player who leaves a game keeps a slot there (`game.cpp:1710`) and,
coming back, may get another one (`game.cpp:1594`). When its connection is lost while the game
runs, `game_set_self_report` (`game.cpp:1932`) writes "disconnect" in both, and the end of the game
counts it twice for the account (`CreditOnce`), although "duplicate players" are to be dropped
(`game.cpp:786`).

## D2Login: login on d2cs, and its link to bnetd

State: of a client's `t_connection` at d2cs, `cstate` is its state, `charname` its character, and
`peer` tells whether the client is still there. `sq` is the list of requests under way, by
sequence number. `link` is the static `bnetd_connection`; `lstate` the state of the end of a link
at d2cs (from `connecting` on), `bstate` the state of its end at bnetd, where `realmed` is the links
with `protocol.d2.realm` and `active`, `rconn` are fields of the realm. `toBnetd` and `toD2cs` are
what is on the way, from the `outqueue` of one to the handler of the other. A link that is closed
at d2cs lives on at bnetd until bnetd notices, and the next link may be made before.

Actions: `LoginReq`, `CreateCharReq`, `CharLoginReq` and `DeleteCharReq` are the handlers of a client's
packets; `DropClient`, `SeesClientGone` and `ClientReap` the ends of its connection; `SqExpire` the
expiry of a request. `S2sCheck` (`s2s_check`, `bnetd_check`, `s2s_create`), `Connected`, `D2csSeesEnd`,
`LinkFails` and `LinkReap` are the life of a link at d2cs, `D2csHandles` the handlers of bnetd's
packets; `BnetdHandles` the handlers of d2cs's packets at bnetd, with `realm_active`; `BnetdReap` is
`conn_destroy`, with `realm_deactive`; `RealmReload` is `realmlist_reload`. Either server may be
restarted. `MaxFails` bounds failures, reloads and restarts together.

Abstractions. Whether bnetd knows the session a client names and agrees, and whose the characters
are, is left open. The table in which the multilogin check looks for a character is the one of
session numbers: `d2cs_connlist_find_connection_by_charname` sees the connections that happen to
be in the row where the name would be. `Bucket` says who is in that row; the theorems hold for any
rows, the run puts everybody in one, where the check does find. `LoginsExclusive` is therefore a
property of one row: two clients in different rows do log in as one character. The model has
`check_multilogin` set, which is the default of `prefs.cpp:882`; `conf/d2cs.conf.in:130` sets it to 0, and
then nothing is checked.

Properties. `LoginsExclusive`: requests of two clients for one character may be under way
together, the check is made when an answer comes, and the connection that has the character may be
marked for destruction, from where the late answer to another request takes it back
(`handle_bnetd.cpp:157`). `LinksAgree`: d2cs has one link and `bnetd_connection` is it; at most one link is
logged in at bnetd, and the realm names it; `realm->conn`, to which `send_d2cs_gameinforeq` writes
and which `realm_deactive` marks, is not a freed connection. `LinkRestored`, `GoneEnds`: liveness.

What the model shows of the link. When bnetd reaps an older link after a newer one has logged in,
`conn_destroy` makes the realm inactive and so ends the *newer* link (`connection.cpp:596`,
`realm.cpp:293`): logging in has already marked the older one, so a reconnection that outruns
bnetd's notice is followed by a second one. And a client's request that arrives while the link is
being made is queued in front of the class byte (`handle_d2cs.cpp:125`, `handle_bnetd.cpp:86`):
bnetd takes its first byte for a class it does not know and drops the link. This is why
`LinkRestored` assumes that such requests cease; without that the link need never come up.

Bounds: two links are the least with an old and a new one, two clients and one character the least
that compete, and one failure makes d2cs reconnect. `Seqs = {1}` allows one request at a time, a
request being forgotten when it is answered or expires; the proofs are for any number at once.
`TypeOK` is proved and therefore in no run.

Fairness: both loops go on; each handles what has arrived, notices that the other side has gone
and removes what is marked, and d2cs looks after its link every `s2s_retryinterval`. Nothing is asked of clients,
and no request has to expire or be answered.

## Runs

| Run | Module | Properties | States, about |
|---|---|---|---|
| `d2cs_queue` | D2csGames | `TypeOK` `QueueLinked` `RoomServed` `NoOvertaking` `PlayedGameKept` | 1.14 M: three clients, one server, room that changes |
| `d2cs_overlap` | D2csGames | `GamenumExact` `HostedOnActive` `RequestOnItsLink` `OfferedGamesRun` `SlotsSpec` | 1.04 M: a server logs in again while its old connection is open |
| `d2cs_live` | D2csGames | `PlacesReclaimed` `QueueServed` | 50 k: liveness, idle games purged |
| `charlock_sessions` | D2CharLock | `TypeOK` `OneSession` `LocksHaveSession` `SavesLocked` `LocksEnd` | 29 k: unreadable saves, one place in the buffer, no relocking |
| `charlock_locks` | D2CharLock | `GrantsLocked` `NoOrphanLock` `LeaseSpec` | 128 k: servers lock again what they play; saves readable, buffer large enough |
| `charlock_failed` | D2CharLock | `FailedLoadUnlocks` violated | a save that cannot be read |
| `attr_cache` | AttrCache | `TypeOK` `NoChangeForgotten` `ListsSorted` `ShutdownSavesAll` `StoreSpec` | 1.63 M: `sync_on_logoff`, reads that fail |
| `attr_live` | AttrCache | `DirtySaved` | 316 k: liveness, default options |
| `bnet_chat` | Bnetd | `TypeOK` `OneLogin` `ListsAgree` `RoomFits` `BannedStayOut` `ViewsFollow` `RejoinsAll` | 2.29 M: logins, channels, commands, reload |
| `bnet_games` | Bnetd | `RosterExact` `NoTwinGames` `MatchesSpec` | 196 k: games, reports, replaced logins |
| `bnet_twice` | Bnetd | `CreditOnce` violated | an account in a game twice |
| `d2cs_login` | D2Login | `LoginsExclusive` `LinksAgree` `LinkRestored` `GoneEnds` | 306 k: two clients, one character, two links, one failure |

Runs whose specification may stop say nothing of deadlock; none sets
`CHECK_DEADLOCK FALSE`, so TLC also shows that these systems never come to a stop.

## Proofs

`D2csGames_proofs` proves for all sets of clients, names, servers, links, players and
all bounds:

- `TypeCorrect`: `Spec => []TypeOK`. That `gamenum` stays a natural number is not a matter
  of types: a decrement is only safe because the counter is exact.
- `CountCorrect`, `HostsActive`, `SlotsImplemented`: `GamenumExact`, `HostedOnActive` and the
  refinement of `GameSlots`.

Its inductive invariant is `TypeOK /\ CountInv /\ LoopInv`. `CountInv` joins the exact
counter, the activity of hosts and the finiteness of the list of games, which the
cardinalities need. `LoopInv` says what the queue loop relies on while it runs. Each
action is a lemma; the cardinalities of the sets of games under insertion, removal and
removal of all games of a server are lemmas cited by them.

`D2csLinks_proofs` builds on it and is about the messages between d2cs and the game servers:

- `RequestsFollowed` (`RequestOnItsLink`) and `OfferedRun` (`OfferedGamesRun`), with any number of
  overlapping connections of a server. A server is active on a connection of its own that was
  authenticated, and one that is not carries answers to authentications only (`LinkInv`): without
  that a new connection could bring an old answer. `OfferedGamesRun` needs the whole order of what
  is on a connection (`History`): ids are used again, so between two creations of one id, and
  before the creation of an id that d2cs still offers, the closing of its earlier game must be
  on its way.
- `PlayedGamesKept` (`PlayedGameKept`), under `OneLinkEach`: no game server has two connections. TLC
  refutes the property without it, as said above. It needs that d2cs waits for the creation of a
  game at most once, and for none that is created (`CreateInv`): a refused creation then never
  destroys a game that is played.

`D2csQueue_proofs` is about the queue:

- `QueueAgrees` (`QueueLinked`). Inductive is `LinkedInv`, which says that a client has at most one
  entry without counting, and that the entries belong to clients whose connection lives.
- `QueueInOrder` (`NoOvertaking`), if all characters may create any game (`Kinds = {"ok"}`). That
  nobody is overtaken is a matter of room: who asks is only admitted past the queue if a
  server has room while others wait. `RoomInv` excludes it: the games waited for have different,
  free names, the loop serves one server that alone can have room, for as many games as it has
  attempts left, and when it ends no server has room or nobody waits.
- `RoomMatched` (`RoomServed`), under the same condition and `OneLinkEach`: then the server that
  the loop serves is active (`RoomAtHand`). With two connections a `setgsinfo` read from the wrong one
  starts the loop for a server that is not, and the first in the queue is dropped. Both conditions
  are needed, as the section on `D2csGames` says.

`D2CharLock_proofs` proves `TypeCorrect`, `SessionsExclusive`, `LocksOwned`, `GrantsKept` and
`LeaseImplemented` for all sets of characters, servers and connections. `GrantsLocked` is
not inductive alone: an unlock request under way from an earlier use of the character
would take the lock away. The strengthening `Talks` describes the conversation of each
session about each character: at most one get or positive answer is under way, none for a
character the session has, and an unlock is never behind the get that follows it.
`OneSession` and `LocksHaveSession` are needed for the end of a connection: the locks it
releases by server number are not those of a newer session.
Two more theorems have the hypotheses under which the runs check their properties:

- `SavesOwned` (`SavesLocked`), if servers do not lock again what they play (`~Relocks`).
  d2dbs never looks: it is true because of the order in which a server speaks (`SaveTalk`): it saves what it was
  granted, and one unlock comes behind the saves.
- `LocksUsed` (`NoOrphanLock`), if every save can be read (`Loads = {"ok"}`) and the buffer has room for
  all replies under way (`MaxMsgs <= BufRoom`). Without the first a lock is left behind
  (`charlock_failed`), without the second the kept request is refused because of its own lock.
  Inductive is `UseInv`: a request to lock again is for a character that is played, or an unlock
  comes behind it.

`AttrCache_proofs` proves `TypeCorrect`, `ChangesKept` (`NoChangeForgotten`) and `StoreImplemented`
(`StoreSpec`) for all sets of accounts and values and all options. The inductive invariant
is `TypeOK` and: `NoChangeForgotten`, the accounts listed are those in the storage, and dirty
accounts are listed. It says nothing of lists and cursors, so wherever a cursor
points, a change is not lost but at worst late. Two theorems are about just these.
`ListsInOrder` (`ListsSorted`): each list holds the groups of its flag, once, and the times do not
increase along it (`ListInv`), although a group read by somebody may be moved to the tail twice in a
step. `ShutdownSaves` (`ShutdownSavesAll`): what a forced loop has at hand is always the first
node left (`CursorInv`), so it ends with an empty list; that an unloaded group was not dirty
makes the second loop leave nothing behind.

`Bnetd_proofs` proves for all sets of connections, accounts, channels and games
`TypeCorrect`, `AccountsLoginOnce` (`OneLogin`), `ChannelListsAgree` (`ListsAgree`), `BannedKeptOut`
(`BannedStayOut`), `ChannelsHaveRoom` (`RoomFits`), `ClientsShowMembers` (`ViewsFollow`, if no account is
muted), `ReloadRejoins` (`RejoinsAll`), `RosterCounted` (`RosterExact`), `NamesAreUnique` (`NoTwinGames`) and
`GamesAreMatches` (`MatchesSpec`). There are three inductive invariants, one above the other. `ConnInv` is
`OneLogin` with its types, and who has an account. `ChatInv`
adds `ListsAgree`, `BannedStayOut` and what holds in the middle of a reload: who is to be sent
back is in no channel, waits once, and still has its account. `GameInv` adds the rosters: `RosterExact` is
needed for `NoTwinGames` and `MatchesSpec`, because the counter decides whether the last
player has left and the game leaves the board. Every step is first taken apart (`ConnMove`, `ChatMove`,
`GameMove`): of the many handlers, channels see only a few kinds of moves, and games only
that somebody joins, leaves, reports or sets the status. `ReloadRejoins` rests on `RoomFits`: the
lists are turned around, so everybody finds the room there was when it came (`ReturnInv`). Its
hypothesis `OwnName` is that no channel has for its name the short name of another, which
`channellist_find_channel_by_name` would find first. It is a matter of the configuration, and
true in `bnet_chat`.

`D2Login_proofs` proves for all sets of clients, characters, links and sequence numbers and all rows of
the table `TypeCorrect`, `LoginsStayExclusive` (`LoginsExclusive`) and `LinkAgreement` (`LinksAgree`).
`LoginsExclusive` is inductive with the types, because only `on_bnetd_charloginreply` gives a name
and it checks first. `LinksAgree` is not: that `realm->conn` is not gone needs that it has the realm
(`RealmHas`), so its own end makes the realm inactive; and that d2cs never takes a link for logged
in before bnetd does needs that no `authok` of an earlier use of the place is left (`Granted`).

`ListLemmas` holds what these proofs share: what appending, removing from the front and from the
middle do to the elements of a list and to their order.

Only model-checked is liveness: `PlacesReclaimed`, `QueueServed`, `LocksEnd`, `DirtySaved`,
`LinkRestored` and `GoneEnds` (fairness and ENABLED are out of the prover's reach). Every invariant,
action property and refinement of a passing run is proved. Induction over data and RECURSIVE
operators cannot be proved about with the installed provers; no module proved about
uses either.

The assumptions of the proofs are the named `ASSUME`s of the modules, which TLC
evaluates in every run, and the hypotheses of seven theorems: `Muted = {}` (`ClientsShowMembers`),
`OwnName` (`ReloadRejoins`), `OneLinkEach` (`PlayedGamesKept`, `RoomMatched`), `Kinds = {"ok"}` (`RoomMatched`,
`QueueInOrder`), `~Relocks` (`SavesOwned`), `Loads = {"ok"} /\ MaxMsgs <= BufRoom` (`LocksUsed`). Each is
true in the run that checks the property.

## Not modelled

See the components with status `not_modelled` in `PROJECT.json`. In the components that
are modelled: `d2gslist_reload`, the cursor with which d2cs sends the list of games,
`d2cs_try_joingame`'s refusals; sessions, accounts and realm records of logins, and the
questions of bnetd about games; the files, portraits, ladder updates and
keepalives of d2dbs; the SIGHUP reload, failing writes and on-demand reads of the
attribute cache; timers, packets and the states before login of bnetd's connections;
messages, country, realm, clan and administrators' rules of its channels; ladder ratings,
tournaments, realm games and the other client tags of its games.
