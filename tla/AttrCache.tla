------------------------------ MODULE AttrCache ------------------------------
(***************************************************************************)
(* The cache of account attributes of bnetd                                *)
(* (src/pvpgn/src/bnetd/attrgroup.cpp, attrlayer.cpp, account.cpp).        *)
(*                                                                         *)
(* The attributes of an account are read into memory when somebody asks    *)
(* for one, changed there, written back some time after the first change,  *)
(* and unloaded after some time without use.  Each turn of the server's    *)
(* loop runs attrlayer_save over the list of changed accounts and          *)
(* attrlayer_flush over the list of loaded ones.  Both stop after UserStep *)
(* accounts or at the first that is not due, and go on from there in the   *)
(* next turn: their cursors live on while other code changes the lists.    *)
(*                                                                         *)
(* A list is the sequence of its nodes.  elist_del leaves the pointers of  *)
(* the node it unlinks alone, and a cursor may still follow them: lgone    *)
(* and dgone keep them.  Time is counted in units of one turn at most.     *)
(***************************************************************************)
EXTENDS Naturals, FiniteSets, Sequences, SequencesExt

CONSTANTS
    Accounts,       \* accounts
    Default,        \* the default attributes, looked up when an account has none
    ListHead,       \* the head of a list
    Values,         \* what the attributes of an account can be
    NoData,         \* the attributes of an account that could not be read
    UserSync,       \* usersync: time from the first change to the save
    UserFlush,      \* userflush: time without use until the account is unloaded
    UserStep,       \* userstep: accounts handled by one call of a loop
    SyncOnLogoff,   \* sync_on_logoff: is an account saved when its user leaves?
    ReadFails       \* may the storage fail to read an account?

Groups == Accounts \cup {Default}

ASSUME NodesAssumption == Default \notin Accounts /\ ListHead \notin Groups
ASSUME ValuesAssumption == NoData \notin Values
ASSUME PrefsAssumption == /\ UserSync \in Nat /\ UserFlush \in Nat /\ UserStep \in Nat
                          /\ SyncOnLogoff \in BOOLEAN /\ ReadFails \in BOOLEAN

VARIABLES
    listed,         \* accounts in the accountlist
    loaded,         \* groups with ATTRGROUP_FLAG_LOADED
    accessed,       \* groups with ATTRGROUP_FLAG_ACCESSED
    dirty,          \* groups with ATTRGROUP_FLAG_DIRTY
    loadedlist,     \* the list of loaded groups
    dirtylist,      \* the list of dirty groups
    lgone, dgone,   \* where the next pointer of an unlinked node still points
    idle,           \* idle[g]: time since lastaccess, up to UserFlush
    age,            \* age[g]: time since dirtytime, up to UserSync
    mem,            \* mem[g]: the attributes in memory
    disk,           \* disk[g]: the attributes in the storage
    asked,          \* history: what was set last, or read when the server started
    scur, snext,    \* curr and next of attrlayer_save
    fcur, fnext,    \* curr and next of attrlayer_flush
    phase,          \* what the server's loop is doing
    tcount,         \* accounts the running loop has handled
    all             \* are the loops run with FS_FORCE | FS_ALL, to shut down?

cache == <<listed, loaded, accessed, dirty, idle, age, mem>>
lists == <<loadedlist, dirtylist, lgone, dgone>>
loops == <<scur, snext, fcur, fnext, phase, tcount, all>>
vars == <<cache, lists, loops, disk, asked>>

WithHead(G) == G \cup {ListHead}
Data  == Values \cup {NoData}

TypeOK ==
    /\ listed \subseteq Accounts
    /\ loaded \subseteq Groups /\ accessed \subseteq Groups /\ dirty \subseteq Accounts
    /\ loadedlist \in Seq(Groups) /\ dirtylist \in Seq(Accounts)
    /\ lgone \in [Groups -> WithHead(Groups)]
    /\ dgone \in [Accounts -> WithHead(Accounts)]
    /\ idle \in [Groups -> 0..UserFlush] /\ age \in [Accounts -> 0..UserSync]
    /\ mem \in [Accounts -> Data] /\ disk \in [Accounts -> Data]
    /\ asked \in [Accounts -> Data]
    /\ scur \in WithHead(Accounts) /\ snext \in WithHead(Accounts)
    /\ fcur \in WithHead(Groups) /\ fnext \in WithHead(Groups)
    /\ phase \in {"events", "save", "flush", "exit"}
    /\ tcount \in Nat /\ all \in BOOLEAN

-----------------------------------------------------------------------------
(***************************************************************************)
(* Lists.                                                                  *)
(***************************************************************************)

Linked(list, n)   == \E i \in DOMAIN list : list[i] = n
Position(list, n) == CHOOSE i \in DOMAIN list : list[i] = n

\* The pointer in a node: elist_next, for linked and unlinked nodes.
NextIn(list, gone, n) ==
    IF n = ListHead \/ Linked(list, n)
    THEN LET i == IF n = ListHead THEN 0 ELSE Position(list, n)
         IN  IF i = Len(list) THEN ListHead ELSE list[i + 1]
    ELSE gone[n]

\* next = elist_next(curr) when curr becomes n.  At the head the loop is over, and
\* the next call begins anew: next is not read again.
After(list, gone, n) == IF n = ListHead THEN ListHead ELSE NextIn(list, gone, n)

\* The pointers kept when g is unlinked in front of n and the loop's cursor is
\* now at cur: none, when it is at the head, for nobody will follow them.
AtHead(G) == [g \in G |-> ListHead]
Pointers(gone, cur, g, n) ==
    IF cur = ListHead THEN AtHead(DOMAIN gone) ELSE [gone EXCEPT ![g] = n]

NextDirty(n)  == NextIn(dirtylist, dgone, n)
NextLoaded(n) == NextIn(loadedlist, lgone, n)

\* elist_del.
Unlinked(list, g) == IF Linked(list, g) THEN RemoveAt(list, Position(list, g)) ELSE list

\* Mutant of ToTail: an access leaves the group where it is.
ToTailOnce(list, g) == IF Linked(list, g) THEN list ELSE Append(list, g)

\* attrlayer_accessed, or the first link of a group just loaded.
ToTail(list, g) == Append(Unlinked(list, g), g)

-----------------------------------------------------------------------------
(***************************************************************************)
(* The server starts with the default attributes loaded, if they can be    *)
(* read, and every account unloaded.                                       *)
(***************************************************************************)
Zero(G)   == [g \in G |-> 0]
Stored == {a \in Accounts : disk[a] # NoData}
Nothing == [a \in Accounts |-> NoData]
DefaultRead == IF ReadFails THEN {{}, {Default}} ELSE {{Default}}

Init ==
    /\ disk \in [Accounts -> Data] /\ asked = disk /\ mem = Nothing
    /\ accessed \in DefaultRead
    /\ listed = Stored /\ loaded = {Default} /\ dirty = {}
    /\ loadedlist = <<Default>> /\ dirtylist = <<>>
    /\ lgone = AtHead(Groups) /\ dgone = AtHead(Accounts)
    /\ idle = Zero(Groups) /\ age = Zero(Accounts)
    /\ scur = ListHead /\ snext = ListHead /\ fcur = ListHead /\ fnext = ListHead
    /\ phase = "events" /\ tcount = 0 /\ all = FALSE

\* The server stops, or crashes at any point, and is started again.
Restart ==
    /\ UNCHANGED disk /\ asked' = disk
    /\ accessed' \in DefaultRead /\ mem' = Nothing
    /\ listed' = Stored /\ loaded' = {Default} /\ dirty' = {}
    /\ loadedlist' = <<Default>> /\ dirtylist' = <<>>
    /\ lgone' = AtHead(Groups) /\ dgone' = AtHead(Accounts)
    /\ idle' = Zero(Groups) /\ age' = Zero(Accounts)
    /\ scur' = ListHead /\ snext' = ListHead /\ fcur' = ListHead /\ fnext' = ListHead
    /\ phase' = "events" /\ tcount' = 0 /\ all' = FALSE

-----------------------------------------------------------------------------
(***************************************************************************)
(* Attributes.                                                             *)
(***************************************************************************)

\* The sets of groups among T that attrgroup_load may fail to read.
Unreadable(T) ==
    {F \in SUBSET (T \ loaded) :
        /\ (T \cap Accounts) \ (Stored \cup loaded) \subseteq F
        /\ ReadFails \/ F \subseteq Accounts \ Stored}

\* Mutant of Read: attributes that are in memory are read again.
ReadAgain(T, F) ==
    [g \in Accounts |-> IF g \notin T THEN mem[g]
                        ELSE IF g \in F THEN NoData
                        ELSE disk[g]]

\* The attributes in memory once the groups of T are loaded, F without success.
Read(T, F) ==
    [g \in Accounts |-> IF g \notin T \/ g \in loaded THEN mem[g]
                      ELSE IF g \in F THEN NoData
                      ELSE disk[g]]

\* attrgroup_find_attr on group g and, if they are in T, on the default attributes
\* after it.  A group that cannot be read is left loaded, and empty.  Reading goes
\* through attrgroup_set_attr: for a moment the group is the last of the dirty ones.
Access(g, T, F) ==
    /\ loaded' = loaded \cup T
    /\ accessed' = accessed \cup (T \ F)
    /\ idle' = [h \in Groups |-> IF h \in T \ F THEN 0 ELSE idle[h]]
    /\ loadedlist' = IF Default \in T THEN ToTail(ToTail(loadedlist, g), Default)
                                      ELSE ToTail(loadedlist, g)
    /\ dgone' = [a \in Accounts |-> IF a \in T \ (F \cup loaded) THEN ListHead
                                    ELSE dgone[a]]

\* attrgroup_get_attr: the default attributes are looked up for what is missing.
Get(g, missing) ==
    /\ phase = "events" /\ g \in listed
    /\ LET T == IF missing THEN {g, Default} ELSE {g} IN
       \E F \in Unreadable(T) :
          /\ Read(T, F)[g] = NoData => missing
          /\ Access(g, T, F)
          /\ mem' = Read(T, F)
    /\ UNCHANGED <<listed, dirty, age, dirtylist, lgone, disk, asked, loops>>

\* attrgroup_set_dirty.
Dirty(g) ==
    /\ dirty' = dirty \cup {g}
    /\ dirtylist' = IF g \in dirty THEN dirtylist ELSE Append(dirtylist, g)
    /\ age' = IF g \in dirty THEN age ELSE [age EXCEPT ![g] = 0]

\* attrgroup_set_attr, also of a group that could not be read.
SetAttr(g, v) ==
    /\ phase = "events" /\ g \in listed
    /\ \E F \in Unreadable({g}) :
          /\ Access(g, {g}, F)
          /\ mem' = [Read({g}, F) EXCEPT ![g] = v]
          /\ IF Read({g}, F)[g] = v THEN UNCHANGED <<dirty, dirtylist, age>>
                                    ELSE Dirty(g)
    /\ asked' = [asked EXCEPT ![g] = v]
    /\ UNCHANGED <<listed, lgone, disk, loops>>

-----------------------------------------------------------------------------
(***************************************************************************)
(* Saving.                                                                 *)
(***************************************************************************)

\* attrgroup_clear_dirty of a dirty group.
Clean(g, cur) ==
    /\ dirty' = dirty \ {g}
    /\ age' = [a \in Accounts |-> IF a = g THEN 0 ELSE age[a]]
    /\ dirtylist' = Unlinked(dirtylist, g)
    /\ dgone' = Pointers(dgone, cur, g, NextDirty(g))

\* Mutant of Save: the group is marked clean and not written.
SaveUnwritten(g, cur) ==
    /\ IF g \in dirty THEN Clean(g, cur) ELSE UNCHANGED <<dirty, age, dirtylist, dgone>>
    /\ UNCHANGED disk

\* attrgroup_save with FS_FORCE; cur is where the cursor of attrlayer_save is then.
Save(g, cur) ==
    IF g \in dirty
    THEN disk' = [disk EXCEPT ![g] = mem[g]] /\ Clean(g, cur)
    ELSE UNCHANGED <<disk, dirty, age, dirtylist, dgone>>

\* conn_destroy when the user leaves, with sync_on_logoff.
Logoff(g) ==
    /\ phase = "events" /\ g \in listed /\ SyncOnLogoff
    /\ Save(g, scur)
    /\ UNCHANGED <<listed, loaded, accessed, idle, mem, loadedlist, lgone, asked, loops>>

\* accountlist_create_account: the group is born loaded, its first attributes
\* are set, and it is saved at once.
Create(g, v) ==
    /\ phase = "events" /\ g \in Accounts \ listed
    /\ listed' = listed \cup {g}
    /\ loaded' = loaded \cup {g} /\ accessed' = accessed \cup {g}
    /\ loadedlist' = ToTail(loadedlist, g)
    /\ mem' = [mem EXCEPT ![g] = v]
    /\ idle' = [idle EXCEPT ![g] = 0]
    /\ dgone' = [dgone EXCEPT ![g] = ListHead]
    /\ disk' = [disk EXCEPT ![g] = v] /\ asked' = [asked EXCEPT ![g] = v]
    /\ UNCHANGED <<dirty, age, dirtylist, lgone, loops>>

-----------------------------------------------------------------------------
(***************************************************************************)
(* The two loops, one round at a time.                                     *)
(***************************************************************************)

\* Mutant of Restarts: only a forced loop starts at the first node.
RestartsForced(cur, force) == force

\* Mutant of Restarts: a forced loop goes on where the last one stopped.
RestartsAtEnd(cur, force) == cur = ListHead

\* A loop starts at the first node if the last one got to the end, or with FS_ALL.
Restarts(cur, force) == cur = ListHead \/ force

\* Mutant of Later: one unit too many is counted.
LaterByOne(time, passed, S, limit) ==
    [g \in DOMAIN time |-> IF g \in S /\ time[g] <= limit THEN time[g] + passed ELSE time[g]]

\* The times of the groups of S when passed units have gone by.
Later(time, passed, S, limit) ==
    [g \in DOMAIN time |-> IF g \in S /\ time[g] < limit THEN time[g] + passed ELSE time[g]]

\* A turn of the server's loop begins; it reads the clock.  To shut down, the
\* loops are run over all accounts.
Turn(passed, force) ==
    /\ phase = "events"
    /\ phase' = "save" /\ tcount' = 0 /\ all' = force
    /\ idle' = Later(idle, passed, accessed, UserFlush)
    /\ age' = Later(age, passed, dirty, UserSync)
    /\ IF Restarts(scur, force)
       THEN LET first == NextDirty(ListHead)
            IN  scur' = first /\ snext' = After(dirtylist, dgone, first)
       ELSE UNCHANGED <<scur, snext>>
    /\ UNCHANGED <<listed, loaded, accessed, dirty, mem, lists, fcur, fnext, disk, asked>>

\* Does attrgroup_save save the group, and attrgroup_flush unload it?
SaveDue(g)  == g \in loaded \cap dirty /\ (all \/ age[g] >= UserSync)
FlushDue(g) == g \in loaded /\ (all \/ g \notin accessed \/ idle[g] >= UserFlush)

MayGoOn == all \/ tcount < UserStep

SaveRound ==
    /\ phase = "save" /\ scur # ListHead /\ MayGoOn /\ SaveDue(scur)
    /\ Save(scur, snext)
    /\ scur' = snext /\ snext' = After(dirtylist', dgone', snext)
    /\ tcount' = tcount + 1
    /\ UNCHANGED <<listed, loaded, accessed, idle, mem, asked, loadedlist, lgone,
                   fcur, fnext, phase, all>>

\* attrlayer_save returns and attrlayer_flush begins.
SaveEnds ==
    /\ phase = "save" /\ (scur = ListHead \/ ~MayGoOn \/ ~SaveDue(scur))
    /\ phase' = "flush" /\ tcount' = 0
    /\ IF Restarts(fcur, all)
       THEN LET first == NextLoaded(ListHead)
            IN  fcur' = first /\ fnext' = After(loadedlist, lgone, first)
       ELSE UNCHANGED <<fcur, fnext>>
    /\ UNCHANGED <<cache, lists, disk, asked, scur, snext, all>>

\* attrgroup_flush: a dirty group is saved first.
FlushRound ==
    /\ phase = "flush" /\ fcur # ListHead /\ MayGoOn /\ FlushDue(fcur)
    /\ Save(fcur, scur)
    /\ loaded' = loaded \ {fcur} /\ accessed' = accessed \ {fcur}
    /\ mem' = [g \in Accounts |-> IF g = fcur THEN NoData ELSE mem[g]]
    /\ idle' = [idle EXCEPT ![fcur] = 0]
    /\ loadedlist' = Unlinked(loadedlist, fcur)
    /\ lgone' = Pointers(lgone, fnext, fcur, NextLoaded(fcur))
    /\ fcur' = fnext /\ fnext' = After(loadedlist', lgone', fnext)
    /\ tcount' = tcount + 1
    /\ UNCHANGED <<listed, asked, scur, snext, phase, all>>

FlushEnds ==
    /\ phase = "flush" /\ (fcur = ListHead \/ ~MayGoOn \/ ~FlushDue(fcur))
    /\ phase' = IF all THEN "exit" ELSE "events"
    /\ tcount' = 0
    /\ UNCHANGED <<cache, lists, disk, asked, scur, snext, fcur, fnext, all>>

-----------------------------------------------------------------------------
Next ==
    \/ \E g \in Accounts : \/ \E missing \in BOOLEAN : Get(g, missing)
                           \/ \E v \in Values : SetAttr(g, v) \/ Create(g, v)
                           \/ Logoff(g)
    \/ \E passed \in {0, 1}, force \in BOOLEAN : Turn(passed, force)
    \/ SaveRound \/ SaveEnds \/ FlushRound \/ FlushEnds
    \/ Restart

Spec == Init /\ [][Next]_vars

\* The server's loop goes on, and so does time; nothing is asked of the users.
FairSpec ==
    /\ Spec
    /\ SF_vars(Turn(1, FALSE))
    /\ WF_vars(SaveRound \/ SaveEnds) /\ WF_vars(FlushRound \/ FlushEnds)

-----------------------------------------------------------------------------
(***************************************************************************)
(* Properties.                                                             *)
(***************************************************************************)

\* The attributes of an account: those in memory, if they could be read.
InMemory == {g \in Accounts \cap loaded : mem[g] # NoData}
Held == [g \in Accounts |-> IF g \in InMemory THEN mem[g] ELSE disk[g]]

\* attrgroup_save and attrgroup_flush: what is in memory and not marked dirty
\* is what is in the storage, and only loaded groups are dirty, so no change
\* is forgotten when a group is unloaded.
NoChangeForgotten ==
    /\ dirty \subseteq InMemory
    /\ \A g \in InMemory \ dirty : mem[g] = disk[g]

\* The loops stop at the first group that is not due: the lists hold just the
\* groups of their flag, once each, those due first in front.
ListsSorted ==
    /\ ToSet(loadedlist) = loaded /\ Len(loadedlist) = Cardinality(loaded)
    /\ ToSet(dirtylist) = dirty /\ Len(dirtylist) = Cardinality(dirty)
    /\ \A i, j \in DOMAIN loadedlist :
          i < j /\ {loadedlist[i], loadedlist[j]} \subseteq accessed
             => idle[loadedlist[i]] >= idle[loadedlist[j]]
    /\ \A i, j \in DOMAIN dirtylist : i < j => age[dirtylist[i]] >= age[dirtylist[j]]

\* server.cpp:1273: after the forced loops of the shutdown nothing is left in
\* memory, wherever their cursors were.
ShutdownSavesAll == phase = "exit" => loaded = {} /\ dirty = {}

\* The cache is not seen by the readers: they get what was set last, whatever is
\* loaded, saved and unloaded, and a crash only takes them back to what was saved.
Store == INSTANCE AccountStore WITH held <- Held, durable <- disk
StoreSpec == Store!Spec

\* bnetd.conf.in:245: a changed account is saved after some time.
DirtySaved == \A g \in Accounts : g \in dirty ~> g \notin dirty
=============================================================================
