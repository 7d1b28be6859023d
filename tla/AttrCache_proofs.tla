--------------------------- MODULE AttrCache_proofs ---------------------------
(***************************************************************************)
(* Proofs about AttrCache: the types, that no change is forgotten, and     *)
(* that the cache implements AccountStore.  What is saved or unloaded when *)
(* depends on the lists and the cursors; that nothing is lost depends on   *)
(* the flags of the groups alone, and holds wherever the cursors point.    *)
(* The last two parts are about the lists and the shutdown.                *)
(***************************************************************************)
EXTENDS AttrCache, ListLemmas, TLAPS

-----------------------------------------------------------------------------
(* Lists.                                                                  *)
LEMMA NextType ==
    ASSUME NEW G, NEW list \in Seq(G), NEW gone \in [G -> WithHead(G)],
           NEW n \in WithHead(G)
    PROVE  NextIn(list, gone, n) \in WithHead(G) /\ After(list, gone, n) \in WithHead(G)
    <1>1. CASE n = ListHead
          <2>1. NextIn(list, gone, n) = IF 0 = Len(list) THEN ListHead ELSE list[0 + 1]
                BY <1>1 DEF NextIn
          <2> QED BY <1>1, <2>1 DEF After, WithHead
    <1>2. CASE n # ListHead /\ Linked(list, n)
          <2> DEFINE i == Position(list, n)
          <2>1. i \in DOMAIN list
                BY <1>2 DEF Linked, Position
          <2> HIDE DEF i
          <2>2. (IF i = Len(list) THEN ListHead ELSE list[i + 1]) \in WithHead(G)
                BY <2>1 DEF WithHead
          <2> QED BY <1>2, <2>2 DEF NextIn, After, i
    <1>3. CASE n # ListHead /\ ~Linked(list, n)
          BY <1>3 DEF NextIn, After, WithHead
    <1> QED BY <1>1, <1>2, <1>3

LEMMA UnlinkedType ==
    ASSUME NEW G, NEW list \in Seq(G), NEW g
    PROVE  Unlinked(list, g) \in Seq(G)
    <1>1. CASE Linked(list, g)
          <2>1. Position(list, g) \in DOMAIN list
                BY <1>1 DEF Linked, Position
          <2>2. RemoveAt(list, Position(list, g)) \in Seq(G)
                BY <2>1 DEF RemoveAt
          <2> QED BY <1>1, <2>2 DEF Unlinked
    <1> QED BY <1>1 DEF Unlinked

LEMMA ToTailType ==
    ASSUME NEW G, NEW list \in Seq(G), NEW g \in G
    PROVE  ToTail(list, g) \in Seq(G)
    BY UnlinkedType DEF ToTail

LEMMA PointersType ==
    ASSUME NEW G, NEW gone \in [G -> WithHead(G)], NEW cur, NEW g, NEW n \in WithHead(G)
    PROVE  Pointers(gone, cur, g, n) \in [G -> WithHead(G)]
    BY DEF Pointers, AtHead, WithHead

LEMMA LaterType ==
    ASSUME NEW G, NEW limit \in Nat, NEW time \in [G -> 0..limit], NEW S,
           NEW passed \in {0, 1}
    PROVE  Later(time, passed, S, limit) \in [G -> 0..limit]
    BY DEF Later

-----------------------------------------------------------------------------
(* The inductive invariant.  An account is listed from its creation on,    *)
(* and is in the storage from then on: a save never writes nothing.        *)
DataInv == NoChangeForgotten /\ listed = Stored /\ dirty \subseteq listed

IInv == TypeOK /\ DataInv

(* What a step means to the readers of the attributes.                     *)
StoreStep == Store!Next \/ UNCHANGED <<asked, Held, disk>>

-----------------------------------------------------------------------------
(* Every action keeps the types.                                           *)
LEMMA AccessType ==
    ASSUME TypeOK, NEW g \in Accounts, NEW T \in SUBSET Groups, NEW F, Access(g, T, F)
    PROVE  /\ loaded' \subseteq Groups /\ accessed' \subseteq Groups
           /\ idle' \in [Groups -> 0..UserFlush]
           /\ loadedlist' \in Seq(Groups)
           /\ dgone' \in [Accounts -> WithHead(Accounts)]
    <1>1. loaded' \subseteq Groups /\ accessed' \subseteq Groups
          BY DEF Access, TypeOK
    <1>2. idle' \in [Groups -> 0..UserFlush]
          BY PrefsAssumption DEF Access, TypeOK
    <1>3. loadedlist' \in Seq(Groups)
          <2>1. ToTail(loadedlist, g) \in Seq(Groups)
                BY ToTailType DEF TypeOK, Groups
          <2>2. Default \in Groups
                BY DEF Groups
          <2>3. ToTail(ToTail(loadedlist, g), Default) \in Seq(Groups)
                BY <2>1, <2>2, ToTailType
          <2> QED BY <2>1, <2>3 DEF Access
    <1>4. dgone' \in [Accounts -> WithHead(Accounts)]
          BY DEF Access, TypeOK, WithHead
    <1> QED BY <1>1, <1>2, <1>3, <1>4

LEMMA ReadType ==
    ASSUME TypeOK, NEW T, NEW F
    PROVE  Read(T, F) \in [Accounts -> Data]
    BY DEF Read, TypeOK, Data

LEMMA SaveType ==
    ASSUME TypeOK, NEW g \in Accounts \cup {Default}, NEW cur, Save(g, cur)
    PROVE  /\ disk' \in [Accounts -> Data]
           /\ dirty' \subseteq Accounts
           /\ age' \in [Accounts -> 0..UserSync]
           /\ dirtylist' \in Seq(Accounts)
           /\ dgone' \in [Accounts -> WithHead(Accounts)]
    <1>1. CASE g \in dirty
          <2>1. g \in Accounts
                BY <1>1 DEF TypeOK
          <2> Clean(g, cur)
                BY <1>1 DEF Save
          <2>2. disk' \in [Accounts -> Data]
                BY <1>1, <2>1 DEF Save, TypeOK
          <2>3. dirty' \subseteq Accounts
                BY DEF Clean, TypeOK
          <2>4. age' \in [Accounts -> 0..UserSync]
                <3>1. age' = [a \in Accounts |-> IF a = g THEN 0 ELSE age[a]]
                      BY DEF Clean
                <3> QED BY <3>1, PrefsAssumption DEF TypeOK
          <2>5. dirtylist' \in Seq(Accounts)
                BY UnlinkedType DEF Clean, TypeOK
          <2>6. NextDirty(g) \in WithHead(Accounts)
                <3>1. g \in WithHead(Accounts)
                      BY <2>1 DEF WithHead
                <3> QED BY <3>1, NextType DEF NextDirty, TypeOK
          <2>7. dgone' \in [Accounts -> WithHead(Accounts)]
                <3>1. dgone' = Pointers(dgone, cur, g, NextDirty(g))
                      BY DEF Clean
                <3>2. dgone \in [Accounts -> WithHead(Accounts)]
                      BY DEF TypeOK
                <3> QED BY <2>6, <3>1, <3>2, PointersType
          <2> QED BY <2>2, <2>3, <2>4, <2>5, <2>7
    <1>2. CASE g \notin dirty
          BY <1>2 DEF Save, TypeOK
    <1> QED BY <1>1, <1>2

LEMMA RestartType == ASSUME TypeOK, Restart PROVE TypeOK'
    <1>1. accessed' \subseteq Groups /\ loaded' \subseteq Groups /\ loadedlist' \in Seq(Groups)
          BY DEF Restart, DefaultRead, Groups
    <1>2. /\ lgone' \in [Groups -> WithHead(Groups)]
          /\ dgone' \in [Accounts -> WithHead(Accounts)]
          BY DEF Restart, AtHead, WithHead
    <1>3. idle' \in [Groups -> 0..UserFlush] /\ age' \in [Accounts -> 0..UserSync]
          BY PrefsAssumption DEF Restart, Zero
    <1>4. mem' \in [Accounts -> Data] /\ disk' \in [Accounts -> Data]
          BY DEF Restart, Nothing, Data, TypeOK
    <1>5. /\ listed' \subseteq Accounts /\ dirty' \subseteq Accounts
          /\ dirtylist' \in Seq(Accounts)
          BY DEF Restart, Stored
    <1>6. /\ scur' \in WithHead(Accounts) /\ snext' \in WithHead(Accounts)
          /\ fcur' \in WithHead(Groups) /\ fnext' \in WithHead(Groups)
          BY DEF Restart, WithHead
    <1> QED BY <1>1, <1>2, <1>3, <1>4, <1>5, <1>6 DEF Restart, TypeOK

LEMMA GetType ==
    ASSUME TypeOK, NEW g \in Accounts, NEW missing \in BOOLEAN, Get(g, missing)
    PROVE  TypeOK'
    <1> PICK T, F : T \in SUBSET Groups /\ Access(g, T, F) /\ mem' = Read(T, F)
        BY DEF Get, Groups
    <1>1. mem' \in [Accounts -> Data]
          BY ReadType
    <1> QED BY <1>1, AccessType DEF Get, loops, TypeOK

LEMMA SetType ==
    ASSUME TypeOK, NEW g \in Accounts, NEW v \in Values, SetAttr(g, v)
    PROVE  TypeOK'
    <1> PICK F \in Unreadable({g}) :
            /\ Access(g, {g}, F)
            /\ mem' = [Read({g}, F) EXCEPT ![g] = v]
            /\ IF Read({g}, F)[g] = v THEN UNCHANGED <<dirty, dirtylist, age>>
                                      ELSE Dirty(g)
        BY DEF SetAttr
    <1>1. mem' \in [Accounts -> Data]
          <2>1. Read({g}, F) \in [Accounts -> Data]
                BY ReadType
          <2> QED BY <2>1 DEF Data
    <1>2. /\ dirty' \subseteq Accounts
          /\ dirtylist' \in Seq(Accounts)
          /\ age' \in [Accounts -> 0..UserSync]
          <2>1. CASE Dirty(g)
                <3>1. dirty' \subseteq Accounts /\ dirtylist' \in Seq(Accounts)
                      BY <2>1 DEF Dirty, TypeOK
                <3>2. age' \in [Accounts -> 0..UserSync]
                      BY <2>1, PrefsAssumption DEF Dirty, TypeOK
                <3> QED BY <3>1, <3>2
          <2> QED BY <2>1 DEF TypeOK
    <1>3. {g} \in SUBSET Groups
          BY DEF Groups
    <1> QED BY <1>1, <1>2, <1>3, AccessType DEF SetAttr, loops, TypeOK

LEMMA LogoffType ==
    ASSUME TypeOK, NEW g \in Accounts, Logoff(g)
    PROVE  TypeOK'
    BY SaveType DEF Logoff, loops, TypeOK

LEMMA CreateType ==
    ASSUME TypeOK, NEW g \in Accounts, NEW v \in Values, Create(g, v)
    PROVE  TypeOK'
    <1>1. listed' \subseteq Accounts /\ loaded' \subseteq Groups /\ accessed' \subseteq Groups
          BY DEF Create, TypeOK, Groups
    <1>2. loadedlist' \in Seq(Groups)
          BY ToTailType DEF Create, TypeOK, Groups
    <1>3. mem' \in [Accounts -> Data] /\ disk' \in [Accounts -> Data]
          BY DEF Create, TypeOK, Data
    <1>4. idle' \in [Groups -> 0..UserFlush]
          <2>1. idle' = [idle EXCEPT ![g] = 0] /\ idle \in [Groups -> 0..UserFlush]
                BY DEF Create, TypeOK
          <2>2. 0 \in 0..UserFlush
                BY PrefsAssumption
          <2> QED BY <2>1, <2>2
    <1>5. dgone' \in [Accounts -> WithHead(Accounts)]
          BY DEF Create, TypeOK, WithHead
    <1> QED BY <1>1, <1>2, <1>3, <1>4, <1>5 DEF Create, loops, TypeOK

LEMMA TurnType ==
    ASSUME TypeOK, NEW passed \in {0, 1}, NEW force \in BOOLEAN, Turn(passed, force)
    PROVE  TypeOK'
    <1>1. idle' \in [Groups -> 0..UserFlush]
          BY PrefsAssumption, LaterType DEF Turn, TypeOK
    <1>2. age' \in [Accounts -> 0..UserSync]
          BY PrefsAssumption, LaterType DEF Turn, TypeOK
    <1>3. scur' \in WithHead(Accounts) /\ snext' \in WithHead(Accounts)
          <2> DEFINE first == NextDirty(ListHead)
          <2>1. first \in WithHead(Accounts)
                BY NextType DEF NextDirty, WithHead, TypeOK
          <2> HIDE DEF first
          <2>2. After(dirtylist, dgone, first) \in WithHead(Accounts)
                BY <2>1, NextType DEF TypeOK
          <2> QED BY <2>1, <2>2 DEF Turn, TypeOK, first
    <1> QED BY <1>1, <1>2, <1>3 DEF Turn, lists, TypeOK

LEMMA SaveRoundType == ASSUME TypeOK, SaveRound PROVE TypeOK'
    <1>1. scur \in Accounts \cup {Default}
          BY DEF SaveRound, TypeOK, WithHead
    <1>2. /\ disk' \in [Accounts -> Data]
          /\ dirty' \subseteq Accounts
          /\ age' \in [Accounts -> 0..UserSync]
          /\ dirtylist' \in Seq(Accounts)
          /\ dgone' \in [Accounts -> WithHead(Accounts)]
          BY <1>1, SaveType DEF SaveRound
    <1>3. scur' \in WithHead(Accounts) /\ snext' \in WithHead(Accounts)
          <2>1. snext \in WithHead(Accounts)
                BY DEF TypeOK
          <2>2. After(dirtylist', dgone', snext) \in WithHead(Accounts)
                BY <1>2, <2>1, NextType
          <2> QED BY <2>1, <2>2 DEF SaveRound
    <1> QED BY <1>2, <1>3 DEF SaveRound, TypeOK

LEMMA SaveEndsType == ASSUME TypeOK, SaveEnds PROVE TypeOK'
    <1>1. fcur' \in WithHead(Groups) /\ fnext' \in WithHead(Groups)
          <2> DEFINE first == NextLoaded(ListHead)
          <2>1. first \in WithHead(Groups)
                BY NextType DEF NextLoaded, WithHead, TypeOK
          <2> HIDE DEF first
          <2>2. After(loadedlist, lgone, first) \in WithHead(Groups)
                BY <2>1, NextType DEF TypeOK
          <2> QED BY <2>1, <2>2 DEF SaveEnds, TypeOK, first
    <1> QED BY <1>1 DEF SaveEnds, cache, lists, TypeOK

LEMMA FlushRoundType == ASSUME TypeOK, FlushRound PROVE TypeOK'
    <1>1. fcur \in Accounts \cup {Default} /\ fcur \in WithHead(Groups)
          BY DEF FlushRound, TypeOK, WithHead, Groups
    <1>2. /\ disk' \in [Accounts -> Data]
          /\ dirty' \subseteq Accounts
          /\ age' \in [Accounts -> 0..UserSync]
          /\ dirtylist' \in Seq(Accounts)
          /\ dgone' \in [Accounts -> WithHead(Accounts)]
          BY <1>1, SaveType DEF FlushRound
    <1>3. loaded' \subseteq Groups /\ accessed' \subseteq Groups
          BY DEF FlushRound, TypeOK
    <1>4. loadedlist' \in Seq(Groups)
          BY UnlinkedType DEF FlushRound, TypeOK
    <1>5. lgone' \in [Groups -> WithHead(Groups)]
          <2>1. NextLoaded(fcur) \in WithHead(Groups)
                BY <1>1, NextType DEF NextLoaded, TypeOK
          <2>2. lgone' = Pointers(lgone, fnext, fcur, NextLoaded(fcur))
                BY DEF FlushRound
          <2>3. lgone \in [Groups -> WithHead(Groups)]
                BY DEF TypeOK
          <2> QED BY <2>1, <2>2, <2>3, PointersType
    <1>6. fcur' \in WithHead(Groups) /\ fnext' \in WithHead(Groups)
          <2>1. fnext \in WithHead(Groups)
                BY DEF TypeOK
          <2>2. After(loadedlist', lgone', fnext) \in WithHead(Groups)
                BY <1>4, <1>5, <2>1, NextType
          <2> QED BY <2>1, <2>2 DEF FlushRound
    <1>7. mem' \in [Accounts -> Data]
          BY DEF FlushRound, TypeOK, Data
    <1>8. idle' \in [Groups -> 0..UserFlush]
          <2>1. idle' = [idle EXCEPT ![fcur] = 0] /\ idle \in [Groups -> 0..UserFlush]
                BY DEF FlushRound, TypeOK
          <2>2. 0 \in 0..UserFlush
                BY PrefsAssumption
          <2> QED BY <2>1, <2>2
    <1> QED BY <1>2, <1>3, <1>4, <1>5, <1>6, <1>7, <1>8 DEF FlushRound, TypeOK

LEMMA StepType ==
    ASSUME TypeOK, [Next]_vars
    PROVE  TypeOK'
    <1>1. CASE \E g \in Accounts, missing \in BOOLEAN : Get(g, missing)
          BY <1>1, GetType
    <1>2. CASE \E g \in Accounts, v \in Values : SetAttr(g, v)
          BY <1>2, SetType
    <1>3. CASE \E g \in Accounts, v \in Values : Create(g, v)
          BY <1>3, CreateType
    <1>4. CASE \E g \in Accounts : Logoff(g)
          BY <1>4, LogoffType
    <1>5. CASE \E passed \in {0, 1}, force \in BOOLEAN : Turn(passed, force)
          BY <1>5, TurnType
    <1>6. CASE SaveRound \/ SaveEnds \/ FlushRound
          BY <1>6, SaveRoundType, SaveEndsType, FlushRoundType
    <1>7. CASE FlushEnds
          BY <1>7 DEF FlushEnds, cache, lists, TypeOK
    <1>8. CASE Restart
          BY <1>8, RestartType
    <1>9. CASE UNCHANGED vars
          BY <1>9 DEF vars, cache, lists, loops, TypeOK
    <1> QED BY <1>1, <1>2, <1>3, <1>4, <1>5, <1>6, <1>7, <1>8, <1>9 DEF Next

LEMMA InitType == Init => TypeOK
    <1> SUFFICES ASSUME Init PROVE TypeOK
        OBVIOUS
    <1>1. accessed \subseteq Groups /\ loaded \subseteq Groups /\ loadedlist \in Seq(Groups)
          BY DEF Init, DefaultRead, Groups
    <1>2. /\ lgone \in [Groups -> WithHead(Groups)]
          /\ dgone \in [Accounts -> WithHead(Accounts)]
          BY DEF Init, AtHead, WithHead
    <1>3. idle \in [Groups -> 0..UserFlush] /\ age \in [Accounts -> 0..UserSync]
          BY PrefsAssumption DEF Init, Zero
    <1>4. mem \in [Accounts -> Data]
          BY DEF Init, Nothing, Data
    <1>5. listed \subseteq Accounts /\ dirty \subseteq Accounts /\ dirtylist \in Seq(Accounts)
          BY DEF Init, Stored
    <1>6. /\ scur \in WithHead(Accounts) /\ snext \in WithHead(Accounts)
          /\ fcur \in WithHead(Groups) /\ fnext \in WithHead(Groups)
          BY DEF Init, WithHead
    <1> QED BY <1>1, <1>2, <1>3, <1>4, <1>5, <1>6 DEF Init, TypeOK

(* TypeOK of AttrCache: the lists hold groups, the cursors point at nodes  *)
(* of their list or at its head, and the times stay within the timers.     *)
THEOREM TypeCorrect == Spec => []TypeOK
    <1>1. TypeOK /\ [Next]_vars => TypeOK'
          BY StepType
    <1> QED BY InitType, <1>1, PTL DEF Spec

-----------------------------------------------------------------------------
(* Every action keeps DataInv and is a step of the store.                  *)
LEMMA UnreadableFacts ==
    ASSUME NEW T, NEW F \in Unreadable(T)
    PROVE  F \subseteq T \ loaded /\ (T \cap Accounts) \ (Stored \cup loaded) \subseteq F
    BY DEF Unreadable

(* A save writes what readers get, to accounts that are stored already.    *)
LEMMA SaveData ==
    ASSUME IInv, NEW g, NEW cur, Save(g, cur)
    PROVE  /\ dirty' = dirty \ {g}
           /\ disk' = [a \in Accounts |-> IF a = g /\ g \in dirty THEN mem[a] ELSE disk[a]]
           /\ Stored' = Stored
           /\ \A a \in InMemory \ dirty' : mem[a] = disk'[a]
           /\ g \in dirty => disk' = [disk EXCEPT ![g] = Held[g]]
    <1>1. dirty' = dirty \ {g}
          BY DEF Save, Clean
    <1>2. disk' = [a \in Accounts |-> IF a = g /\ g \in dirty THEN mem[a] ELSE disk[a]]
          BY DEF Save, IInv, TypeOK
    <1>3. g \in dirty => g \in InMemory /\ g \in Stored
          BY DEF IInv, DataInv, NoChangeForgotten
    <1>4. Stored' = Stored
          BY <1>2, <1>3 DEF Stored, InMemory
    <1>5. \A a \in InMemory \ dirty' : mem[a] = disk'[a]
          BY <1>1, <1>2 DEF IInv, DataInv, NoChangeForgotten, InMemory
    <1>6. g \in dirty => disk' = [disk EXCEPT ![g] = Held[g]]
          BY <1>3 DEF Save, Held, InMemory
    <1> QED BY <1>1, <1>2, <1>4, <1>5, <1>6

LEMMA RestartData == ASSUME IInv, Restart PROVE DataInv' /\ StoreStep
    <1>1. InMemory' = {}
          BY DEF Restart, InMemory, Nothing
    <1>2. Stored' = Stored
          BY DEF Restart, Stored
    <1>3. DataInv'
          BY <1>1, <1>2 DEF Restart, DataInv, NoChangeForgotten
    <1>4. Held' = disk
          BY <1>1 DEF Restart, Held, IInv, TypeOK
    <1> QED BY <1>3, <1>4 DEF Restart, StoreStep, Store!Next, Store!Crash

LEMMA GetData ==
    ASSUME IInv, NEW g \in Accounts, NEW missing \in BOOLEAN, Get(g, missing)
    PROVE  DataInv' /\ StoreStep
    <1> PICK T, F : F \in Unreadable(T) /\ Access(g, T, F) /\ mem' = Read(T, F)
        BY DEF Get
    <1>1. loaded' = loaded \cup T
          BY DEF Access
    <1>2. \A a \in InMemory : a \in InMemory' /\ mem'[a] = mem[a]
          BY <1>1 DEF InMemory, Read
    <1>3. \A a \in InMemory' \ InMemory : mem'[a] = disk[a]
          BY <1>1, UnreadableFacts DEF InMemory, Read
    <1>4. disk' = disk /\ asked' = asked /\ dirty' = dirty /\ listed' = listed
          BY DEF Get
    <1>5. Stored' = Stored
          BY <1>4 DEF Stored
    <1>6. DataInv'
          BY <1>2, <1>3, <1>4, <1>5 DEF IInv, DataInv, NoChangeForgotten
    <1>7. Held' = Held
          BY <1>2, <1>3, <1>4 DEF Held
    <1> QED BY <1>4, <1>6, <1>7 DEF StoreStep

LEMMA SetData ==
    ASSUME IInv, NEW g \in Accounts, NEW v \in Values, SetAttr(g, v)
    PROVE  DataInv' /\ StoreStep
    <1> PICK F \in Unreadable({g}) :
            /\ Access(g, {g}, F)
            /\ mem' = [Read({g}, F) EXCEPT ![g] = v]
            /\ IF Read({g}, F)[g] = v THEN UNCHANGED <<dirty, dirtylist, age>>
                                      ELSE Dirty(g)
        BY DEF SetAttr
    <1>1. loaded' = loaded \cup {g} /\ v # NoData
          BY ValuesAssumption DEF Access
    <1>2. disk' = disk /\ listed' = listed /\ g \in listed
          BY DEF SetAttr
    <1>3. /\ mem'[g] = v
          /\ \A a \in Accounts \ {g} : mem'[a] = mem[a]
          BY DEF Read
    <1>4. InMemory' = InMemory \cup {g}
          BY <1>1, <1>3 DEF InMemory
    <1>5. \/ dirty' = dirty \cup {g}
          \/ dirty' = dirty /\ g \notin dirty /\ disk[g] = v
          \/ dirty' = dirty /\ g \in dirty
          <2>1. CASE Read({g}, F)[g] # v
                BY <2>1 DEF Dirty
          <2>2. CASE Read({g}, F)[g] = v /\ g \notin dirty
                <3>1. dirty' = dirty
                      BY <2>2
                <3>2. CASE g \in loaded
                      <4>1. mem[g] = v
                            BY <2>2, <3>2 DEF Read
                      <4> QED BY <1>1, <2>2, <3>1, <3>2, <4>1
                              DEF IInv, DataInv, NoChangeForgotten, InMemory
                <3>3. CASE g \notin loaded
                      BY <1>1, <2>2, <3>1, <3>3 DEF Read
                <3> QED BY <3>2, <3>3
          <2>3. CASE Read({g}, F)[g] = v /\ g \in dirty
                BY <2>3
          <2> QED BY <2>1, <2>2, <2>3
    <1>6. Stored' = Stored
          BY <1>2 DEF Stored
    <1>7. dirty' \subseteq InMemory' /\ dirty' \subseteq listed'
          BY <1>2, <1>4, <1>5 DEF IInv, DataInv, NoChangeForgotten
    <1>8. \A a \in InMemory' \ dirty' : mem'[a] = disk'[a]
          BY <1>2, <1>3, <1>4, <1>5 DEF IInv, DataInv, NoChangeForgotten, InMemory
    <1>9. DataInv'
          BY <1>2, <1>6, <1>7, <1>8 DEF IInv, DataInv, NoChangeForgotten
    <1>10. Held' = [Held EXCEPT ![g] = v]
           BY <1>2, <1>3, <1>4 DEF Held, InMemory
    <1>11. Held[g] # NoData
           BY <1>2 DEF Held, InMemory, IInv, DataInv, Stored
    <1>12. asked' = [asked EXCEPT ![g] = v]
           BY DEF SetAttr
    <1> QED BY <1>2, <1>9, <1>10, <1>11, <1>12 DEF StoreStep, Store!Next, Store!Set

LEMMA LogoffData ==
    ASSUME IInv, NEW g \in Accounts, Logoff(g)
    PROVE  DataInv' /\ StoreStep
    <1>1. InMemory' = InMemory /\ mem' = mem /\ listed' = listed
          BY DEF Logoff, InMemory
    <1> Save(g, scur)
        BY DEF Logoff
    <1>2. DataInv'
          BY <1>1, SaveData DEF IInv, DataInv, NoChangeForgotten
    <1>3. Held' = Held
          BY <1>1, SaveData DEF Held, InMemory, IInv, DataInv, NoChangeForgotten
    <1>4. /\ g \notin dirty => disk' = disk
          /\ asked' = asked
          BY DEF Save, Logoff
    <1> QED BY <1>2, <1>3, <1>4, SaveData DEF StoreStep, Store!Next, Store!Sync

LEMMA CreateData ==
    ASSUME IInv, NEW g \in Accounts, NEW v \in Values, Create(g, v)
    PROVE  DataInv' /\ StoreStep
    <1>1. v # NoData /\ g \notin Stored /\ g \notin dirty
          BY ValuesAssumption DEF Create, IInv, DataInv
    <1>2. g \notin InMemory /\ disk[g] = NoData
          BY <1>1 DEF Stored, InMemory, IInv, DataInv, NoChangeForgotten
    <1>3. /\ mem'[g] = v /\ disk'[g] = v
          /\ \A a \in Accounts \ {g} : mem'[a] = mem[a] /\ disk'[a] = disk[a]
          BY DEF Create, IInv, TypeOK
    <1>4. InMemory' = InMemory \cup {g} /\ Stored' = Stored \cup {g}
          BY <1>1, <1>3 DEF Create, InMemory, Stored
    <1>5. DataInv'
          BY <1>3, <1>4 DEF Create, IInv, DataInv, NoChangeForgotten, InMemory
    <1>6. Held' = [Held EXCEPT ![g] = v] /\ Held[g] = NoData
          BY <1>2, <1>3, <1>4 DEF Held, InMemory
    <1>7. disk' = [disk EXCEPT ![g] = v] /\ asked' = [asked EXCEPT ![g] = v]
          BY DEF Create
    <1> QED BY <1>5, <1>6, <1>7 DEF StoreStep, Store!Next, Store!Create

LEMMA SaveRoundData == ASSUME IInv, SaveRound PROVE DataInv' /\ StoreStep
    <1>1. InMemory' = InMemory /\ mem' = mem /\ listed' = listed /\ asked' = asked
          BY DEF SaveRound, InMemory
    <1> Save(scur, snext)
        BY DEF SaveRound
    <1>2. scur \in dirty /\ scur \in Accounts
          BY DEF SaveRound, SaveDue, IInv, TypeOK
    <1>3. DataInv'
          BY <1>1, SaveData DEF IInv, DataInv, NoChangeForgotten
    <1>4. Held' = Held
          BY <1>1, SaveData DEF Held, InMemory, IInv, DataInv, NoChangeForgotten
    <1> QED BY <1>1, <1>2, <1>3, <1>4, SaveData DEF StoreStep, Store!Next, Store!Sync

LEMMA FlushRoundData == ASSUME IInv, FlushRound PROVE DataInv' /\ StoreStep
    <1> Save(fcur, scur)
        BY DEF FlushRound
    <1>1. /\ InMemory' = InMemory \ {fcur} /\ listed' = listed
          /\ \A a \in Accounts \ {fcur} : mem'[a] = mem[a]
          BY DEF FlushRound, InMemory
    <1>2. DataInv'
          BY <1>1, SaveData DEF IInv, DataInv, NoChangeForgotten, InMemory
    <1>3. Held' = Held
          <2>1. \A a \in Accounts \ {fcur} : disk'[a] = disk[a]
                BY SaveData
          <2>2. \A a \in Accounts \ {fcur} : Held'[a] = Held[a]
                BY <1>1, <2>1 DEF Held
          <2>3. ASSUME fcur \in Accounts PROVE Held'[fcur] = Held[fcur]
                <3>1. Held'[fcur] = disk'[fcur]
                      BY <1>1, <2>3 DEF Held
                <3>2. CASE fcur \in InMemory
                      BY <2>3, <3>1, <3>2, SaveData DEF Held
                <3>3. CASE fcur \notin InMemory
                      <4>1. fcur \notin dirty
                            BY <3>3 DEF IInv, DataInv, NoChangeForgotten
                      <4> QED BY <2>3, <3>1, <3>3, <4>1, SaveData DEF Held
                <3> QED BY <3>2, <3>3
          <2>4. \A a \in Accounts : Held'[a] = Held[a]
                BY <2>2, <2>3
          <2> QED BY <2>4 DEF Held
    <1>4. fcur \in dirty => fcur \in Accounts
          BY DEF IInv, TypeOK
    <1>5. /\ fcur \notin dirty => disk' = disk
          /\ asked' = asked
          BY DEF Save, FlushRound
    <1> QED BY <1>2, <1>3, <1>4, <1>5, SaveData DEF StoreStep, Store!Next, Store!Sync

LEMMA QuietData ==
    ASSUME IInv, UNCHANGED <<listed, loaded, dirty, mem, disk, asked>>
    PROVE  DataInv' /\ StoreStep
    <1>1. InMemory' = InMemory /\ Stored' = Stored
          BY DEF InMemory, Stored
    <1>2. Held' = Held
          BY <1>1 DEF Held
    <1> QED BY <1>1, <1>2 DEF IInv, DataInv, NoChangeForgotten, StoreStep

LEMMA StepData ==
    ASSUME IInv, [Next]_vars
    PROVE  DataInv' /\ StoreStep
    <1>1. CASE \E g \in Accounts, missing \in BOOLEAN : Get(g, missing)
          BY <1>1, GetData
    <1>2. CASE \E g \in Accounts, v \in Values : SetAttr(g, v)
          BY <1>2, SetData
    <1>3. CASE \E g \in Accounts, v \in Values : Create(g, v)
          BY <1>3, CreateData
    <1>4. CASE \E g \in Accounts : Logoff(g)
          BY <1>4, LogoffData
    <1>5. CASE SaveRound \/ FlushRound
          BY <1>5, SaveRoundData, FlushRoundData
    <1>6. CASE Restart
          BY <1>6, RestartData
    <1>7. CASE \E passed \in {0, 1}, force \in BOOLEAN : Turn(passed, force)
          BY <1>7, QuietData DEF Turn
    <1>8. CASE SaveEnds \/ FlushEnds \/ UNCHANGED vars
          BY <1>8, QuietData DEF SaveEnds, FlushEnds, cache, vars
    <1> QED BY <1>1, <1>2, <1>3, <1>4, <1>5, <1>6, <1>7, <1>8 DEF Next

LEMMA InitData == Init => DataInv /\ Store!Init
    <1> SUFFICES ASSUME Init PROVE DataInv /\ Store!Init
        OBVIOUS
    <1>1. InMemory = {}
          BY DEF Init, Nothing, InMemory
    <1>2. Held = disk
          BY <1>1 DEF Init, Held
    <1> QED BY <1>1, <1>2 DEF Init, DataInv, NoChangeForgotten, Store!Init, Data

(* NoChangeForgotten of AttrCache: an account that is not marked dirty is  *)
(* in the storage as it is in memory, and nothing is unloaded unsaved.     *)
THEOREM ChangesKept == Spec => []NoChangeForgotten
    <1>1. Init => IInv
          BY InitType, InitData DEF IInv
    <1>2. IInv /\ [Next]_vars => IInv'
          BY StepType, StepData DEF IInv
    <1>3. IInv => NoChangeForgotten
          BY DEF IInv, DataInv
    <1> QED BY <1>1, <1>2, <1>3, PTL DEF Spec

(* StoreSpec of AttrCache: readers never notice the cache, wherever the    *)
(* loops stop, and a crash takes them back to what was saved.              *)
THEOREM StoreImplemented == Spec => StoreSpec
    <1>1. Init => IInv /\ Store!Init
          BY InitType, InitData DEF IInv
    <1>2. IInv /\ [Next]_vars => IInv' /\ [Store!Next]_<<asked, Held, disk>>
          BY StepType, StepData DEF IInv, StoreStep
    <1> QED BY <1>1, <1>2, PTL DEF Spec, StoreSpec, Store!Spec

-----------------------------------------------------------------------------
(* The lists.  Each holds the groups of its flag, once; and the times of   *)
(* those whose time runs do not increase along it.                         *)
Ordered(list, S, time) ==
    \A i, j \in DOMAIN list : i < j /\ list[i] \in S /\ list[j] \in S
        => time[list[i]] >= time[list[j]]

ListOf(list, S) == IsInjective(list) /\ ToSet(list) = S

ListInv ==
    /\ ListOf(loadedlist, loaded) /\ ListOf(dirtylist, dirty)
    /\ accessed \subseteq loaded
    /\ Ordered(loadedlist, accessed, idle)
    /\ Ordered(dirtylist, dirty, age)

(* A forced loop has handled everything in front of its cursor: what it    *)
(* has at hand is the first node that is left.                             *)
CursorInv ==
    /\ phase = "save" /\ all =>
          scur = NextDirty(ListHead) /\ snext = After(dirtylist, dgone, scur)
    /\ phase = "flush" /\ all =>
          dirty = {} /\ fcur = NextLoaded(ListHead) /\ fnext = After(loadedlist, lgone, fcur)
    /\ phase = "exit" => loaded = {} /\ dirty = {}

LEMMA UnlinkedList ==
    ASSUME NEW G, NEW list \in Seq(G), IsInjective(list), NEW g
    PROVE  LET u == Unlinked(list, g)
           IN  /\ u \in Seq(G) /\ ListOf(u, ToSet(list) \ {g})
               /\ InOrder(u, list)
    <1>1. CASE Linked(list, g)
          <2> DEFINE i == Position(list, g)
          <2>1. i \in DOMAIN list /\ list[i] = g
                BY <1>1 DEF Linked, Position
          <2> HIDE DEF i
          <2>2. i \in 1 .. Len(list)
                BY <2>1, LenProperties
          <2>3. RemoveAt(list, i) \in Seq(G) /\ Cut(list, RemoveAt(list, i), i)
                BY <2>2, RemoveAtCuts
          <2>4. Unlinked(list, g) = RemoveAt(list, i)
                BY <1>1 DEF Unlinked, i
          <2> QED BY <2>1, <2>3, <2>4, CutList DEF ListOf
    <1>2. CASE ~Linked(list, g)
          <2>1. Unlinked(list, g) = list /\ g \notin ToSet(list)
                BY <1>2 DEF Unlinked, Linked, ToSet
          <2>2. InOrder(list, list)
                BY DEF InOrder
          <2> QED BY <2>1, <2>2 DEF ListOf
    <1> QED BY <1>1, <1>2

(* What is left of an ordered list is ordered, if the times are the same.  *)
LEMMA OrderedLeft ==
    ASSUME NEW list, NEW u, InOrder(u, list), NEW S, NEW time, Ordered(list, S, time),
           NEW S2, NEW time2, \A h \in S2 \cap ToSet(u) : h \in S /\ time2[h] = time[h]
    PROVE  Ordered(u, S2, time2)
    <1> SUFFICES ASSUME NEW i \in DOMAIN u, NEW j \in DOMAIN u, i < j, u[i] \in S2, u[j] \in S2
                 PROVE  time2[u[i]] >= time2[u[j]]
        BY DEF Ordered
    <1>1. PICK a, b \in DOMAIN list : a < b /\ u[i] = list[a] /\ u[j] = list[b]
          BY DEF InOrder
    <1>2. u[i] \in ToSet(u) /\ u[j] \in ToSet(u)
          BY DEF ToSet
    <1>3. time[list[a]] >= time[list[b]]
          BY <1>1, <1>2 DEF Ordered
    <1> QED BY <1>1, <1>2, <1>3

(* Something at the tail whose time is zero keeps a list ordered.          *)
LEMMA OrderedAppend ==
    ASSUME NEW G, NEW list \in Seq(G), IsInjective(list), NEW g \in G, g \notin ToSet(list),
           NEW S, NEW time, Ordered(list, S, time),
           NEW S2, NEW time2, \A h \in S2 \cap ToSet(list) : h \in S /\ time2[h] = time[h],
           \A h \in ToSet(list) : time2[h] \in Nat, g \in S2 => time2[g] = 0
    PROVE  Ordered(Append(list, g), S2, time2)
    <1> DEFINE t == Append(list, g)
    <1>1. /\ IsInjective(t) /\ ToSet(t) = ToSet(list) \cup {g}
          /\ \A i, j \in DOMAIN t : i < j =>
                \/ t[j] = g
                \/ i \in DOMAIN list /\ j \in DOMAIN list /\ t[i] = list[i] /\ t[j] = list[j]
          BY AppendList
    <1> HIDE DEF t
    <1>2. ASSUME NEW i \in DOMAIN t, NEW j \in DOMAIN t, i < j, t[i] \in S2, t[j] \in S2
          PROVE  time2[t[i]] >= time2[t[j]]
          <2>1. CASE t[j] = g
                <3>1. t[i] \in ToSet(list) \/ t[i] = g
                      BY <1>1 DEF ToSet
                <3> QED BY <1>2, <2>1, <3>1
          <2>2. CASE i \in DOMAIN list /\ j \in DOMAIN list /\ t[i] = list[i] /\ t[j] = list[j]
                <3>1. t[i] \in ToSet(list) /\ t[j] \in ToSet(list)
                      BY <2>2 DEF ToSet
                <3>2. time[list[i]] >= time[list[j]]
                      BY <1>2, <2>2, <3>1 DEF Ordered
                <3> QED BY <1>2, <2>2, <3>1, <3>2
          <2> QED BY <1>1, <1>2, <2>1, <2>2
    <1>3. Ordered(t, S2, time2)
          BY <1>2 DEF Ordered
    <1> QED BY <1>3 DEF t

(* The times of new are zero now, the others as they were.                 *)
Touched(list, G, new, S, time, S2, time2) ==
    /\ list \in Seq(G) /\ IsInjective(list) /\ new \subseteq G
    /\ Ordered(list, S, time)
    /\ \A h \in G : time2[h] \in Nat
    /\ \A h \in new \cap S2 : time2[h] = 0
    /\ \A h \in S2 \ new : h \in S /\ time2[h] = time[h]

LEMMA ToTailList ==
    ASSUME NEW G, NEW list, NEW g, NEW S, NEW time, NEW S2, NEW time2,
           Touched(list, G, {g}, S, time, S2, time2)
    PROVE  /\ ToTail(list, g) \in Seq(G) /\ ListOf(ToTail(list, g), ToSet(list) \cup {g})
           /\ Ordered(ToTail(list, g), S2, time2)
    <1> DEFINE u == Unlinked(list, g)
    <1>0. /\ list \in Seq(G) /\ IsInjective(list) /\ g \in G /\ Ordered(list, S, time)
          /\ ToSet(list) \subseteq G
          BY DEF Touched, ToSet
    <1>1. u \in Seq(G) /\ ListOf(u, ToSet(list) \ {g}) /\ InOrder(u, list)
          BY <1>0, UnlinkedList
    <1>2. ToTail(list, g) = Append(u, g)
          BY DEF ToTail
    <1> HIDE DEF u
    <1>3. \A h \in S2 \cap ToSet(u) : h \in S /\ time2[h] = time[h]
          BY <1>1 DEF ListOf, Touched
    <1>4. Ordered(u, S2, time2)
          BY <1>0, <1>1, <1>3, OrderedLeft
    <1>5. (\A h \in ToSet(u) : time2[h] \in Nat) /\ (g \in S2 => time2[g] = 0)
          BY <1>0, <1>1 DEF ListOf, Touched
    <1>6. IsInjective(u) /\ g \notin ToSet(u)
          BY <1>1 DEF ListOf
    <1>7. Ordered(Append(u, g), S2, time2)
          BY <1>0, <1>1, <1>4, <1>5, <1>6, OrderedAppend
    <1>8. ListOf(Append(u, g), ToSet(list) \cup {g})
          BY <1>0, <1>1, AppendList DEF ListOf
    <1> QED BY <1>0, <1>1, <1>2, <1>7, <1>8

LEMMA ToTailTwice ==
    ASSUME NEW G, NEW list, NEW g, NEW d, g # d, NEW S, NEW time, NEW S2, NEW time2,
           Touched(list, G, {g, d}, S, time, S2, time2)
    PROVE  /\ ListOf(ToTail(ToTail(list, g), d), ToSet(list) \cup {g, d})
           /\ Ordered(ToTail(ToTail(list, g), d), S2, time2)
    <1> DEFINE l1 == ToTail(list, g)
               S1 == S2 \ {d}
    <1>1. Touched(list, G, {g}, S, time, S1, time2)
          BY DEF Touched
    <1> HIDE DEF S1
    <1>2. /\ l1 \in Seq(G) /\ ListOf(l1, ToSet(list) \cup {g})
          /\ Ordered(l1, S1, time2)
          BY <1>1, ToTailList
    <1> HIDE DEF l1
    <1>3. Touched(l1, G, {d}, S1, time2, S2, time2)
          BY <1>2 DEF Touched, S1, ListOf
    <1>4. /\ ListOf(ToTail(l1, d), ToSet(l1) \cup {d})
          /\ Ordered(ToTail(l1, d), S2, time2)
          BY <1>3, ToTailList
    <1>5. ToSet(l1) \cup {d} = ToSet(list) \cup {g, d}
          BY <1>2 DEF ListOf
    <1> QED BY <1>4, <1>5 DEF l1

(* Time passes for all whose time runs, up to the limit.                   *)
LEMMA OrderedLater ==
    ASSUME NEW list, NEW S, NEW G, S \subseteq G, NEW limit \in Nat, NEW time \in [G -> 0..limit],
           Ordered(list, S, time), NEW passed \in {0, 1}
    PROVE  Ordered(list, S, Later(time, passed, S, limit))
    <1> DEFINE t == Later(time, passed, S, limit)
    <1>1. \A g \in S : t[g] = IF time[g] < limit THEN time[g] + passed ELSE time[g]
          BY DEF Later
    <1> HIDE DEF t
    <1>2. ASSUME NEW g \in S, NEW h \in S, time[g] >= time[h]
          PROVE  t[g] >= t[h]
          <2>1. time[g] \in 0..limit /\ time[h] \in 0..limit
                OBVIOUS
          <2> QED BY <1>1, <1>2, <2>1
    <1>3. Ordered(list, S, t)
          BY <1>2 DEF Ordered
    <1> QED BY <1>3 DEF t

LEMMA AccessLists ==
    ASSUME TypeOK, ListInv, NEW g \in Accounts, NEW T \in {{g}, {g, Default}},
           NEW F, F \subseteq T \ loaded, Access(g, T, F)
    PROVE  /\ ListOf(loadedlist', loaded') /\ accessed' \subseteq loaded'
           /\ Ordered(loadedlist', accessed', idle')
    <1> DEFINE touched == [h \in Groups |-> IF h \in T \ F THEN 0 ELSE idle[h]]
               used == accessed \cup (T \ F)
    <1>1. /\ T \subseteq Groups /\ g # Default /\ g \in T
          /\ loadedlist \in Seq(Groups) /\ idle \in [Groups -> 0..UserFlush]
          /\ accessed \subseteq Groups
          BY NodesAssumption DEF TypeOK, Groups
    <1>2. /\ loaded' = loaded \cup T /\ accessed' = used /\ idle' = touched
          /\ loadedlist' = IF Default \in T THEN ToTail(ToTail(loadedlist, g), Default)
                                            ELSE ToTail(loadedlist, g)
          BY DEF Access
    <1>3. accessed' \subseteq loaded'
          BY <1>2 DEF ListInv
    <1>4. \A h \in Groups : touched[h] \in Nat
          BY <1>1, PrefsAssumption
    <1>5. accessed \cap F = {}
          BY DEF ListInv
    <1>6. /\ ToSet(loadedlist) = loaded /\ IsInjective(loadedlist)
          /\ Ordered(loadedlist, accessed, idle)
          BY DEF ListInv, ListOf
    <1>7. \A h \in T \cap used : touched[h] = 0
          BY <1>1, <1>5
    <1>8. \A h \in used \ T : h \in accessed /\ touched[h] = idle[h]
          BY <1>1
    <1> HIDE DEF touched, used
    <1>9. Touched(loadedlist, Groups, T, accessed, idle, used, touched)
          BY <1>1, <1>4, <1>6, <1>7, <1>8 DEF Touched
    <1>10. CASE T = {g}
          <2>1. /\ ListOf(ToTail(loadedlist, g), ToSet(loadedlist) \cup {g})
                /\ Ordered(ToTail(loadedlist, g), used, touched)
                BY <1>9, <1>10, ToTailList
          <2> QED BY <1>1, <1>2, <1>3, <1>6, <1>10, <2>1
    <1>11. CASE T = {g, Default}
          <2> DEFINE t == ToTail(ToTail(loadedlist, g), Default)
          <2>1. ListOf(t, ToSet(loadedlist) \cup {g, Default}) /\ Ordered(t, used, touched)
                BY <1>1, <1>9, <1>11, ToTailTwice
          <2> QED BY <1>2, <1>3, <1>6, <1>11, <2>1
    <1> QED BY <1>10, <1>11

LEMMA SaveLists ==
    ASSUME TypeOK, ListInv, NEW g, NEW cur, Save(g, cur)
    PROVE  ListOf(dirtylist', dirty') /\ Ordered(dirtylist', dirty', age')
    <1>1. CASE g \in dirty
          <2>1. /\ dirty' = dirty \ {g} /\ dirtylist' = Unlinked(dirtylist, g)
                /\ age' = [a \in Accounts |-> IF a = g THEN 0 ELSE age[a]]
                BY <1>1 DEF Save, Clean
          <2>2. /\ ListOf(dirtylist', ToSet(dirtylist) \ {g}) /\ InOrder(dirtylist', dirtylist)
                BY <2>1, UnlinkedList DEF TypeOK, ListInv, ListOf
          <2>3. ListOf(dirtylist', dirty')
                BY <2>1, <2>2 DEF ListInv, ListOf
          <2>4. \A h \in dirty' : h \in dirty /\ age'[h] = age[h]
                BY <2>1 DEF TypeOK
          <2> QED BY <2>2, <2>3, <2>4, OrderedLeft DEF ListInv
    <1>2. CASE g \notin dirty
          BY <1>2 DEF Save, ListInv
    <1> QED BY <1>1, <1>2

LEMMA DirtyLists ==
    ASSUME TypeOK, ListInv, NEW g \in Accounts, Dirty(g)
    PROVE  ListOf(dirtylist', dirty') /\ Ordered(dirtylist', dirty', age')
    <1>1. CASE g \in dirty
          <2>1. dirty' = dirty /\ dirtylist' = dirtylist /\ age' = age
                BY <1>1 DEF Dirty
          <2> QED BY <2>1 DEF ListInv
    <1>2. CASE g \notin dirty
          <2>1. dirty' = dirty \cup {g} /\ dirtylist' = Append(dirtylist, g)
                /\ age' = [age EXCEPT ![g] = 0]
                BY <1>2 DEF Dirty
          <2>2. /\ dirtylist \in Seq(Accounts) /\ age \in [Accounts -> 0..UserSync]
                /\ ToSet(dirtylist) = dirty /\ IsInjective(dirtylist) /\ dirty \subseteq Accounts
                BY DEF TypeOK, ListInv, ListOf
          <2>3. ListOf(dirtylist', dirty')
                BY <1>2, <2>1, <2>2, AppendList DEF ListOf
          <2>4. /\ \A h \in dirty : age'[h] = age[h] /\ age'[h] \in Nat
                /\ age'[g] = 0
                BY <1>2, <2>1, <2>2, PrefsAssumption
          <2>5. \A h \in dirty' \cap ToSet(dirtylist) : h \in dirty /\ age'[h] = age[h]
                BY <2>2, <2>4
          <2>6. Ordered(Append(dirtylist, g), dirty', age')
                BY <1>2, <2>2, <2>4, <2>5, OrderedAppend DEF ListInv
          <2> QED BY <2>1, <2>3, <2>6
    <1> QED BY <1>1, <1>2

LEMMA FlushLists ==
    ASSUME TypeOK, ListInv, FlushRound
    PROVE  ListInv'
    <1>1. ListOf(dirtylist', dirty') /\ Ordered(dirtylist', dirty', age')
          BY SaveLists DEF FlushRound
    <1>2. /\ loaded' = loaded \ {fcur} /\ accessed' = accessed \ {fcur}
          /\ idle' = [idle EXCEPT ![fcur] = 0] /\ loadedlist' = Unlinked(loadedlist, fcur)
          BY DEF FlushRound
    <1>3. ListOf(loadedlist', ToSet(loadedlist) \ {fcur}) /\ InOrder(loadedlist', loadedlist)
          BY <1>2, UnlinkedList DEF TypeOK, ListInv, ListOf
    <1>4. ListOf(loadedlist', loaded') /\ accessed' \subseteq loaded'
          BY <1>2, <1>3 DEF ListInv, ListOf
    <1>5. \A h \in accessed' : h \in accessed /\ idle'[h] = idle[h]
          BY <1>2 DEF TypeOK
    <1>6. Ordered(loadedlist', accessed', idle')
          BY <1>3, <1>5, OrderedLeft DEF ListInv
    <1> QED BY <1>1, <1>4, <1>6 DEF ListInv, ListOf, Ordered, IsInjective, ToSet

(* The lists a server starts with.                                         *)
LEMMA StartLists ==
    ASSUME NEW S, S \subseteq {Default}, NEW time, NEW time2
    PROVE  /\ ListOf(<<Default>>, {Default}) /\ ListOf(<<>>, {})
           /\ Ordered(<<Default>>, S, time) /\ Ordered(<<>>, {}, time2)
    <1> DEFINE one == <<Default>>
               none == <<>>
    <1>1. DOMAIN one = {1} /\ one[1] = Default /\ DOMAIN none = {}
          OBVIOUS
    <1> HIDE DEF one, none
    <1>2. ListOf(one, {Default}) /\ ListOf(none, {})
          BY <1>1 DEF ListOf, IsInjective, ToSet
    <1>3. Ordered(one, S, time) /\ Ordered(none, {}, time2)
          BY <1>1 DEF Ordered
    <1> QED BY <1>2, <1>3 DEF one, none

LEMMA ListStep ==
    ASSUME TypeOK, ListInv, [Next]_vars
    PROVE  ListInv'
    <1> USE DEF cache, lists
    <1>1. ASSUME ListOf(loadedlist', loaded'), accessed' \subseteq loaded',
                 Ordered(loadedlist', accessed', idle'),
                 ListOf(dirtylist', dirty'), Ordered(dirtylist', dirty', age')
          PROVE  ListInv'
          BY <1>1 DEF ListInv, ListOf, Ordered, IsInjective, ToSet
    <1>2. ASSUME UNCHANGED <<dirtylist, dirty, age>>
          PROVE  ListOf(dirtylist', dirty') /\ Ordered(dirtylist', dirty', age')
          BY <1>2 DEF ListInv
    <1>3. ASSUME UNCHANGED <<loadedlist, loaded, accessed, idle>>
          PROVE  /\ ListOf(loadedlist', loaded') /\ accessed' \subseteq loaded'
                 /\ Ordered(loadedlist', accessed', idle')
          BY <1>3 DEF ListInv
    <1>4. ASSUME NEW g \in Accounts, NEW missing \in BOOLEAN, Get(g, missing)
          PROVE  ListInv'
          <2>1. PICK T, F : T \in {{g}, {g, Default}} /\ F \subseteq T \ loaded /\ Access(g, T, F)
                BY <1>4 DEF Get, Unreadable
          <2> QED BY <1>1, <1>2, <1>4, <2>1, AccessLists DEF Get
    <1>5. ASSUME NEW g \in Accounts, NEW v \in Values, SetAttr(g, v)
          PROVE  ListInv'
          <2>1. PICK F : /\ F \subseteq {g} \ loaded /\ Access(g, {g}, F)
                         /\ UNCHANGED <<dirty, dirtylist, age>> \/ Dirty(g)
                BY <1>5 DEF SetAttr, Unreadable
          <2> QED BY <1>1, <1>2, <2>1, AccessLists, DirtyLists
    <1>6. ASSUME NEW g \in Accounts, NEW v \in Values, Create(g, v)
          PROVE  ListInv'
          <2>1. /\ loaded' = loaded \cup {g} /\ accessed' = accessed \cup {g}
                /\ loadedlist' = ToTail(loadedlist, g) /\ idle' = [idle EXCEPT ![g] = 0]
                BY <1>6 DEF Create
          <2>2. /\ g \in Groups /\ loadedlist \in Seq(Groups) /\ loaded \subseteq Groups
                /\ idle \in [Groups -> 0..UserFlush]
                /\ ToSet(loadedlist) = loaded /\ IsInjective(loadedlist)
                BY DEF Groups, TypeOK, ListInv, ListOf
          <2>3. /\ \A h \in Groups : idle'[h] \in Nat
                /\ idle'[g] = 0 /\ \A h \in Groups \ {g} : idle'[h] = idle[h]
                BY <2>1, <2>2, PrefsAssumption
          <2>4. \A h \in accessed' \ {g} : h \in accessed /\ idle'[h] = idle[h]
                BY <2>1, <2>2, <2>3 DEF ListInv
          <2>7. Touched(loadedlist, Groups, {g}, accessed, idle, accessed', idle')
                BY <2>2, <2>3, <2>4 DEF Touched, ListInv
          <2>5. /\ ListOf(loadedlist', loaded') /\ Ordered(loadedlist', accessed', idle')
                BY <2>1, <2>2, <2>7, ToTailList
          <2>6. accessed' \subseteq loaded'
                BY <2>1 DEF ListInv
          <2> QED BY <1>1, <1>2, <1>6, <2>5, <2>6 DEF Create
    <1>7. ASSUME NEW g \in Accounts, Logoff(g)
          PROVE  ListInv'
          BY <1>1, <1>3, <1>7, SaveLists DEF Logoff
    <1>8. ASSUME NEW passed \in {0, 1}, NEW force \in BOOLEAN, Turn(passed, force)
          PROVE  ListInv'
          <2>1. /\ idle' = Later(idle, passed, accessed, UserFlush)
                /\ age' = Later(age, passed, dirty, UserSync)
                /\ UNCHANGED <<loaded, accessed, dirty, loadedlist, dirtylist>>
                BY <1>8 DEF Turn
          <2>2. Ordered(loadedlist, accessed, idle')
                BY <2>1, OrderedLater, PrefsAssumption DEF TypeOK, ListInv
          <2>3. Ordered(dirtylist, dirty, age')
                BY <2>1, OrderedLater, PrefsAssumption DEF TypeOK, ListInv
          <2> QED BY <1>1, <2>1, <2>2, <2>3 DEF ListInv
    <1>9. CASE SaveRound
          BY <1>1, <1>3, <1>9, SaveLists DEF SaveRound
    <1>10. CASE SaveEnds \/ FlushEnds \/ UNCHANGED vars
           BY <1>1, <1>2, <1>3, <1>10 DEF SaveEnds, FlushEnds, vars
    <1>11. CASE Restart
           <2>1. /\ loadedlist' = <<Default>> /\ loaded' = {Default} /\ accessed' \subseteq {Default}
                 /\ dirtylist' = <<>> /\ dirty' = {}
                 BY <1>11 DEF Restart, DefaultRead
           <2> QED BY <1>1, <2>1, StartLists
    <1> QED BY <1>4, <1>5, <1>6, <1>7, <1>8, <1>9, <1>10, <1>11, FlushLists DEF Next

LEMMA InitLists == Init => ListInv
    <1> SUFFICES ASSUME Init PROVE ListInv
        OBVIOUS
    <1>1. /\ loadedlist = <<Default>> /\ loaded = {Default} /\ accessed \subseteq {Default}
          /\ dirtylist = <<>> /\ dirty = {}
          BY DEF Init, DefaultRead
    <1> QED BY <1>1, StartLists DEF ListInv

(* ListsSorted of AttrCache: each list holds just the groups of its flag,  *)
(* once each, those that are due first in front.                           *)
THEOREM ListsInOrder == Spec => []ListsSorted
    <1>1. Init => TypeOK /\ ListInv
          BY InitType, InitLists
    <1>2. TypeOK /\ ListInv /\ [Next]_vars => (TypeOK /\ ListInv)'
          BY StepType, ListStep
    <1>3. ASSUME TypeOK, ListInv PROVE ListsSorted
          <2>1. /\ ToSet(loadedlist) = loaded /\ Len(loadedlist) = Cardinality(loaded)
                /\ ToSet(dirtylist) = dirty /\ Len(dirtylist) = Cardinality(dirty)
                BY <1>3, CountedList DEF TypeOK, ListInv, ListOf
          <2>2. \A i, j \in DOMAIN loadedlist :
                   i < j /\ {loadedlist[i], loadedlist[j]} \subseteq accessed
                      => idle[loadedlist[i]] >= idle[loadedlist[j]]
                BY <1>3 DEF ListInv, Ordered
          <2>3. \A i \in DOMAIN dirtylist : dirtylist[i] \in dirty
                BY <2>1 DEF ToSet
          <2>4. \A i, j \in DOMAIN dirtylist : i < j => age[dirtylist[i]] >= age[dirtylist[j]]
                BY <1>3, <2>3 DEF ListInv, Ordered
          <2> QED BY <2>1, <2>2, <2>4 DEF ListsSorted
    <1> QED BY <1>1, <1>2, <1>3, PTL DEF Spec

-----------------------------------------------------------------------------
(* The cursors of forced loops.  What follows the head of a list is its    *)
(* first node, or the head again if the list is empty.                     *)
LEMMA FirstNode ==
    ASSUME NEW G, ListHead \notin G, NEW list \in Seq(G), NEW gone
    PROVE  /\ NextIn(list, gone, ListHead) = ListHead => ToSet(list) = {}
           /\ NextIn(list, gone, ListHead) # ListHead =>
                 list # <<>> /\ NextIn(list, gone, ListHead) = list[1] /\ list[1] \in ToSet(list)
    <1>1. Len(list) \in Nat /\ DOMAIN list = 1 .. Len(list) /\ \A i \in DOMAIN list : list[i] \in G
          BY LenProperties, ElementOfSeq
    <1>2. NextIn(list, gone, ListHead) = IF 0 = Len(list) THEN ListHead ELSE list[0 + 1]
          BY DEF NextIn
    <1>3. CASE Len(list) = 0
          BY <1>1, <1>2, <1>3 DEF ToSet
    <1>4. CASE Len(list) # 0
          <2>1. 1 \in DOMAIN list /\ NextIn(list, gone, ListHead) = list[1] /\ list # <<>>
                BY <1>1, <1>2, <1>4
          <2> QED BY <1>1, <2>1 DEF ToSet
    <1> QED BY <1>3, <1>4

(* When the first node is unlinked, the next one is the first.             *)
LEMMA NextNode ==
    ASSUME NEW G, ListHead \notin G, NEW list \in Seq(G), IsInjective(list), NEW gone, NEW later,
           NextIn(list, gone, ListHead) # ListHead
    PROVE  LET h == NextIn(list, gone, ListHead)
           IN  After(list, gone, h) = NextIn(Unlinked(list, h), later, ListHead)
    <1> DEFINE h == NextIn(list, gone, ListHead)
               u == RemoveAt(list, 1)
    <1>1. list # <<>> /\ h = list[1] /\ h # ListHead
          BY FirstNode
    <1> HIDE DEF h
    <1>2. Len(list) \in Nat /\ Len(list) # 0 /\ DOMAIN list = 1 .. Len(list)
          BY <1>1, EmptySeq, LenProperties
    <1>3. Linked(list, h) /\ Position(list, h) = 1
          <2>1. 1 \in DOMAIN list /\ list[1] = h
                BY <1>1, <1>2
          <2>2. \A i \in DOMAIN list : list[i] = h => i = 1
                BY <2>1 DEF IsInjective
          <2> QED BY <2>1, <2>2 DEF Linked, Position
    <1>4. Unlinked(list, h) = u
          BY <1>3 DEF Unlinked
    <1>5. u \in Seq(G) /\ Cut(list, u, 1)
          BY <1>2, RemoveAtCuts
    <1> HIDE DEF u
    <1>6. Len(u) = Len(list) - 1 /\ \A j \in 1 .. Len(u) : u[j] = list[j + 1]
          BY <1>2, <1>5 DEF Cut
    <1>7. After(list, gone, h) = IF 1 = Len(list) THEN ListHead ELSE list[1 + 1]
          BY <1>1, <1>3 DEF After, NextIn
    <1>8. NextIn(u, later, ListHead) = IF 0 = Len(u) THEN ListHead ELSE u[0 + 1]
          BY DEF NextIn
    <1>9. Len(u) # 0 => u[1] = list[2]
          BY <1>2, <1>6
    <1>10. After(list, gone, h) = NextIn(u, later, ListHead)
           BY <1>2, <1>6, <1>7, <1>8, <1>9
    <1> QED BY <1>4, <1>10 DEF h

LEMMA NoHead == ListHead \notin Groups /\ ListHead \notin Accounts
    BY NodesAssumption DEF Groups

(* With FS_ALL every dirty account is due, and every loaded one.           *)
LEMMA SaveRoundCursor ==
    ASSUME TypeOK, ListInv, CursorInv, SaveRound
    PROVE  CursorInv'
    <1>1. CASE all
          <2>1. /\ scur = NextDirty(ListHead) /\ snext = After(dirtylist, dgone, scur)
                /\ scur # ListHead /\ scur \in dirty /\ phase = "save" /\ phase' = phase
                /\ scur' = snext /\ snext' = After(dirtylist', dgone', snext)
                BY <1>1 DEF SaveRound, CursorInv, SaveDue
          <2>2. dirtylist' = Unlinked(dirtylist, scur)
                BY <2>1 DEF SaveRound, Save, Clean
          <2>3. dirtylist \in Seq(Accounts) /\ IsInjective(dirtylist)
                BY DEF TypeOK, ListInv, ListOf
          <2>4. After(dirtylist, dgone, scur) = NextIn(Unlinked(dirtylist, scur), dgone', ListHead)
                BY <2>1, <2>3, NoHead, NextNode DEF NextDirty
          <2>5. scur' = NextIn(dirtylist', dgone', ListHead)
                BY <2>1, <2>2, <2>4
          <2>6. snext' = After(dirtylist', dgone', scur')
                BY <2>1
          <2> QED BY <2>1, <2>5, <2>6 DEF CursorInv, NextDirty
    <1>2. CASE ~all
          BY <1>2 DEF SaveRound, CursorInv
    <1> QED BY <1>1, <1>2

LEMMA SaveEndsCursor ==
    ASSUME TypeOK, ListInv, NoChangeForgotten, CursorInv, SaveEnds
    PROVE  CursorInv'
    <1>1. phase' = "flush" /\ all' = all /\ dirty' = dirty /\ UNCHANGED lists
          BY DEF SaveEnds, cache
    <1>2. CASE all
          <2>1. scur = NextDirty(ListHead) /\ (scur = ListHead \/ ~SaveDue(scur))
                BY <1>2 DEF SaveEnds, CursorInv, MayGoOn
          <2>2. ToSet(dirtylist) = dirty /\ dirtylist \in Seq(Accounts)
                BY DEF TypeOK, ListInv, ListOf
          <2>3. scur # ListHead => scur \in dirty
                BY <2>1, <2>2, NoHead, FirstNode DEF NextDirty
          <2>4. scur \in dirty => SaveDue(scur)
                BY <1>2 DEF SaveDue, NoChangeForgotten, InMemory
          <2>5. dirty = {}
                BY <2>1, <2>2, <2>3, <2>4, NoHead, FirstNode DEF NextDirty
          <2>6. /\ fcur' = NextLoaded(ListHead)
                /\ fnext' = After(loadedlist, lgone, NextLoaded(ListHead))
                BY <1>2 DEF SaveEnds, Restarts
          <2>7. fcur' = NextIn(loadedlist', lgone', ListHead) /\ fnext' = After(loadedlist', lgone', fcur')
                BY <1>1, <2>6 DEF lists, NextLoaded
          <2> QED BY <1>1, <2>5, <2>7 DEF CursorInv, NextLoaded
    <1>3. CASE ~all
          BY <1>1, <1>3 DEF CursorInv
    <1> QED BY <1>2, <1>3

LEMMA FlushRoundCursor ==
    ASSUME TypeOK, ListInv, CursorInv, FlushRound
    PROVE  CursorInv'
    <1>1. CASE all
          <2>1. /\ fcur = NextLoaded(ListHead) /\ fnext = After(loadedlist, lgone, fcur)
                /\ dirty = {} /\ fcur # ListHead /\ phase = "flush" /\ phase' = phase
                /\ fcur' = fnext /\ fnext' = After(loadedlist', lgone', fnext)
                BY <1>1 DEF FlushRound, CursorInv
          <2>2. loadedlist' = Unlinked(loadedlist, fcur) /\ dirty' = {}
                BY <2>1 DEF FlushRound, Save
          <2>3. loadedlist \in Seq(Groups) /\ IsInjective(loadedlist)
                BY DEF TypeOK, ListInv, ListOf
          <2>4. After(loadedlist, lgone, fcur) = NextIn(Unlinked(loadedlist, fcur), lgone', ListHead)
                BY <2>1, <2>3, NoHead, NextNode DEF NextLoaded
          <2>5. fcur' = NextIn(loadedlist', lgone', ListHead)
                BY <2>1, <2>2, <2>4
          <2>6. fnext' = After(loadedlist', lgone', fcur')
                BY <2>1
          <2> QED BY <2>1, <2>2, <2>5, <2>6 DEF CursorInv, NextLoaded
    <1>2. CASE ~all
          BY <1>2 DEF FlushRound, CursorInv
    <1> QED BY <1>1, <1>2

LEMMA FlushEndsCursor ==
    ASSUME TypeOK, ListInv, CursorInv, FlushEnds
    PROVE  CursorInv'
    <1>1. all' = all /\ UNCHANGED <<loaded, dirty>> /\ phase' = IF all THEN "exit" ELSE "events"
          BY DEF FlushEnds, cache
    <1>2. CASE all
          <2>1. dirty = {} /\ fcur = NextLoaded(ListHead) /\ (fcur = ListHead \/ ~FlushDue(fcur))
                BY <1>2 DEF FlushEnds, CursorInv, MayGoOn
          <2>2. ToSet(loadedlist) = loaded /\ loadedlist \in Seq(Groups)
                BY DEF TypeOK, ListInv, ListOf
          <2>3. fcur # ListHead => fcur \in loaded
                BY <2>1, <2>2, NoHead, FirstNode DEF NextLoaded
          <2>4. fcur \in loaded => FlushDue(fcur)
                BY <1>2 DEF FlushDue
          <2>5. loaded = {}
                BY <2>1, <2>2, <2>3, <2>4, NoHead, FirstNode DEF NextLoaded
          <2> QED BY <1>1, <1>2, <2>1, <2>5 DEF CursorInv
    <1>3. CASE ~all
          BY <1>1, <1>3 DEF CursorInv
    <1> QED BY <1>2, <1>3

LEMMA CursorStep ==
    ASSUME TypeOK, ListInv, NoChangeForgotten, CursorInv, [Next]_vars
    PROVE  CursorInv'
    <1>1. ASSUME NEW g \in Accounts,
                 \/ \E missing \in BOOLEAN : Get(g, missing)
                 \/ \E v \in Values : SetAttr(g, v) \/ Create(g, v)
                 \/ Logoff(g)
          PROVE  CursorInv'
          <2>1. phase' = "events"
                BY <1>1 DEF Get, SetAttr, Create, Logoff, loops
          <2> QED BY <2>1 DEF CursorInv
    <1>2. ASSUME NEW passed \in {0, 1}, NEW force \in BOOLEAN, Turn(passed, force)
          PROVE  CursorInv'
          <2>1. phase' = "save" /\ all' = force /\ UNCHANGED lists
                BY <1>2 DEF Turn
          <2>2. force => /\ scur' = NextDirty(ListHead)
                         /\ snext' = After(dirtylist, dgone, NextDirty(ListHead))
                BY <1>2 DEF Turn, Restarts
          <2>3. force => /\ scur' = NextIn(dirtylist', dgone', ListHead)
                         /\ snext' = After(dirtylist', dgone', scur')
                BY <2>1, <2>2 DEF lists, NextDirty
          <2> QED BY <2>1, <2>3 DEF CursorInv, NextDirty
    <1>3. CASE Restart
          <2>1. phase' = "events"
                BY <1>3 DEF Restart
          <2> QED BY <2>1 DEF CursorInv
    <1>4. CASE UNCHANGED vars
          BY <1>4 DEF CursorInv, vars, cache, lists, loops, NextDirty, NextLoaded
    <1> QED BY <1>1, <1>2, <1>3, <1>4, SaveRoundCursor, SaveEndsCursor,
               FlushRoundCursor, FlushEndsCursor DEF Next

(* ShutdownSavesAll of AttrCache: the forced loops of the shutdown save    *)
(* every change and unload every account, wherever their cursors were.     *)
THEOREM ShutdownSaves == Spec => []ShutdownSavesAll
    <1> DEFINE Inv == IInv /\ ListInv /\ CursorInv
    <1>1. Init => Inv
          <2>1. Init => CursorInv
                BY DEF Init, CursorInv
          <2> QED BY <2>1, InitType, InitData, InitLists DEF IInv
    <1>2. Inv /\ [Next]_vars => Inv'
          BY StepType, StepData, ListStep, CursorStep DEF IInv, DataInv
    <1>3. Inv => ShutdownSavesAll
          BY DEF CursorInv, ShutdownSavesAll
    <1> QED BY <1>1, <1>2, <1>3, PTL DEF Spec

=============================================================================
