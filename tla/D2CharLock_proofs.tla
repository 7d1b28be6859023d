-------------------------- MODULE D2CharLock_proofs --------------------------
(***************************************************************************)
(* Proofs about D2CharLock: for all sets of characters, servers and        *)
(* connections, a lock has a session, a session keeps the locks it was     *)
(* granted, and the lock table implements the exclusive lease CharLease.   *)
(* Saves come from who has the lock, and locks are used or given back, as  *)
(* far as servers and buffers allow.                                       *)
(***************************************************************************)
EXTENDS D2CharLock, TLAPS

-----------------------------------------------------------------------------
(***************************************************************************)
(* Queues.                                                                 *)
(***************************************************************************)

\* m occurs at most once in q.
Once(m, q) == \A i, j \in 1..Len(q) : q[i] = m /\ q[j] = m => i = j

\* Every m of q is ahead of every n of q.
AheadOf(m, n, q) == \A i, j \in 1..Len(q) : q[i] = m /\ q[j] = n => i < j

\* Adding to a queue.
LEMMA AppendFacts ==
    ASSUME NEW S, NEW q \in Seq(S), NEW p \in S
    PROVE  /\ Append(q, p) \in Seq(S)
           /\ Len(Append(q, p)) = Len(q) + 1
           /\ \A m : In(m, Append(q, p)) <=> In(m, q) \/ m = p
           /\ \A m : Once(m, q) /\ (p = m => ~In(m, q)) => Once(m, Append(q, p))
           /\ \A m, n : AheadOf(m, n, q) /\ m # n /\ (p = m => ~In(n, q))
                          => AheadOf(m, n, Append(q, p))
<1> DEFINE r == Append(q, p)
<1>1. /\ r \in Seq(S)
      /\ Len(q) \in Nat
      /\ Len(r) = Len(q) + 1
      /\ \A i \in 1..Len(q) : r[i] = q[i]
      /\ r[Len(q) + 1] = p
  OBVIOUS
<1>2. \A i \in 1..Len(r) : i \in 1..Len(q) \/ i = Len(q) + 1
  BY <1>1
<1>3. 1..Len(q) \subseteq 1..Len(r) /\ Len(q) + 1 \in 1..Len(r)
  BY <1>1
<1>4. ASSUME NEW m PROVE In(m, r) <=> In(m, q) \/ m = p
  BY <1>1, <1>2, <1>3 DEF In
<1>5. ASSUME NEW m, Once(m, q), p = m => ~In(m, q) PROVE Once(m, r)
  <2> SUFFICES ASSUME NEW i \in 1..Len(r), NEW j \in 1..Len(r), r[i] = m, r[j] = m
               PROVE  i = j
    BY DEF Once
  <2>1. CASE p = m
    <3>1. i \notin 1..Len(q) /\ j \notin 1..Len(q)
      BY <2>1, <1>1, <1>5 DEF In
    <3> QED BY <3>1, <1>2
  <2>2. CASE p # m
    <3>1. i \in 1..Len(q) /\ j \in 1..Len(q)
      BY <2>2, <1>1, <1>2
    <3> QED BY <3>1, <1>1, <1>5 DEF Once
  <2> QED BY <2>1, <2>2
<1>6. ASSUME NEW m, NEW n, AheadOf(m, n, q), m # n, p = m => ~In(n, q)
      PROVE  AheadOf(m, n, r)
  <2> SUFFICES ASSUME NEW i \in 1..Len(r), NEW j \in 1..Len(r), r[i] = m, r[j] = n
               PROVE  i < j
    BY DEF AheadOf
  <2>1. CASE i \in 1..Len(q) /\ j \in 1..Len(q)
    BY <2>1, <1>1, <1>6 DEF AheadOf
  <2>2. CASE i \in 1..Len(q) /\ j = Len(q) + 1
    BY <2>2, <1>1
  <2>3. CASE i = Len(q) + 1 /\ j \in 1..Len(q)
    BY <2>3, <1>1, <1>6 DEF In
  <2>4. CASE i = Len(q) + 1 /\ j = Len(q) + 1
    BY <2>4, <1>1, <1>6
  <2> QED BY <2>1, <2>2, <2>3, <2>4, <1>2
<1> HIDE DEF r
<1>7. r = Append(q, p) BY DEF r
<1> QED BY <1>1, <1>4, <1>5, <1>6, <1>7

\* Taking the oldest element of a queue.
LEMMA TailFacts ==
    ASSUME NEW S, NEW q \in Seq(S), q # <<>>
    PROVE  /\ Tail(q) \in Seq(S)
           /\ Len(Tail(q)) <= Len(q)
           /\ Head(q) \in S
           /\ \A m : In(m, q) <=> m = Head(q) \/ In(m, Tail(q))
           /\ \A m : Once(m, q) => Once(m, Tail(q))
           /\ \A m : Once(m, q) /\ Head(q) = m => ~In(m, Tail(q))
           /\ \A m, n : AheadOf(m, n, q) => AheadOf(m, n, Tail(q))
           /\ \A m, n : AheadOf(m, n, q) /\ Head(q) = n => ~In(m, q)
<1> DEFINE t == Tail(q)
<1>1. /\ t \in Seq(S)
      /\ Len(q) \in Nat \ {0}
      /\ Len(t) = Len(q) - 1
      /\ \A i \in 1..Len(t) : t[i] = q[i + 1]
      /\ Head(q) = q[1]
      /\ Head(q) \in S
  OBVIOUS
<1>2. /\ \A i \in 1..Len(t) : i \in Nat /\ i + 1 \in 1..Len(q) /\ i + 1 # 1
      /\ \A i \in 1..Len(q) : i \in Nat /\ (i = 1 \/ (i - 1 \in 1..Len(t) /\ q[i] = t[i - 1]))
      /\ 1 \in 1..Len(q)
  BY <1>1
<1>3. ASSUME NEW m PROVE In(m, q) <=> m = Head(q) \/ In(m, t)
  BY <1>1, <1>2 DEF In
<1>4. ASSUME NEW m, Once(m, q) PROVE Once(m, t)
  BY <1>1, <1>2, <1>4 DEF Once
<1>5. ASSUME NEW m, Once(m, q), Head(q) = m PROVE ~In(m, t)
  BY <1>1, <1>2, <1>5 DEF Once, In
<1>6. ASSUME NEW m, NEW n, AheadOf(m, n, q) PROVE AheadOf(m, n, t)
  <2> SUFFICES ASSUME NEW i \in 1..Len(t), NEW j \in 1..Len(t), t[i] = m, t[j] = n
               PROVE  i < j
    BY DEF AheadOf
  <2>1. i + 1 \in 1..Len(q) /\ j + 1 \in 1..Len(q) /\ q[i + 1] = m /\ q[j + 1] = n
    BY <1>1, <1>2
  <2>2. i + 1 < j + 1
    BY <2>1, <1>6 DEF AheadOf
  <2> QED BY <2>2
<1>7. ASSUME NEW m, NEW n, AheadOf(m, n, q), Head(q) = n PROVE ~In(m, q)
  <2> SUFFICES ASSUME NEW i \in 1..Len(q), q[i] = m PROVE FALSE
    BY DEF In
  <2>1. i < 1
    BY <1>1, <1>2, <1>7 DEF AheadOf
  <2> QED BY <2>1
<1> HIDE DEF t
<1>8. t = Tail(q) BY DEF t
<1>9. Len(t) <= Len(q) BY <1>1
<1> QED BY <1>1, <1>3, <1>4, <1>5, <1>6, <1>7, <1>8, <1>9

\* The empty queue.
LEMMA EmptyFacts ==
    /\ \A S : <<>> \in Seq(S)
    /\ Len(<<>>) = 0
    /\ \A m : ~In(m, <<>>) /\ Once(m, <<>>)
    /\ \A m, n : AheadOf(m, n, <<>>)
  BY DEF In, Once, AheadOf

-----------------------------------------------------------------------------
(***************************************************************************)
(* What the actions do, without the tuples of GetResults.                  *)
(***************************************************************************)

\* Messages are told apart by operation and character.
LEMMA MsgEq ==
    ASSUME NEW o1, NEW x1, NEW o2, NEW x2
    PROVE  (Msg(o1, x1) = Msg(o2, x2)) <=> (o1 = o2 /\ x1 = x2)
  BY DEF Msg

\* A result of dbs_packet_getdata leaves the table alone or locks the character.
LEMMA GetResultFacts ==
    ASSUME NEW k, NEW x, NEW r \in GetResults(k, x)
    PROVE  /\ r[1] \in {"success", "failed", "locked"}
           /\ \/ r[2] = lock
              \/ lock[x] = NoServer /\ r[2] = [lock EXCEPT ![x] = AddrOf[k]]
           /\ r[1] = "success" =>
                lock[x] = NoServer /\ r[2] = [lock EXCEPT ![x] = AddrOf[k]]
<1> DEFINE l2 == [lock EXCEPT ![x] = AddrOf[k]]
<1>1. CASE Locked(x)
  BY <1>1 DEF GetResults, Locked
<1>2. CASE ~Locked(x)
  <2>1. \/ r = <<"success", l2>> \/ r = <<"failed", lock>> \/ r = <<"failed", l2>>
    BY <1>2 DEF GetResults
  <2>2. lock[x] = NoServer
    BY <1>2 DEF Locked
  <2> HIDE DEF l2
  <2>3. /\ r[1] \in {"success", "failed", "locked"}
        /\ r[2] = lock \/ r[2] = l2
        /\ r[1] = "success" => r[2] = l2
    BY <2>1
  <2> QED BY <2>2, <2>3 DEF l2
<1> QED BY <1>1, <1>2

\* The lock table and the queues after dbs_packet_getdata.
LEMMA GetDataFacts ==
    ASSUME NEW k \in Conns, GetData(k)
    PROVE  \E x \in Chars :
             /\ Heads(k, "get", x)
             /\ UNCHANGED <<cstats, granted, claimed, peer>>
             /\ \/ lock' = lock
                \/ lock[x] = NoServer /\ lock' = [lock EXCEPT ![x] = AddrOf[k]]
             /\ \/ UNCHANGED <<inbox, outbox>>
                \/ /\ Fits(k)
                   /\ Consume(k)
                   /\ \E op \in {"success", "failed", "locked"} :
                        /\ Reply(k, op, x)
                        /\ op = "success" =>
                             lock[x] = NoServer /\ lock' = [lock EXCEPT ![x] = AddrOf[k]]
<1>1. PICK x \in Chars :
        /\ Heads(k, "get", x)
        /\ \E r \in GetResults(k, x) :
             /\ lock' = r[2]
             /\ IF Fits(k) THEN Reply(k, r[1], x) /\ Consume(k)
                           ELSE UNCHANGED <<inbox, outbox>>
        /\ UNCHANGED <<cstats, granted, claimed, peer>>
  BY DEF GetData
<1>2. PICK r \in GetResults(k, x) :
        /\ lock' = r[2]
        /\ IF Fits(k) THEN Reply(k, r[1], x) /\ Consume(k)
                      ELSE UNCHANGED <<inbox, outbox>>
  BY <1>1
<1>3. /\ r[1] \in {"success", "failed", "locked"}
      /\ \/ r[2] = lock
         \/ lock[x] = NoServer /\ r[2] = [lock EXCEPT ![x] = AddrOf[k]]
      /\ r[1] = "success" =>
           lock[x] = NoServer /\ r[2] = [lock EXCEPT ![x] = AddrOf[k]]
  BY <1>2, GetResultFacts
<1>4. CASE Fits(k)
  <2>1. \E op \in {"success", "failed", "locked"} :
          /\ Reply(k, op, x)
          /\ op = "success" =>
               lock[x] = NoServer /\ lock' = [lock EXCEPT ![x] = AddrOf[k]]
    <3> r[1] \in {"success", "failed", "locked"} BY <1>3
    <3> WITNESS r[1] \in {"success", "failed", "locked"}
    <3> QED BY <1>2, <1>3, <1>4
  <2> QED BY <1>1, <1>2, <1>3, <1>4, <2>1
<1>5. CASE ~Fits(k)
  BY <1>1, <1>2, <1>3, <1>5
<1> QED BY <1>4, <1>5

-----------------------------------------------------------------------------
(***************************************************************************)
(* Types.                                                                  *)
(***************************************************************************)

\* Messages have their types.
LEMMA MsgTypes ==
    /\ \A x \in Chars, op \in {"get", "save", "lock", "unlock"} : Msg(op, x) \in Requests
    /\ \A x \in Chars, op \in {"success", "failed", "locked", "saved"} : Msg(op, x) \in Replies
  BY DEF Msg, Requests, Replies

\* The initial state is typed.
LEMMA InitType == Init => TypeOK
  BY EmptyFacts, BoundAssumption DEF Init, TypeOK

\* Sending a request.
LEMMA SendType ==
    ASSUME TypeOK, NEW k \in Conns, NEW x \in Chars,
           NEW op \in {"get", "save", "lock", "unlock"}, Send(k, op, x)
    PROVE  inbox' \in [Conns -> Seq(Requests)]
  BY MsgTypes, AppendFacts DEF TypeOK, Send

\* Replying, where the reply fits.
LEMMA ReplyType ==
    ASSUME TypeOK, NEW k \in Conns, NEW x \in Chars, Fits(k),
           NEW op \in {"success", "failed", "locked", "saved"}, Reply(k, op, x)
    PROVE  /\ outbox' \in [Conns -> Seq(Replies)]
           /\ \A j \in Conns : Len(outbox'[j]) <= BufRoom
<1>1. /\ outbox[k] \in Seq(Replies)
      /\ Msg(op, x) \in Replies
      /\ outbox' = [outbox EXCEPT ![k] = Append(outbox[k], Msg(op, x))]
  BY MsgTypes DEF TypeOK, Reply
<1>2. /\ Append(outbox[k], Msg(op, x)) \in Seq(Replies)
      /\ Len(Append(outbox[k], Msg(op, x))) = Len(outbox[k]) + 1
      /\ Len(outbox[k]) \in Nat
  BY <1>1, AppendFacts
<1>3. Len(outbox[k]) + 1 <= BufRoom
  BY <1>2, BoundAssumption DEF Fits
<1> QED BY <1>1, <1>2, <1>3 DEF TypeOK

\* Taking the oldest request.
LEMMA ConsumeType ==
    ASSUME TypeOK, NEW k \in Conns, inbox[k] # <<>>, Consume(k)
    PROVE  inbox' \in [Conns -> Seq(Requests)]
  BY TailFacts DEF TypeOK, Consume

\* Shutting connections down.
LEMMA ShutdownType ==
    ASSUME TypeOK, NEW K \in SUBSET Conns, Shutdown(K)
    PROVE  /\ lock' \in [Chars -> Servers \cup {NoServer}]
           /\ inbox' \in [Conns -> Seq(Requests)]
           /\ outbox' \in [Conns -> Seq(Replies)]
           /\ \A k \in Conns : Len(outbox'[k]) <= BufRoom
           /\ granted' \in [Conns -> SUBSET Chars]
           /\ claimed' \in [Conns -> SUBSET Chars]
           /\ peer' \in [Conns -> {"up", "down"}]
  BY EmptyFacts, BoundAssumption DEF TypeOK, Shutdown, LocksWithout

\* Every step keeps the types.
LEMMA NextType == TypeOK /\ [Next]_vars => TypeOK'
<1> SUFFICES ASSUME TypeOK, [Next]_vars PROVE TypeOK'
  OBVIOUS
<1>1. CASE Restart
  BY <1>1, EmptyFacts, BoundAssumption DEF TypeOK, Restart
<1>2. ASSUME NEW k \in Conns, Accept(k) PROVE TypeOK'
  BY <1>2 DEF TypeOK, Accept
<1>3. ASSUME NEW k \in Conns, Verify(k) PROVE TypeOK'
  <2>1. Previous(k) \in SUBSET Conns BY DEF Previous
  <2>2. cstats' \in [Conns -> {"closed", "accepted", "verified"}]
    BY <1>3 DEF TypeOK, Verify
  <2>3. Shutdown(Previous(k)) BY <1>3 DEF Verify
  <2> HIDE DEF TypeOK
  <2>4. /\ lock' \in [Chars -> Servers \cup {NoServer}]
        /\ inbox' \in [Conns -> Seq(Requests)]
        /\ outbox' \in [Conns -> Seq(Replies)]
        /\ \A j \in Conns : Len(outbox'[j]) <= BufRoom
        /\ granted' \in [Conns -> SUBSET Chars]
        /\ claimed' \in [Conns -> SUBSET Chars]
        /\ peer' \in [Conns -> {"up", "down"}]
    BY <2>1, <2>3, ShutdownType
  <2> QED BY <2>2, <2>4 DEF TypeOK
<1>4. ASSUME NEW k \in Conns, Close(k) PROVE TypeOK'
  <2>1. cstats' \in [Conns -> {"closed", "accepted", "verified"}]
    BY <1>4 DEF TypeOK, Close
  <2>2. Shutdown({k}) BY <1>4 DEF Close
  <2> QED BY <2>1, <2>2, ShutdownType DEF TypeOK
<1>5. ASSUME NEW k \in Conns, GetData(k) PROVE TypeOK'
  <2>1. PICK x \in Chars :
          /\ Heads(k, "get", x)
          /\ UNCHANGED <<cstats, granted, claimed, peer>>
          /\ \/ lock' = lock
             \/ lock[x] = NoServer /\ lock' = [lock EXCEPT ![x] = AddrOf[k]]
          /\ \/ UNCHANGED <<inbox, outbox>>
             \/ /\ Fits(k) /\ Consume(k)
                /\ \E op \in {"success", "failed", "locked"} : Reply(k, op, x)
    BY <1>5, GetDataFacts
  <2>2. lock' \in [Chars -> Servers \cup {NoServer}]
    BY <2>1, AddrAssumption DEF TypeOK
  <2>3. CASE UNCHANGED <<inbox, outbox>>
    BY <2>1, <2>2, <2>3 DEF TypeOK
  <2>4. CASE Fits(k) /\ Consume(k) /\
             \E op \in {"success", "failed", "locked"} : Reply(k, op, x)
    <3>1. inbox' \in [Conns -> Seq(Requests)]
      BY <2>1, <2>4, ConsumeType DEF Heads
    <3>2. /\ outbox' \in [Conns -> Seq(Replies)]
          /\ \A j \in Conns : Len(outbox'[j]) <= BufRoom
      BY <2>4, ReplyType
    <3> QED BY <2>1, <2>2, <3>1, <3>2 DEF TypeOK
  <2> QED BY <2>1, <2>3, <2>4
<1>6. ASSUME NEW k \in Conns, SaveData(k) PROVE TypeOK'
  <2>1. PICK x \in Chars : /\ Heads(k, "save", x) /\ Fits(k) /\ Consume(k)
                           /\ \E op \in {"saved", "failed"} : Reply(k, op, x)
    BY <1>6 DEF SaveData
  <2>2. inbox' \in [Conns -> Seq(Requests)]
    BY <2>1, ConsumeType DEF Heads
  <2>3. /\ outbox' \in [Conns -> Seq(Replies)]
        /\ \A j \in Conns : Len(outbox'[j]) <= BufRoom
    BY <2>1, ReplyType
  <2> QED BY <1>6, <2>2, <2>3 DEF SaveData, TypeOK
<1>7. ASSUME NEW k \in Conns, LockChar(k) PROVE TypeOK'
  <2>1. PICK x \in Chars : /\ Heads(k, "lock", x) /\ Consume(k)
                           /\ lock' = IF Locked(x) THEN lock ELSE [lock EXCEPT ![x] = AddrOf[k]]
                           /\ UNCHANGED <<cstats, outbox, granted, claimed, peer>>
    BY <1>7 DEF LockChar
  <2>2. inbox' \in [Conns -> Seq(Requests)]
    BY <2>1, ConsumeType DEF Heads
  <2>3. lock' \in [Chars -> Servers \cup {NoServer}]
    BY <2>1, AddrAssumption DEF TypeOK
  <2> QED BY <2>1, <2>2, <2>3 DEF TypeOK
<1>8. ASSUME NEW k \in Conns, UnlockChar(k) PROVE TypeOK'
  <2>1. PICK x \in Chars : /\ Heads(k, "unlock", x) /\ Consume(k)
                           /\ lock' = Unlocked(x, AddrOf[k])
                           /\ UNCHANGED <<cstats, outbox, granted, claimed, peer>>
    BY <1>8 DEF UnlockChar
  <2>2. inbox' \in [Conns -> Seq(Requests)]
    BY <2>1, ConsumeType DEF Heads
  <2>3. lock' \in [Chars -> Servers \cup {NoServer}]
    BY <2>1 DEF TypeOK, Unlocked
  <2> QED BY <2>1, <2>2, <2>3 DEF TypeOK
<1>9. ASSUME NEW k \in Conns, NEW x \in Chars, GsGet(k, x) PROVE TypeOK'
  <2>1. inbox' \in [Conns -> Seq(Requests)]
    BY <1>9, SendType DEF GsGet
  <2> QED BY <1>9, <2>1 DEF GsGet, TypeOK
<1>10. ASSUME NEW k \in Conns, NEW x \in Chars, GsSave(k, x) PROVE TypeOK'
  <2>1. inbox' \in [Conns -> Seq(Requests)]
    BY <1>10, SendType DEF GsSave
  <2> QED BY <1>10, <2>1 DEF GsSave, TypeOK
<1>11. ASSUME NEW k \in Conns, NEW x \in Chars, GsLock(k, x) PROVE TypeOK'
  <2>1. inbox' \in [Conns -> Seq(Requests)]
    BY <1>11, SendType DEF GsLock
  <2> QED BY <1>11, <2>1 DEF GsLock, TypeOK
<1>12. ASSUME NEW k \in Conns, NEW x \in Chars, GsLeave(k, x) PROVE TypeOK'
  <2>1. inbox' \in [Conns -> Seq(Requests)]
    BY <1>12, SendType DEF GsLeave
  <2> QED BY <1>12, <2>1 DEF GsLeave, TypeOK
<1>13. ASSUME NEW k \in Conns, GsRead(k) PROVE TypeOK'
  <2> DEFINE r == Head(outbox[k])
  <2>1. /\ outbox[k] \in Seq(Replies) /\ outbox[k] # <<>>
    BY <1>13 DEF GsRead, TypeOK
  <2>2. r \in Replies /\ Tail(outbox[k]) \in Seq(Replies)
        /\ Len(Tail(outbox[k])) <= Len(outbox[k])
        /\ Len(Tail(outbox[k])) \in Nat /\ Len(outbox[k]) \in Nat
    BY <2>1, TailFacts
  <2>3. r.x \in Chars
    BY <2>2 DEF Replies
  <2>4. /\ outbox' = [outbox EXCEPT ![k] = Tail(outbox[k])]
        /\ granted' = [granted EXCEPT ![k] = IF r.op = "success" THEN granted[k] \cup {r.x}
                                             ELSE granted[k]]
        /\ UNCHANGED <<cstats, lock, inbox, claimed, peer>>
    BY <1>13 DEF GsRead
  <2> HIDE DEF r
  <2>5. granted' \in [Conns -> SUBSET Chars]
    BY <2>3, <2>4 DEF TypeOK
  <2>6. \A j \in Conns : Len(outbox'[j]) <= BufRoom
    BY <2>2, <2>4, BoundAssumption DEF TypeOK
  <2>7. outbox' \in [Conns -> Seq(Replies)]
    BY <2>2, <2>4 DEF TypeOK
  <2> QED BY <2>4, <2>5, <2>6, <2>7 DEF TypeOK
<1>14. ASSUME NEW k \in Conns, GsDown(k) PROVE TypeOK'
  BY <1>14 DEF TypeOK, GsDown
<1>15. CASE UNCHANGED vars
  BY <1>15 DEF TypeOK, vars
<1> QED
  BY <1>1, <1>2, <1>3, <1>4, <1>5, <1>6, <1>7, <1>8, <1>9, <1>10, <1>11, <1>12,
     <1>13, <1>14, <1>15 DEF Next

\* TypeOK is an invariant: WriteBuf never holds more than it has room for.
THEOREM TypeCorrect == Spec => []TypeOK
<1> QED BY InitType, NextType, PTL DEF Spec

-----------------------------------------------------------------------------
(***************************************************************************)
(* Sessions: one per address, and a lock has one.                          *)
(***************************************************************************)

\* Handling requests, and the game servers' own moves, leave cstats alone.
LEMMA QuietSteps ==
    ASSUME NEW k \in Conns,
           HandleRequest(k) \/ GsRead(k) \/ GsDown(k)
             \/ \E x \in Chars : GsGet(k, x) \/ GsSave(k, x) \/ GsLock(k, x) \/ GsLeave(k, x)
    PROVE  cstats' = cstats
  BY DEF HandleRequest, GetData, SaveData, LockChar, UnlockChar, GsRead, GsDown,
         GsGet, GsSave, GsLock, GsLeave

\* Next, by what becomes of the connections.
LEMMA NextCases ==
    ASSUME [Next]_vars
    PROVE  \/ Restart
           \/ \E k \in Conns : Accept(k)
           \/ \E k \in Conns : Verify(k)
           \/ \E k \in Conns : Close(k)
           \/ /\ cstats' = cstats
              /\ \/ \E k \in Conns : HandleRequest(k)
                 \/ lock' = lock
<1>1. CASE \E k \in Conns : HandleRequest(k)
  BY <1>1, QuietSteps
<1>2. CASE \E k \in Conns : GsRead(k) \/ GsDown(k)
             \/ \E x \in Chars : GsGet(k, x) \/ GsSave(k, x) \/ GsLock(k, x) \/ GsLeave(k, x)
  BY <1>2 DEF GsRead, GsDown, GsGet, GsSave, GsLock, GsLeave
<1>3. CASE UNCHANGED vars
  BY <1>3 DEF vars
<1> QED BY <1>1, <1>2, <1>3 DEF Next, HandleRequest

\* Handling a request of session k leaves a character's lock, takes it when it
\* is free, or frees it when it is the session's own.
LEMMA RequestLocks ==
    ASSUME TypeOK, NEW k \in Conns, HandleRequest(k), NEW y \in Chars
    PROVE  /\ cstats[k] = "verified"
           /\ \/ lock'[y] = lock[y]
              \/ lock[y] = NoServer /\ lock'[y] = AddrOf[k]
              \/ lock[y] = AddrOf[k] /\ lock'[y] = NoServer /\ Heads(k, "unlock", y)
<1>1. CASE GetData(k)
  <2>1. PICK x \in Chars :
          /\ Heads(k, "get", x)
          /\ \/ lock' = lock
             \/ lock[x] = NoServer /\ lock' = [lock EXCEPT ![x] = AddrOf[k]]
    BY <1>1, GetDataFacts
  <2> QED BY <2>1 DEF Heads, TypeOK
<1>2. CASE SaveData(k)
  BY <1>2 DEF SaveData, Heads
<1>3. CASE LockChar(k)
  BY <1>3 DEF LockChar, Heads, Locked, TypeOK
<1>4. CASE UnlockChar(k)
  BY <1>4 DEF UnlockChar, Heads, Unlocked, TypeOK
<1> QED BY <1>1, <1>2, <1>3, <1>4 DEF HandleRequest

\* dbs_verify_ipaddr keeps one verified connection for each address.
LEMMA SessionStep == TypeOK /\ OneSession /\ [Next]_vars => OneSession'
<1> SUFFICES ASSUME TypeOK, OneSession, [Next]_vars PROVE OneSession'
  OBVIOUS
<1>1. CASE Restart
  BY <1>1 DEF Restart, OneSession
<1>2. ASSUME NEW k \in Conns, Accept(k) PROVE OneSession'
  BY <1>2 DEF Accept, OneSession, TypeOK
<1>3. ASSUME NEW k \in Conns, Verify(k) PROVE OneSession'
  BY <1>3 DEF Verify, Previous, OneSession, TypeOK
<1>4. ASSUME NEW k \in Conns, Close(k) PROVE OneSession'
  BY <1>4 DEF Close, OneSession, TypeOK
<1>5. CASE cstats' = cstats
  BY <1>5 DEF OneSession
<1> QED BY <1>1, <1>2, <1>3, <1>4, <1>5, NextCases

\* A connection that stays verified keeps its locks, and one that ends takes
\* them along.
LEMMA LockStep == TypeOK /\ LocksHaveSession /\ [Next]_vars => LocksHaveSession'
<1> SUFFICES ASSUME TypeOK, LocksHaveSession, [Next]_vars,
                    NEW x \in Chars, lock'[x] # NoServer
             PROVE  \E k \in Conns : cstats'[k] = "verified" /\ AddrOf[k] = lock'[x]
  BY DEF LocksHaveSession, Locked
<1>1. CASE Restart
  BY <1>1 DEF Restart
<1>2. ASSUME NEW k \in Conns, Accept(k)
      PROVE  \E j \in Conns : cstats'[j] = "verified" /\ AddrOf[j] = lock'[x]
  BY <1>2 DEF Accept, LocksHaveSession, Locked, TypeOK
<1>3. ASSUME NEW k \in Conns, Verify(k)
      PROVE  \E j \in Conns : cstats'[j] = "verified" /\ AddrOf[j] = lock'[x]
  BY <1>3 DEF Verify, Shutdown, LocksWithout, LocksHaveSession, Locked, TypeOK
<1>4. ASSUME NEW k \in Conns, Close(k)
      PROVE  \E j \in Conns : cstats'[j] = "verified" /\ AddrOf[j] = lock'[x]
  BY <1>4 DEF Close, Shutdown, LocksWithout, LocksHaveSession, Locked, TypeOK
<1>5. ASSUME cstats' = cstats, NEW k \in Conns, HandleRequest(k)
      PROVE  \E j \in Conns : cstats'[j] = "verified" /\ AddrOf[j] = lock'[x]
  BY <1>5, RequestLocks DEF LocksHaveSession, Locked
<1>6. CASE cstats' = cstats /\ lock' = lock
  BY <1>6 DEF LocksHaveSession, Locked
<1> QED BY <1>1, <1>2, <1>3, <1>4, <1>5, <1>6, NextCases

-----------------------------------------------------------------------------
(***************************************************************************)
(* The conversation of a session about one character: with requests q,     *)
(* replies o, characters granted g and claimed h, the server has asked at  *)
(* most once, not for what it has, and what it gives up it has given up.   *)
(***************************************************************************)
Talk(q, o, g, h, x) ==
    /\ Once(Msg("get", x), q)
    /\ Once(Msg("success", x), o)
    /\ ~(In(Msg("get", x), q) /\ In(Msg("success", x), o))
    /\ x \in g \cup h => ~In(Msg("get", x), q) /\ ~In(Msg("success", x), o)
    /\ In(Msg("unlock", x), q) => x \notin g /\ ~In(Msg("success", x), o)
    /\ AheadOf(Msg("unlock", x), Msg("get", x), q)

Talks == \A k \in Conns, x \in Chars : Talk(inbox[k], outbox[k], granted[k], claimed[k], x)

\* A closed session has said nothing.
LEMMA TalkEmpty == \A x : Talk(<<>>, <<>>, {}, {}, x)
  BY EmptyFacts DEF Talk

\* A server sends a request.
LEMMA TalkSend ==
    ASSUME NEW q \in Seq(Requests), NEW o, NEW g, NEW h, NEW g2, NEW h2,
           NEW x \in Chars, NEW y \in Chars, NEW op \in {"get", "save", "lock", "unlock"},
           Talk(q, o, g, h, x), g2 \subseteq g, h2 \subseteq h \cup {y},
           op # "lock" => h2 \subseteq h,
           op = "get" \/ op = "lock" =>
             y \notin g \cup h /\ ~In(Msg("get", y), q) /\ ~In(Msg("success", y), o),
           op = "unlock" => y \in g \cup h /\ y \notin g2
    PROVE  Talk(Append(q, Msg(op, y)), o, g2, h2, x)
<1> DEFINE m == Msg(op, y)
           r == Append(q, m)
<1>1. m \in Requests BY MsgTypes
<1>2. /\ \A n : In(n, r) <=> In(n, q) \/ n = m
      /\ \A n : Once(n, q) /\ (m = n => ~In(n, q)) => Once(n, r)
      /\ \A n, l : AheadOf(n, l, q) /\ n # l /\ (m = n => ~In(l, q)) => AheadOf(n, l, r)
  BY <1>1, AppendFacts
<1>3. /\ (Msg("get", x) = m) <=> (op = "get" /\ x = y)
      /\ (Msg("unlock", x) = m) <=> (op = "unlock" /\ x = y)
      /\ Msg("unlock", x) # Msg("get", x)
  BY MsgEq
<1> HIDE DEF m, r
<1>4. Once(Msg("get", x), r)
  BY <1>2, <1>3 DEF Talk
<1>5. ~(In(Msg("get", x), r) /\ In(Msg("success", x), o))
  BY <1>2, <1>3 DEF Talk
<1>6. x \in g2 \cup h2 => ~In(Msg("get", x), r) /\ ~In(Msg("success", x), o)
  BY <1>2, <1>3 DEF Talk
<1>7. In(Msg("unlock", x), r) => x \notin g2 /\ ~In(Msg("success", x), o)
  BY <1>2, <1>3 DEF Talk
<1>8. AheadOf(Msg("unlock", x), Msg("get", x), r)
  BY <1>2, <1>3 DEF Talk
<1>9. Talk(r, o, g2, h2, x)
  BY <1>4, <1>5, <1>6, <1>7, <1>8 DEF Talk
<1> QED BY <1>9 DEF m, r

\* d2dbs takes a request without a reply, or with one that is not a success.
LEMMA TalkTake ==
    ASSUME NEW q \in Seq(Requests), q # <<>>, NEW o, NEW g, NEW h, NEW x, Talk(q, o, g, h, x)
    PROVE  Talk(Tail(q), o, g, h, x)
  BY TailFacts DEF Talk

\* A reply that is not a success changes nothing.
LEMMA TalkReply ==
    ASSUME NEW q, NEW o \in Seq(Replies), NEW g, NEW h, NEW x, NEW y \in Chars,
           NEW op \in {"failed", "locked", "saved"}, Talk(q, o, g, h, x)
    PROVE  Talk(q, Append(o, Msg(op, y)), g, h, x)
<1>1. Msg(op, y) \in Replies BY MsgTypes
<1>2. Msg("success", x) # Msg(op, y) BY MsgEq
<1>3. /\ In(Msg("success", x), Append(o, Msg(op, y))) <=> In(Msg("success", x), o)
      /\ Once(Msg("success", x), o) => Once(Msg("success", x), Append(o, Msg(op, y)))
  BY <1>1, <1>2, AppendFacts
<1> QED BY <1>3 DEF Talk

\* A request for character y is answered with success.
LEMMA TalkGrant ==
    ASSUME NEW q \in Seq(Requests), q # <<>>, NEW o \in Seq(Replies), NEW g, NEW h,
           NEW x \in Chars, NEW y \in Chars, Head(q) = Msg("get", y), Talk(q, o, g, h, x)
    PROVE  Talk(Tail(q), Append(o, Msg("success", y)), g, h, x)
<1> DEFINE r == Append(o, Msg("success", y))
           t == Tail(q)
<1>1. Msg("success", y) \in Replies BY MsgTypes
<1>2. (Msg("success", x) = Msg("success", y)) <=> x = y
  BY MsgEq
<1>3. /\ In(Msg("success", x), r) <=> In(Msg("success", x), o) \/ x = y
      /\ Once(Msg("success", x), o) /\ (x = y => ~In(Msg("success", x), o))
           => Once(Msg("success", x), r)
  BY <1>1, <1>2, AppendFacts
<1>4. /\ Talk(t, o, g, h, x)
      /\ In(Msg("get", x), t) => In(Msg("get", x), q)
      /\ x = y => In(Msg("get", x), q) /\ ~In(Msg("get", x), t) /\ ~In(Msg("unlock", x), q)
      /\ In(Msg("unlock", x), t) => In(Msg("unlock", x), q)
  BY TalkTake, TailFacts DEF Talk
<1> HIDE DEF r, t
<1>5. Talk(t, r, g, h, x)
  BY <1>3, <1>4 DEF Talk
<1> QED BY <1>5 DEF r, t

\* The server reads a reply.
LEMMA TalkRead ==
    ASSUME NEW q, NEW o \in Seq(Replies), o # <<>>, NEW g, NEW h, NEW x \in Chars,
           Talk(q, o, g, h, x)
    PROVE  Talk(q, Tail(o), IF Head(o).op = "success" THEN g \cup {Head(o).x} ELSE g, h, x)
<1> DEFINE t == Tail(o)
           m == Head(o)
           g2 == IF m.op = "success" THEN g \cup {m.x} ELSE g
<1>1. /\ m \in Replies
      /\ \A n : In(n, o) <=> n = m \/ In(n, t)
      /\ \A n : Once(n, o) => Once(n, t)
      /\ \A n : Once(n, o) /\ m = n => ~In(n, t)
  BY TailFacts
<1>2. m = Msg(m.op, m.x)
  BY <1>1 DEF Replies, Msg
<1> HIDE DEF m, t
<1>3. x \in g2 => x \in g \/ (In(Msg("success", x), o) /\ ~In(Msg("success", x), t))
  BY <1>1, <1>2 DEF Talk
<1>4. In(Msg("success", x), t) => In(Msg("success", x), o)
  BY <1>1
<1>5. Once(Msg("success", x), t)
  BY <1>1 DEF Talk
<1> HIDE DEF g2
<1>6. Talk(q, t, g2, h, x)
  BY <1>3, <1>4, <1>5 DEF Talk
<1> QED BY <1>6 DEF m, t, g2

-----------------------------------------------------------------------------
(***************************************************************************)
(* The invariant.                                                          *)
(***************************************************************************)
IInv == TypeOK /\ OneSession /\ LocksHaveSession /\ Talks /\ GrantsLocked

\* The queues and sets of a session after the connections of K are shut down.
LEMMA ShutdownSessions ==
    ASSUME TypeOK, NEW K \in SUBSET Conns, Shutdown(K) \/ (Restart /\ K = Conns), NEW k \in Conns
    PROVE  /\ k \in K => /\ inbox'[k] = <<>> /\ outbox'[k] = <<>>
                         /\ granted'[k] = {} /\ claimed'[k] = {}
           /\ k \notin K => /\ inbox'[k] = inbox[k] /\ outbox'[k] = outbox[k]
                            /\ granted'[k] = granted[k] /\ claimed'[k] = claimed[k]
  BY DEF Shutdown, Restart

\* Sending a request, seen from every session.
LEMMA SendTalks ==
    ASSUME TypeOK, Talks, NEW k \in Conns, NEW y \in Chars,
           NEW op \in {"get", "save", "lock", "unlock"}, Send(k, op, y), outbox' = outbox,
           \A j \in Conns \ {k} : granted'[j] = granted[j] /\ claimed'[j] = claimed[j],
           granted'[k] \subseteq granted[k], claimed'[k] \subseteq claimed[k] \cup {y},
           op # "lock" => claimed'[k] \subseteq claimed[k],
           op = "get" \/ op = "lock" => y \notin granted[k] \cup claimed[k] /\ ~Asking(k, y),
           op = "unlock" => y \in granted[k] \cup claimed[k] /\ y \notin granted'[k],
           NEW j \in Conns, NEW x \in Chars
    PROVE  Talk(inbox'[j], outbox'[j], granted'[j], claimed'[j], x)
<1>1. Talk(inbox[j], outbox[j], granted[j], claimed[j], x)
  BY DEF Talks
<1>2. CASE j # k
  <2>1. inbox'[j] = inbox[j]
    BY <1>2 DEF Send, TypeOK
  <2> QED BY <1>1, <1>2, <2>1
<1>3. CASE j = k
  <2>1. inbox[k] \in Seq(Requests) /\ inbox'[k] = Append(inbox[k], Msg(op, y))
    BY DEF Send, TypeOK
  <2>2. op = "get" \/ op = "lock" =>
          y \notin granted[k] \cup claimed[k] /\ ~In(Msg("get", y), inbox[k])
            /\ ~In(Msg("success", y), outbox[k])
    BY DEF Asking
  <2>3. Talk(Append(inbox[k], Msg(op, y)), outbox[k], granted'[k], claimed'[k], x)
    BY <1>1, <1>3, <2>1, <2>2, TalkSend
  <2> QED BY <1>3, <2>1, <2>3
<1> QED BY <1>2, <1>3

\* Every step keeps the conversations in order.
LEMMA TalkStep ==
    ASSUME TypeOK, Talks, [Next]_vars, NEW j \in Conns, NEW x \in Chars
    PROVE  Talk(inbox'[j], outbox'[j], granted'[j], claimed'[j], x)
<1> DEFINE Goal == Talk(inbox'[j], outbox'[j], granted'[j], claimed'[j], x)
<1>0. /\ Talk(inbox[j], outbox[j], granted[j], claimed[j], x)
      /\ inbox[j] \in Seq(Requests) /\ outbox[j] \in Seq(Replies)
  BY DEF Talks, TypeOK
<1>1. ASSUME NEW K \in SUBSET Conns, Shutdown(K) \/ (Restart /\ K = Conns) PROVE Goal
  <2>1. CASE j \in K
    BY <1>1, <2>1, ShutdownSessions, TalkEmpty
  <2>2. CASE j \notin K
    BY <1>0, <1>1, <2>2, ShutdownSessions
  <2> QED BY <2>1, <2>2
<1>2. CASE Restart \/ \E k \in Conns : Verify(k) \/ Close(k)
  <2>1. CASE Restart
    BY <1>1, <2>1
  <2>2. ASSUME NEW k \in Conns, Verify(k) \/ Close(k)
        PROVE  \E K \in SUBSET Conns : Shutdown(K)
    BY <2>2 DEF Verify, Close, Previous
  <2> QED BY <1>1, <1>2, <2>1, <2>2
<1>3. CASE UNCHANGED <<inbox, outbox, granted, claimed>>
  BY <1>0, <1>3
<1>4. CASE \E k \in Conns : Accept(k) \/ GsDown(k)
  BY <1>3, <1>4 DEF Accept, GsDown
<1>5. ASSUME NEW k \in Conns, GetData(k) PROVE Goal
  <2>1. PICK y \in Chars :
          /\ Heads(k, "get", y)
          /\ UNCHANGED <<granted, claimed>>
          /\ \/ UNCHANGED <<inbox, outbox>>
             \/ /\ Consume(k)
                /\ \E op \in {"success", "failed", "locked"} : Reply(k, op, y)
    BY <1>5, GetDataFacts
  <2>2. CASE UNCHANGED <<inbox, outbox>>
    BY <1>3, <2>1, <2>2
  <2>3. ASSUME NEW op \in {"success", "failed", "locked"}, Reply(k, op, y), Consume(k), j = k
        PROVE  Goal
    <3>1. /\ inbox[j] # <<>> /\ Head(inbox[j]) = Msg("get", y)
          /\ inbox'[j] = Tail(inbox[j])
          /\ outbox'[j] = Append(outbox[j], Msg(op, y))
          /\ granted'[j] = granted[j] /\ claimed'[j] = claimed[j]
      BY <2>1, <2>3 DEF Heads, Consume, Reply, TypeOK
    <3>2. CASE op = "success"
      <4>1. Talk(Tail(inbox[j]), Append(outbox[j], Msg("success", y)), granted[j], claimed[j], x)
        BY <1>0, <3>1, TalkGrant
      <4> QED BY <3>1, <3>2, <4>1
    <3>3. CASE op \in {"failed", "locked"}
      <4>1. Talk(Tail(inbox[j]), outbox[j], granted[j], claimed[j], x)
        BY <1>0, <3>1, TalkTake
      <4>2. Talk(Tail(inbox[j]), Append(outbox[j], Msg(op, y)), granted[j], claimed[j], x)
        BY <1>0, <4>1, <3>3, TalkReply
      <4> QED BY <3>1, <4>2
    <3> QED BY <3>2, <3>3
  <2>4. ASSUME NEW op, Reply(k, op, y), Consume(k), j # k PROVE Goal
    BY <1>0, <2>1, <2>4 DEF Consume, Reply, TypeOK
  <2> QED BY <2>1, <2>2, <2>3, <2>4
<1>6. ASSUME NEW k \in Conns, SaveData(k) PROVE Goal
  <2>1. PICK y \in Chars, op \in {"saved", "failed"} :
          /\ Heads(k, "save", y) /\ Consume(k) /\ Reply(k, op, y)
          /\ UNCHANGED <<granted, claimed>>
    BY <1>6 DEF SaveData
  <2>2. CASE j = k
    <3>1. /\ inbox[j] # <<>>
          /\ inbox'[j] = Tail(inbox[j])
          /\ outbox'[j] = Append(outbox[j], Msg(op, y))
          /\ granted'[j] = granted[j] /\ claimed'[j] = claimed[j]
      BY <2>1, <2>2 DEF Heads, Consume, Reply, TypeOK
    <3>2. Talk(Tail(inbox[j]), outbox[j], granted[j], claimed[j], x)
      BY <1>0, <3>1, TalkTake
    <3>3. op \in {"failed", "locked", "saved"}
      BY <2>1
    <3>4. Talk(Tail(inbox[j]), Append(outbox[j], Msg(op, y)), granted[j], claimed[j], x)
      BY <1>0, <3>2, <3>3, TalkReply
    <3> QED BY <3>1, <3>4
  <2>3. CASE j # k
    BY <1>0, <2>1, <2>3 DEF Consume, Reply, TypeOK
  <2> QED BY <2>2, <2>3
<1>7. ASSUME NEW k \in Conns, LockChar(k) \/ UnlockChar(k) PROVE Goal
  <2>1. /\ inbox[k] # <<>> /\ Consume(k)
        /\ UNCHANGED <<outbox, granted, claimed>>
    BY <1>7 DEF LockChar, UnlockChar, Heads
  <2>2. CASE j = k
    <3>1. inbox[j] # <<>> /\ inbox'[j] = Tail(inbox[j])
      BY <2>1, <2>2 DEF Consume, TypeOK
    <3>2. Talk(Tail(inbox[j]), outbox[j], granted[j], claimed[j], x)
      BY <1>0, <3>1, TalkTake
    <3> QED BY <2>1, <3>1, <3>2
  <2>3. CASE j # k
    BY <1>0, <2>1, <2>3 DEF Consume, TypeOK
  <2> QED BY <2>2, <2>3
<1>8. ASSUME NEW k \in Conns, NEW y \in Chars, GsGet(k, y) PROVE Goal
  <2>1. /\ Send(k, "get", y) /\ y \notin granted[k] \cup claimed[k] /\ ~Asking(k, y)
        /\ UNCHANGED <<outbox, granted, claimed>>
    BY <1>8 DEF GsGet
  <2> QED BY <2>1, SendTalks
<1>9. ASSUME NEW k \in Conns, NEW y \in Chars, GsSave(k, y) PROVE Goal
  <2>1. Send(k, "save", y) /\ UNCHANGED <<outbox, granted, claimed>>
    BY <1>9 DEF GsSave
  <2> QED BY <2>1, SendTalks
<1>10. ASSUME NEW k \in Conns, NEW y \in Chars, GsLock(k, y) PROVE Goal
  <2>1. /\ Send(k, "lock", y) /\ y \notin granted[k] \cup claimed[k] /\ ~Asking(k, y)
        /\ UNCHANGED <<outbox, granted>>
        /\ claimed'[k] \subseteq claimed[k] \cup {y}
        /\ \A i \in Conns \ {k} : claimed'[i] = claimed[i]
    BY <1>10 DEF GsLock, TypeOK
  <2> QED BY <2>1, SendTalks
<1>11. ASSUME NEW k \in Conns, NEW y \in Chars, GsLeave(k, y) PROVE Goal
  <2>1. /\ Send(k, "unlock", y) /\ y \in granted[k] \cup claimed[k] /\ y \notin granted'[k]
        /\ outbox' = outbox
        /\ granted'[k] \subseteq granted[k] /\ claimed'[k] \subseteq claimed[k]
        /\ \A i \in Conns \ {k} : granted'[i] = granted[i] /\ claimed'[i] = claimed[i]
    BY <1>11 DEF GsLeave, TypeOK
  <2> QED BY <2>1, SendTalks
<1>12. ASSUME NEW k \in Conns, GsRead(k) PROVE Goal
  <2>1. CASE j = k
    <3>1. /\ outbox[j] # <<>>
          /\ inbox'[j] = inbox[j] /\ outbox'[j] = Tail(outbox[j]) /\ claimed'[j] = claimed[j]
          /\ granted'[j] = IF Head(outbox[j]).op = "success"
                           THEN granted[j] \cup {Head(outbox[j]).x} ELSE granted[j]
      BY <1>12, <2>1 DEF GsRead, TypeOK
    <3>2. Talk(inbox[j], Tail(outbox[j]),
               IF Head(outbox[j]).op = "success" THEN granted[j] \cup {Head(outbox[j]).x}
               ELSE granted[j], claimed[j], x)
      BY <1>0, <3>1, TalkRead
    <3> QED BY <3>1, <3>2
  <2>2. CASE j # k
    BY <1>0, <1>12, <2>2 DEF GsRead, TypeOK
  <2> QED BY <2>1, <2>2
<1>13. CASE UNCHANGED vars
  BY <1>3, <1>13 DEF vars
<1> QED
  BY <1>2, <1>4, <1>5, <1>6, <1>7, <1>8, <1>9, <1>10, <1>11, <1>12, <1>13 DEF Next

-----------------------------------------------------------------------------
(***************************************************************************)
(* Grants.                                                                 *)
(***************************************************************************)

\* Handed in the next state.
LEMMA HandedNext ==
    ASSUME NEW k \in Conns, NEW x \in Chars
    PROVE  Handed(k, x)' <=> x \in granted'[k] \/ In(Msg("success", x), outbox'[k])
  BY DEF Handed, In, Msg

\* A session is handed a character only by the answer of dbs_packet_getdata,
\* which has just locked it.
LEMMA HandedStep ==
    ASSUME TypeOK, [Next]_vars, NEW k \in Conns, NEW x \in Chars, Handed(k, x)', ~Handed(k, x)
    PROVE  /\ GetData(k)
           /\ lock[x] = NoServer
           /\ lock' = [lock EXCEPT ![x] = AddrOf[k]]
           /\ outbox' = [outbox EXCEPT ![k] = Append(outbox[k], Msg("success", x))]
           /\ granted' = granted
<1>1. /\ x \in granted'[k] \/ In(Msg("success", x), outbox'[k])
      /\ x \notin granted[k]
      /\ ~In(Msg("success", x), outbox[k])
  BY HandedNext DEF Handed
<1>2. ASSUME granted'[k] \subseteq granted[k], outbox'[k] = outbox[k] PROVE FALSE
  BY <1>1, <1>2
<1>3. ASSUME NEW K \in SUBSET Conns, Shutdown(K) \/ (Restart /\ K = Conns) PROVE FALSE
  BY <1>1, <1>3, ShutdownSessions, EmptyFacts
<1>4. CASE Restart \/ \E j \in Conns : Verify(j) \/ Close(j)
  <2>1. CASE Restart
    BY <1>3, <2>1
  <2>2. ASSUME NEW j \in Conns, Verify(j) \/ Close(j)
        PROVE  \E K \in SUBSET Conns : Shutdown(K)
    BY <2>2 DEF Verify, Close, Previous
  <2> QED BY <1>3, <1>4, <2>1, <2>2
<1>5. CASE \E j \in Conns : Accept(j) \/ GsDown(j) \/ LockChar(j) \/ UnlockChar(j)
  BY <1>2, <1>5 DEF Accept, GsDown, LockChar, UnlockChar
<1>6. CASE \E j \in Conns, y \in Chars : GsGet(j, y) \/ GsSave(j, y) \/ GsLock(j, y) \/ GsLeave(j, y)
  BY <1>2, <1>6 DEF GsGet, GsSave, GsLock, GsLeave, TypeOK
<1>7. ASSUME NEW j \in Conns, NEW y \in Chars, NEW op, Reply(j, op, y),
             op \in {"failed", "locked", "saved"} \/ j # k \/ y # x,
             op \in {"success", "failed", "locked", "saved"}, granted' = granted
      PROVE  FALSE
  <2>1. CASE j # k
    BY <1>1, <1>7, <2>1 DEF Reply, TypeOK
  <2>2. CASE j = k
    <3>1. outbox[k] \in Seq(Replies) /\ outbox'[k] = Append(outbox[k], Msg(op, y))
      BY <1>7, <2>2 DEF Reply, TypeOK
    <3>2. Msg(op, y) \in Replies /\ Msg(op, y) # Msg("success", x)
      BY <1>7, <2>2, MsgTypes, MsgEq
    <3>3. In(Msg("success", x), outbox'[k]) <=> In(Msg("success", x), outbox[k])
      BY <3>1, <3>2, AppendFacts
    <3> QED BY <1>1, <1>7, <3>3
  <2> QED BY <2>1, <2>2
<1>8. ASSUME NEW j \in Conns, SaveData(j) PROVE FALSE
  BY <1>7, <1>8 DEF SaveData
<1>9. ASSUME NEW j \in Conns, GsRead(j) PROVE FALSE
  <2>1. CASE j # k
    BY <1>1, <1>9, <2>1 DEF GsRead, TypeOK
  <2>2. CASE j = k
    <3>1. /\ outbox[k] \in Seq(Replies) /\ outbox[k] # <<>>
          /\ outbox'[k] = Tail(outbox[k])
          /\ granted'[k] = IF Head(outbox[k]).op = "success"
                           THEN granted[k] \cup {Head(outbox[k]).x} ELSE granted[k]
      BY <1>9, <2>2 DEF GsRead, TypeOK
    <3>2. /\ In(Msg("success", x), Tail(outbox[k])) => In(Msg("success", x), outbox[k])
          /\ In(Head(outbox[k]), outbox[k])
          /\ Head(outbox[k]) \in Replies
      BY <3>1, TailFacts
    <3>3. x \in granted'[k] => In(Msg("success", x), outbox[k])
      BY <1>1, <3>1, <3>2 DEF Msg, Replies
    <3> QED BY <1>1, <3>1, <3>2, <3>3
  <2> QED BY <2>1, <2>2
<1>10. ASSUME NEW j \in Conns, GetData(j)
       PROVE  /\ j = k
              /\ lock[x] = NoServer
              /\ lock' = [lock EXCEPT ![x] = AddrOf[k]]
              /\ outbox' = [outbox EXCEPT ![k] = Append(outbox[k], Msg("success", x))]
              /\ granted' = granted
  <2>1. PICK y \in Chars :
          /\ granted' = granted
          /\ \/ outbox' = outbox
             \/ \E op \in {"success", "failed", "locked"} :
                  /\ Reply(j, op, y)
                  /\ op = "success" =>
                       lock[y] = NoServer /\ lock' = [lock EXCEPT ![y] = AddrOf[j]]
    BY <1>10, GetDataFacts
  <2>2. PICK op \in {"success", "failed", "locked"} :
          /\ Reply(j, op, y)
          /\ op = "success" =>
               lock[y] = NoServer /\ lock' = [lock EXCEPT ![y] = AddrOf[j]]
    BY <1>2, <2>1
  <2>3. op = "success" /\ j = k /\ y = x
    BY <1>7, <2>1, <2>2
  <2> QED BY <2>1, <2>2, <2>3 DEF Reply
<1>11. CASE UNCHANGED vars
  BY <1>2, <1>11 DEF vars
<1>12. \E j \in Conns : GetData(j)
  BY <1>4, <1>5, <1>6, <1>8, <1>9, <1>11 DEF Next
<1> QED BY <1>10, <1>12

\* A session keeps the locks of the characters it was handed.
LEMMA GrantStep == IInv /\ [Next]_vars => GrantsLocked'
<1> SUFFICES ASSUME IInv, [Next]_vars, NEW k \in Conns, NEW x \in Chars, Handed(k, x)'
             PROVE  cstats'[k] = "verified" /\ lock'[x] = AddrOf[k]
  BY DEF GrantsLocked
<1> USE DEF IInv
<1>1. CASE ~Handed(k, x)
  <2>1. GetData(k) /\ lock' = [lock EXCEPT ![x] = AddrOf[k]]
    BY <1>1, HandedStep
  <2>2. cstats'[k] = "verified"
    BY <2>1, QuietSteps, RequestLocks DEF HandleRequest
  <2> QED BY <2>1, <2>2 DEF TypeOK
<1>2. CASE Handed(k, x)
  <2>0. /\ cstats[k] = "verified" /\ lock[x] = AddrOf[k]
        /\ x \in granted'[k] \/ In(Msg("success", x), outbox'[k])
    BY <1>2, HandedNext DEF GrantsLocked
  <2>1. ASSUME NEW K \in SUBSET Conns, Shutdown(K) \/ (Restart /\ K = Conns) PROVE k \notin K
    BY <2>0, <2>1, ShutdownSessions, EmptyFacts
  <2>2. ASSUME NEW K \in SUBSET Conns, Shutdown(K), k \notin K PROVE lock'[x] = AddrOf[k]
    BY <2>0, <2>2 DEF Shutdown, LocksWithout, OneSession
  <2>3. CASE Restart
    BY <2>1, <2>3
  <2>4. ASSUME NEW j \in Conns, Accept(j) PROVE cstats'[k] = "verified" /\ lock'[x] = AddrOf[k]
    BY <2>0, <2>4 DEF Accept, TypeOK
  <2>5. ASSUME NEW j \in Conns, Verify(j) PROVE cstats'[k] = "verified" /\ lock'[x] = AddrOf[k]
    <3>1. Previous(j) \in SUBSET Conns /\ Shutdown(Previous(j))
      BY <2>5 DEF Verify, Previous
    <3>2. k \notin Previous(j)
      BY <2>1, <3>1
    <3> QED BY <2>0, <2>2, <2>5, <3>1, <3>2 DEF Verify
  <2>6. ASSUME NEW j \in Conns, Close(j) PROVE cstats'[k] = "verified" /\ lock'[x] = AddrOf[k]
    <3>1. Shutdown({j})
      BY <2>6 DEF Close
    <3>2. k # j
      BY <2>1, <3>1
    <3> QED BY <2>0, <2>2, <2>6, <3>1, <3>2 DEF Close, TypeOK
  <2>7. ASSUME cstats' = cstats, NEW j \in Conns, HandleRequest(j)
        PROVE  lock'[x] = AddrOf[k]
    <3>1. AddrOf[k] # NoServer
      BY AddrAssumption, OwnerAssumption
    <3>2. CASE lock[x] = AddrOf[j] /\ Heads(j, "unlock", x)
      <4>1. j = k
        BY <2>0, <3>2 DEF OneSession, Heads
      <4>2. inbox[k] \in Seq(Requests) /\ inbox[k] # <<>> /\ Head(inbox[k]) = Msg("unlock", x)
        BY <3>2, <4>1 DEF Heads, TypeOK
      <4>3. In(Msg("unlock", x), inbox[k])
        BY <4>2, TailFacts
      <4>4. ~Handed(k, x)
        BY <4>3 DEF Talks, Talk, Handed
      <4> QED BY <1>2, <4>4
    <3> QED BY <2>0, <2>7, <3>1, <3>2, RequestLocks
  <2> QED BY <2>0, <2>3, <2>4, <2>5, <2>6, <2>7, NextCases
<1> QED BY <1>1, <1>2

\* The initial state satisfies the invariant.
LEMMA InitIInv == Init => IInv
<1> SUFFICES ASSUME Init PROVE IInv
  OBVIOUS
<1>1. TypeOK
  BY InitType
<1>2. OneSession /\ LocksHaveSession
  BY DEF Init, OneSession, LocksHaveSession, Locked
<1>3. Talks
  BY TalkEmpty DEF Init, Talks
<1>4. GrantsLocked
  BY EmptyFacts DEF Init, GrantsLocked, Handed
<1> QED BY <1>1, <1>2, <1>3, <1>4 DEF IInv

\* Every step keeps the invariant.
LEMMA NextIInv == IInv /\ [Next]_vars => IInv'
<1> SUFFICES ASSUME IInv, [Next]_vars PROVE IInv'
  OBVIOUS
<1>1. TypeOK' /\ OneSession' /\ LocksHaveSession'
  BY NextType, SessionStep, LockStep DEF IInv
<1>2. Talks'
  <2>1. \A k \in Conns, x \in Chars : Talk(inbox'[k], outbox'[k], granted'[k], claimed'[k], x)
    BY TalkStep DEF IInv
  <2> QED BY <2>1 DEF Talks, Talk, In, Once, AheadOf, Msg
<1>3. GrantsLocked'
  BY GrantStep
<1> QED BY <1>1, <1>2, <1>3 DEF IInv

\* The invariant holds in every state of every behaviour.
LEMMA Invariant == Spec => []IInv
<1> QED BY InitIInv, NextIInv, PTL DEF Spec

\* One address has at most one verified connection.
THEOREM SessionsExclusive == Spec => []OneSession
<1>1. IInv => OneSession BY DEF IInv
<1> QED BY <1>1, Invariant, PTL

\* No lock outlives the connection that took it.
THEOREM LocksOwned == Spec => []LocksHaveSession
<1>1. IInv => LocksHaveSession BY DEF IInv
<1> QED BY <1>1, Invariant, PTL

\* A session that was handed a character keeps the lock on it.
THEOREM GrantsKept == Spec => []GrantsLocked
<1>1. IInv => GrantsLocked BY DEF IInv
<1> QED BY <1>1, Invariant, PTL

-----------------------------------------------------------------------------
(***************************************************************************)
(* The lease.                                                              *)
(***************************************************************************)

\* The sessions a character is leased to.
User == [x \in Chars |-> {k \in Conns : Handed(k, x)}]

\* At most one session is handed a character.
LEMMA OneUser ==
    ASSUME IInv, NEW x \in Chars, NEW j \in Conns, NEW k \in Conns, Handed(j, x), Handed(k, x)
    PROVE  j = k
  BY DEF IInv, GrantsLocked, OneSession

\* Steps that hand no character to a session give up those of X.
LEMMA GiveUpStep ==
    ASSUME IInv, [Next]_vars,
           \A k \in Conns, x \in Chars : Handed(k, x)' => Handed(k, x),
           \A x \in Chars : (\A k \in Conns : Handed(k, x) => Handed(k, x)')
                             \/ (\A k \in Conns : ~Handed(k, x)')
    PROVE  [Lease!Next]_User
<1> DEFINE X == {x \in Chars : \A k \in Conns : ~Handed(k, x)'}
<1>1. User' = [x \in Chars |-> IF x \in X THEN {} ELSE User[x]]
  BY DEF User
<1>2. X \in SUBSET Chars
  OBVIOUS
<1> HIDE DEF X
<1>3. Lease!GiveUp(X)
  BY <1>1 DEF Lease!GiveUp, User
<1> QED BY <1>2, <1>3 DEF Lease!Next

\* Every step of d2dbs is a step of the lease, or none.
LEMMA LeaseStep == IInv /\ [Next]_vars => [Lease!Next]_User
<1> SUFFICES ASSUME IInv, [Next]_vars PROVE [Lease!Next]_User
  OBVIOUS
<1>0. TypeOK
  BY DEF IInv
<1>1. CASE \E k \in Conns, x \in Chars : Handed(k, x)' /\ ~Handed(k, x)
  <2>1. PICK k \in Conns, x \in Chars : Handed(k, x)' /\ ~Handed(k, x)
    BY <1>1
  <2>2. /\ lock[x] = NoServer
        /\ outbox' = [outbox EXCEPT ![k] = Append(outbox[k], Msg("success", x))]
        /\ granted' = granted
    BY <1>0, <2>1, HandedStep
  <2>3. \A j \in Conns : ~Handed(j, x)
    BY <2>2, AddrAssumption, OwnerAssumption DEF IInv, GrantsLocked
  <2>4. ASSUME NEW j \in Conns, NEW y \in Chars
        PROVE  Handed(j, y)' <=> Handed(j, y) \/ (j = k /\ y = x)
    <3>1. Handed(j, y)' <=> y \in granted[j] \/ In(Msg("success", y), outbox'[j])
      BY <2>2, HandedNext
    <3>2. CASE j # k
      BY <2>2, <3>1, <3>2 DEF Handed, TypeOK
    <3>3. CASE j = k
      <4>1. outbox[j] \in Seq(Replies) /\ outbox'[j] = Append(outbox[j], Msg("success", x))
        BY <1>0, <2>2, <3>3 DEF TypeOK
      <4>2. In(Msg("success", y), outbox'[j]) <=> In(Msg("success", y), outbox[j]) \/ y = x
        BY <4>1, MsgTypes, MsgEq, AppendFacts
      <4> QED BY <3>1, <3>3, <4>2 DEF Handed
    <3> QED BY <3>2, <3>3
  <2>5. User[x] = {} /\ User' = [User EXCEPT ![x] = {k}]
    BY <2>3, <2>4 DEF User
  <2>6. Lease!Grant(x, k)
    BY <2>5 DEF Lease!Grant, User
  <2> QED BY <2>6 DEF Lease!Next
<1>2. CASE \A k \in Conns, x \in Chars : Handed(k, x)' => Handed(k, x)
  <2> SUFFICES ASSUME NEW x \in Chars, NEW k \in Conns, Handed(k, x), ~Handed(k, x)'
               PROVE  \A j \in Conns : ~Handed(j, x)'
    BY <1>2, GiveUpStep
  <2> QED BY <1>2, OneUser
<1> QED BY <1>1, <1>2

\* The character locks of d2dbs implement the exclusive lease CharLease.
THEOREM LeaseImplemented == Spec => LeaseSpec
<1>1. Init => Lease!Init
  BY EmptyFacts DEF Init, Lease!Init, Handed
<1>2. IInv /\ [Next]_vars => [Lease!Next]_User
  BY LeaseStep
<1>3. QED BY <1>1, <1>2, Invariant, PTL DEF Spec, LeaseSpec, Lease!Spec, User

-----------------------------------------------------------------------------
(***************************************************************************)
(* What a step is to one session: its end, a request it is done with, a    *)
(* request it sends, or nothing that takes anything from it.               *)
(***************************************************************************)
Ends(k) ==
    /\ inbox'[k] = <<>> /\ outbox'[k] = <<>> /\ granted'[k] = {} /\ claimed'[k] = {}
    /\ cstats[k] = "verified" =>
         \A x \in Chars : lock[x] = AddrOf[k] => lock'[x] = NoServer

Rests(k) ==
    /\ inbox'[k] = inbox[k] /\ claimed'[k] = claimed[k] /\ granted[k] \subseteq granted'[k]
    /\ Len(outbox'[k]) <= Len(outbox[k])
    /\ \A x \in Chars : Handed(k, x) => Handed(k, x)'

Takes(k) ==
    /\ HandleRequest(k)
    /\ inbox[k] # <<>> /\ inbox'[k] = Tail(inbox[k])
    /\ granted'[k] = granted[k] /\ claimed'[k] = claimed[k]
    /\ Len(outbox'[k]) <= Len(outbox[k]) + 1
    /\ \A x \in Chars : Handed(k, x) => Handed(k, x)'

Says(k, op, y) ==
    /\ Len(inbox[k]) + Len(outbox[k]) < MaxMsgs
    /\ inbox'[k] = Append(inbox[k], Msg(op, y)) /\ outbox'[k] = outbox[k]
    /\ op = "lock" => Relocks
    /\ op \in {"save", "unlock"} => y \in granted[k] \cup claimed[k]
    /\ granted'[k] = IF op = "unlock" THEN granted[k] \ {y} ELSE granted[k]
    /\ claimed'[k] = IF op = "unlock" THEN claimed[k] \ {y}
                     ELSE IF op = "lock" THEN claimed[k] \cup {y} ELSE claimed[k]

Requested == {"get", "save", "lock", "unlock"}

\* A session whose queues and sets stay as they are.
LEMMA StaysRests ==
    ASSUME NEW k \in Conns, TypeOK, inbox'[k] = inbox[k], outbox'[k] = outbox[k],
           granted'[k] = granted[k], claimed'[k] = claimed[k]
    PROVE  Rests(k)
<1>1. Len(outbox[k]) \in Nat
  BY DEF TypeOK
<1>2. \A x \in Chars : Handed(k, x) => Handed(k, x)'
  BY HandedNext DEF Handed
<1> QED BY <1>1, <1>2 DEF Rests

\* A session that is answered.
LEMMA AnsweredTakes ==
    ASSUME TypeOK, NEW k \in Conns, HandleRequest(k), inbox[k] # <<>>, Consume(k),
           outbox' = outbox \/ \E op \in {"success", "failed", "locked", "saved"}, x \in Chars : Reply(k, op, x),
           UNCHANGED <<granted, claimed>>
    PROVE  Takes(k)
<1>1. inbox'[k] = Tail(inbox[k]) /\ outbox[k] \in Seq(Replies) /\ Len(outbox[k]) \in Nat
  BY DEF Consume, TypeOK
<1>2. CASE outbox' = outbox
  <2>1. Len(outbox'[k]) <= Len(outbox[k]) + 1
    BY <1>1, <1>2
  <2>2. \A x \in Chars : Handed(k, x) => Handed(k, x)'
    BY <1>2, HandedNext DEF Handed
  <2> QED BY <1>1, <2>1, <2>2 DEF Takes
<1>3. ASSUME NEW op \in {"success", "failed", "locked", "saved"}, NEW y \in Chars, Reply(k, op, y)
      PROVE  Takes(k)
  <2>1. /\ outbox'[k] = Append(outbox[k], Msg(op, y)) /\ Msg(op, y) \in Replies
    BY <1>3, MsgTypes DEF Reply, TypeOK
  <2>2. /\ Len(outbox'[k]) <= Len(outbox[k]) + 1
        /\ \A m : In(m, outbox[k]) => In(m, outbox'[k])
    BY <1>1, <2>1, AppendFacts
  <2>3. \A x \in Chars : Handed(k, x) => Handed(k, x)'
    BY <2>2, HandedNext DEF Handed
  <2> QED BY <1>1, <2>2, <2>3 DEF Takes
<1> QED BY <1>2, <1>3

LEMMA SessionMoves ==
    ASSUME TypeOK, [Next]_vars, NEW k \in Conns
    PROVE  \/ Ends(k)
           \/ /\ cstats[k] = "verified" => cstats'[k] = "verified"
              /\ \/ Rests(k)
                 \/ Takes(k)
                 \/ \E op \in Requested, y \in Chars : Says(k, op, y)
<1> DEFINE Goes == /\ cstats[k] = "verified" => cstats'[k] = "verified"
                   /\ Rests(k) \/ Takes(k) \/ \E op \in Requested, y \in Chars : Says(k, op, y)
<1>0. ASSUME (cstats[k] = "verified" => cstats'[k] = "verified"),
             inbox'[k] = inbox[k], outbox'[k] = outbox[k],
             granted'[k] = granted[k], claimed'[k] = claimed[k]
      PROVE  Goes
  BY <1>0, StaysRests
<1>1. ASSUME NEW K \in SUBSET Conns, Shutdown(K),
             \A j \in Conns \ K : cstats[j] = "verified" => cstats'[j] = "verified"
      PROVE  Ends(k) \/ Goes
  <2>1. CASE k \in K
    <3>1. /\ inbox'[k] = <<>> /\ outbox'[k] = <<>> /\ granted'[k] = {} /\ claimed'[k] = {}
      BY <1>1, <2>1, ShutdownSessions
    <3>2. cstats[k] = "verified" =>
            \A x \in Chars : lock[x] = AddrOf[k] => lock'[x] = NoServer
      BY <1>1, <2>1 DEF Shutdown, LocksWithout
    <3> QED BY <3>1, <3>2 DEF Ends
  <2>2. CASE k \notin K
    BY <1>0, <1>1, <2>2, ShutdownSessions
  <2> QED BY <2>1, <2>2
<1>2. CASE Restart
  BY <1>2 DEF Restart, Ends
<1>3. ASSUME NEW j \in Conns, Accept(j) \/ GsDown(j) PROVE Goes
  BY <1>0, <1>3 DEF Accept, GsDown, TypeOK
<1>4. ASSUME NEW j \in Conns, Verify(j) PROVE Ends(k) \/ Goes
  <2>1. Shutdown(Previous(j)) /\ Previous(j) \in SUBSET Conns
    BY <1>4 DEF Verify, Previous
  <2>2. \A i \in Conns \ Previous(j) : cstats[i] = "verified" => cstats'[i] = "verified"
    BY <1>4 DEF Verify
  <2> QED BY <1>1, <2>1, <2>2
<1>5. ASSUME NEW j \in Conns, Close(j) PROVE Ends(k) \/ Goes
  <2>1. Shutdown({j}) /\ \A i \in Conns \ {j} : cstats'[i] = cstats[i]
    BY <1>5 DEF Close, TypeOK
  <2> QED BY <1>1, <2>1
<1>6. ASSUME NEW j \in Conns, HandleRequest(j) PROVE Goes
  <2>1. cstats' = cstats /\ UNCHANGED <<granted, claimed>>
    BY <1>6 DEF HandleRequest, GetData, SaveData, LockChar, UnlockChar
  <2>2. \/ UNCHANGED <<inbox, outbox>>
        \/ /\ inbox[j] # <<>> /\ Consume(j)
           /\ \/ outbox' = outbox
              \/ \E op \in {"success", "failed", "locked", "saved"}, x \in Chars : Reply(j, op, x)
    <3>1. CASE GetData(j)
      BY <3>1, GetDataFacts DEF Heads
    <3>2. CASE SaveData(j)
      BY <3>2 DEF SaveData, Heads
    <3>3. CASE LockChar(j) \/ UnlockChar(j)
      BY <3>3 DEF LockChar, UnlockChar, Heads
    <3> QED BY <1>6, <3>1, <3>2, <3>3 DEF HandleRequest
  <2>3. CASE j # k
    <3>1. inbox'[k] = inbox[k] /\ outbox'[k] = outbox[k]
      BY <2>2, <2>3 DEF Consume, Reply, TypeOK
    <3> QED BY <1>0, <2>1, <3>1
  <2>4. CASE j = k
    BY <1>0, <1>6, <2>1, <2>2, <2>4, AnsweredTakes
  <2> QED BY <2>3, <2>4
<1>7. ASSUME NEW j \in Conns, NEW y \in Chars,
             GsGet(j, y) \/ GsSave(j, y) \/ GsLock(j, y) \/ GsLeave(j, y)
      PROVE  Goes
  <2>1. cstats' = cstats /\ outbox' = outbox
    BY <1>7 DEF GsGet, GsSave, GsLock, GsLeave
  <2>2. PICK op \in Requested : Send(j, op, y)
    BY <1>7 DEF GsGet, GsSave, GsLock, GsLeave, Requested
  <2>3. CASE j # k
    <3>1. inbox'[k] = inbox[k] /\ granted'[k] = granted[k] /\ claimed'[k] = claimed[k]
      BY <1>7, <2>2, <2>3 DEF GsGet, GsSave, GsLock, GsLeave, Send, TypeOK
    <3> QED BY <1>0, <2>1, <3>1
  <2>4. ASSUME j = k, GsGet(k, y) PROVE Says(k, "get", y)
    BY <2>4 DEF GsGet, GsCanSend, Send, Says, TypeOK
  <2>5. ASSUME j = k, GsSave(k, y) PROVE Says(k, "save", y)
    BY <2>5 DEF GsSave, GsCanSend, Send, Says, TypeOK
  <2>6. ASSUME j = k, GsLock(k, y) PROVE Says(k, "lock", y)
    BY <2>6 DEF GsLock, GsCanSend, Send, Says, TypeOK
  <2>7. ASSUME j = k, GsLeave(k, y) PROVE Says(k, "unlock", y)
    BY <2>7 DEF GsLeave, GsCanSend, Send, Says, TypeOK
  <2> QED BY <1>7, <2>1, <2>3, <2>4, <2>5, <2>6, <2>7 DEF Requested
<1>8. ASSUME NEW j \in Conns, GsRead(j) PROVE Goes
  <2>1. CASE j # k
    <3>1. /\ cstats' = cstats /\ inbox' = inbox /\ claimed' = claimed
          /\ outbox'[k] = outbox[k] /\ granted'[k] = granted[k]
      BY <1>8, <2>1 DEF GsRead, TypeOK
    <3> QED BY <1>0, <3>1
  <2>2. CASE j = k
    <3>1. /\ cstats' = cstats /\ inbox' = inbox /\ claimed' = claimed
          /\ outbox[k] \in Seq(Replies) /\ outbox[k] # <<>> /\ outbox'[k] = Tail(outbox[k])
          /\ granted'[k] = IF Head(outbox[k]).op = "success"
                           THEN granted[k] \cup {Head(outbox[k]).x} ELSE granted[k]
      BY <1>8, <2>2 DEF GsRead, TypeOK
    <3>2. /\ Len(outbox'[k]) <= Len(outbox[k])
          /\ \A m : In(m, outbox[k]) => m = Head(outbox[k]) \/ In(m, outbox'[k])
      BY <3>1, TailFacts
    <3>3. ASSUME NEW x \in Chars, Handed(k, x) PROVE Handed(k, x)'
      <4>1. x \in granted[k] \/ Msg("success", x) = Head(outbox[k]) \/ In(Msg("success", x), outbox'[k])
        BY <3>2, <3>3 DEF Handed
      <4>2. Msg("success", x) = Head(outbox[k]) => x \in granted'[k]
        BY <3>1 DEF Msg
      <4>3. granted[k] \subseteq granted'[k]
        BY <3>1
      <4> QED BY <4>1, <4>2, <4>3, HandedNext
    <3>4. granted[k] \subseteq granted'[k]
      BY <3>1
    <3> QED BY <3>1, <3>2, <3>3, <3>4 DEF Rests
  <2> QED BY <2>1, <2>2
<1>9. CASE UNCHANGED vars
  BY <1>0, <1>9 DEF vars
<1> QED BY <1>2, <1>3, <1>4, <1>5, <1>6, <1>7, <1>8, <1>9 DEF Next, HandleRequest
-----------------------------------------------------------------------------
(***************************************************************************)
(* Saves.  A server asks for no lock when it reconnects; so what it saves  *)
(* it was granted, and its unlock is behind the saves.                     *)
(***************************************************************************)
SaveTalk(q, g, x) ==
    /\ ~In(Msg("lock", x), q)
    /\ Once(Msg("unlock", x), q)
    /\ AheadOf(Msg("save", x), Msg("unlock", x), q)
    /\ In(Msg("save", x), q) => x \in g \/ In(Msg("unlock", x), q)

SaveInv ==
    /\ \A k \in Conns : claimed[k] = {}
    /\ \A k \in Conns, x \in Chars : SaveTalk(inbox[k], granted[k], x)
    /\ \A k \in Conns, x \in Chars :
         In(Msg("unlock", x), inbox[k]) => cstats[k] = "verified" /\ lock[x] = AddrOf[k]

\* A session that goes on keeps its locks, but for the one it gives back.
LEMMA LockKept ==
    ASSUME IInv, [Next]_vars, NEW k \in Conns, NEW x \in Chars,
           cstats'[k] = "verified", cstats[k] = "verified", lock[x] = AddrOf[k], ~Ends(k)
    PROVE  \/ lock'[x] = AddrOf[k]
           \/ /\ Head(inbox[k]) = Msg("unlock", x) /\ inbox[k] # <<>>
              /\ inbox'[k] = Tail(inbox[k]) /\ lock'[x] = NoServer
<1> USE DEF IInv
<1>0. AddrOf[k] # NoServer
  BY AddrAssumption, OwnerAssumption
<1>1. ASSUME NEW K \in SUBSET Conns, Shutdown(K) PROVE lock'[x] = AddrOf[k]
  <2>1. CASE k \in K
    <3>1. /\ inbox'[k] = <<>> /\ outbox'[k] = <<>> /\ granted'[k] = {} /\ claimed'[k] = {}
      BY <1>1, <2>1, ShutdownSessions
    <3>2. \A y \in Chars : lock[y] = AddrOf[k] => lock'[y] = NoServer
      BY <1>1, <2>1 DEF Shutdown, LocksWithout
    <3> QED BY <3>1, <3>2 DEF Ends
  <2>2. CASE k \notin K
    BY <1>1, <2>2 DEF Shutdown, LocksWithout, OneSession
  <2> QED BY <2>1, <2>2
<1>2. CASE Restart
  BY <1>2 DEF Restart
<1>3. ASSUME NEW j \in Conns, Verify(j) \/ Close(j) PROVE \E K \in SUBSET Conns : Shutdown(K)
  BY <1>3 DEF Verify, Close, Previous
<1>4. ASSUME NEW j \in Conns, Accept(j) PROVE lock'[x] = AddrOf[k]
  BY <1>4 DEF Accept
<1>5. ASSUME NEW j \in Conns, HandleRequest(j), lock'[x] # AddrOf[k]
      PROVE  /\ Head(inbox[k]) = Msg("unlock", x) /\ inbox[k] # <<>>
             /\ inbox'[k] = Tail(inbox[k]) /\ lock'[x] = NoServer
  <2>1. cstats[j] = "verified" /\ AddrOf[j] = AddrOf[k] /\ Heads(j, "unlock", x) /\ lock'[x] = NoServer
    BY <1>0, <1>5, RequestLocks
  <2>2. j = k
    BY <2>1 DEF OneSession
  <2>3. UnlockChar(k)
    BY <1>5, <2>1, <2>2, MsgEq, GetDataFacts
       DEF HandleRequest, SaveData, LockChar, Heads
  <2> QED BY <2>1, <2>2, <2>3 DEF UnlockChar, Heads, Consume, TypeOK
<1>6. CASE lock' = lock
  BY <1>6
<1> QED BY <1>1, <1>2, <1>3, <1>4, <1>5, <1>6, NextCases

\* A server sends a request.
LEMMA SaveTalkSend ==
    ASSUME NEW q \in Seq(Requests), NEW g, NEW g2, NEW x \in Chars, NEW y \in Chars,
           NEW op \in Requested, SaveTalk(q, g, x), op # "lock",
           In(Msg("unlock", x), q) => x \notin g,
           op \in {"save", "unlock"} => y \in g,
           g2 = IF op = "unlock" THEN g \ {y} ELSE g
    PROVE  SaveTalk(Append(q, Msg(op, y)), g2, x)
<1> DEFINE m == Msg(op, y)
           r == Append(q, m)
<1>1. m \in Requests BY MsgTypes DEF Requested
<1>2. /\ \A n : In(n, r) <=> In(n, q) \/ n = m
      /\ \A n : Once(n, q) /\ (m = n => ~In(n, q)) => Once(n, r)
      /\ \A n, l : AheadOf(n, l, q) /\ n # l /\ (m = n => ~In(l, q)) => AheadOf(n, l, r)
  BY <1>1, AppendFacts
<1>3. /\ (Msg("save", x) = m) <=> (op = "save" /\ x = y)
      /\ (Msg("unlock", x) = m) <=> (op = "unlock" /\ x = y)
      /\ Msg("lock", x) # m
      /\ Msg("unlock", x) # Msg("save", x)
  BY MsgEq
<1> HIDE DEF m, r
<1>4. ~In(Msg("lock", x), r) /\ Once(Msg("unlock", x), r)
  BY <1>2, <1>3 DEF SaveTalk
<1>5. AheadOf(Msg("save", x), Msg("unlock", x), r)
  BY <1>2, <1>3 DEF SaveTalk
<1>6. In(Msg("save", x), r) => x \in g2 \/ In(Msg("unlock", x), r)
  BY <1>2, <1>3 DEF SaveTalk
<1>7. SaveTalk(r, g2, x)
  BY <1>4, <1>5, <1>6 DEF SaveTalk
<1> QED BY <1>7 DEF m, r

\* d2dbs takes a request.
LEMMA SaveTalkTake ==
    ASSUME NEW q \in Seq(Requests), q # <<>>, NEW g, NEW x, SaveTalk(q, g, x)
    PROVE  SaveTalk(Tail(q), g, x)
<1>1. /\ \A m : In(m, q) <=> m = Head(q) \/ In(m, Tail(q))
      /\ \A m : Once(m, q) => Once(m, Tail(q))
      /\ \A m, n : AheadOf(m, n, q) => AheadOf(m, n, Tail(q))
      /\ \A m, n : AheadOf(m, n, q) /\ Head(q) = n => ~In(m, q)
  BY TailFacts
<1> QED BY <1>1 DEF SaveTalk

LEMMA SaveStep ==
    ASSUME ~Relocks, IInv, SaveInv, [Next]_vars, NEW k \in Conns
    PROVE  /\ claimed'[k] = {}
           /\ \A x \in Chars : SaveTalk(inbox'[k], granted'[k], x)
           /\ \A x \in Chars : In(Msg("unlock", x), inbox'[k]) =>
                cstats'[k] = "verified" /\ lock'[x] = AddrOf[k]
<1> DEFINE Mine(x) == cstats'[k] = "verified" /\ lock'[x] = AddrOf[k]
           Goal == /\ claimed'[k] = {}
                   /\ \A x \in Chars : SaveTalk(inbox'[k], granted'[k], x)
                   /\ \A x \in Chars : In(Msg("unlock", x), inbox'[k]) => Mine(x)
<1>1. /\ inbox[k] \in Seq(Requests) /\ claimed[k] = {} /\ TypeOK
      /\ \A x \in Chars : /\ SaveTalk(inbox[k], granted[k], x)
                          /\ Talk(inbox[k], outbox[k], granted[k], claimed[k], x)
                          /\ In(Msg("unlock", x), inbox[k]) =>
                               cstats[k] = "verified" /\ lock[x] = AddrOf[k]
                          /\ Handed(k, x) => cstats[k] = "verified" /\ lock[x] = AddrOf[k]
  BY DEF IInv, SaveInv, TypeOK, Talks, GrantsLocked
<1>2. CASE Ends(k)
  BY <1>2, EmptyFacts DEF Ends, SaveTalk
<1> SUFFICES ASSUME ~Ends(k) PROVE Goal
  BY <1>2
<1>3. /\ cstats[k] = "verified" => cstats'[k] = "verified"
      /\ Rests(k) \/ Takes(k) \/ \E op \in Requested, y \in Chars : Says(k, op, y)
  BY <1>1, SessionMoves
<1>4. ASSUME NEW x \in Chars, cstats[k] = "verified", lock[x] = AddrOf[k],
             ~(inbox[k] # <<>> /\ Head(inbox[k]) = Msg("unlock", x) /\ inbox'[k] = Tail(inbox[k]))
      PROVE  Mine(x)
  BY <1>3, <1>4, LockKept
<1> HIDE DEF Mine
<1>5. inbox[k] # <<>> => Len(Tail(inbox[k])) = Len(inbox[k]) - 1 /\ Len(inbox[k]) \in Nat
  BY <1>1
<1>9. inbox[k] # <<>> => Tail(inbox[k]) # inbox[k]
  <2>1. Len(inbox[k]) \in Nat => Len(inbox[k]) - 1 # Len(inbox[k])
    OBVIOUS
  <2> QED BY <1>5, <2>1, Zenon
<1>6. CASE Rests(k)
  <2>1. inbox'[k] = inbox[k] /\ granted[k] \subseteq granted'[k] /\ claimed'[k] = {}
    BY <1>1, <1>6 DEF Rests
  <2>2. inbox[k] # <<>> => inbox'[k] # Tail(inbox[k])
    BY <1>9, <2>1, Zenon
  <2>3. \A x \in Chars : SaveTalk(inbox'[k], granted'[k], x)
    BY <1>1, <2>1 DEF SaveTalk
  <2>4. \A x \in Chars : In(Msg("unlock", x), inbox'[k]) => Mine(x)
    BY <1>1, <1>4, <2>1, <2>2
  <2> QED BY <2>1, <2>3, <2>4
<1>7. CASE Takes(k)
  <2>1. /\ inbox[k] # <<>> /\ inbox'[k] = Tail(inbox[k])
        /\ granted'[k] = granted[k] /\ claimed'[k] = {}
    BY <1>1, <1>7 DEF Takes
  <2>2. \A x \in Chars : SaveTalk(inbox'[k], granted'[k], x)
    BY <1>1, <2>1, SaveTalkTake
  <2>3. ASSUME NEW x \in Chars, In(Msg("unlock", x), inbox'[k]) PROVE Mine(x)
    <3>1. Once(Msg("unlock", x), inbox[k])
      BY <1>1 DEF SaveTalk
    <3>2. In(Msg("unlock", x), inbox[k]) /\ Head(inbox[k]) # Msg("unlock", x)
      BY <1>1, <2>1, <2>3, <3>1, TailFacts
    <3> QED BY <1>1, <1>4, <3>2
  <2> QED BY <2>1, <2>2, <2>3
<1>8. ASSUME NEW op \in Requested, NEW y \in Chars, Says(k, op, y) PROVE Goal
  <2>1. /\ inbox'[k] = Append(inbox[k], Msg(op, y)) /\ op # "lock" /\ claimed'[k] = {}
        /\ op \in {"save", "unlock"} => y \in granted[k]
        /\ granted'[k] = IF op = "unlock" THEN granted[k] \ {y} ELSE granted[k]
    BY <1>1, <1>8 DEF Says
  <2>2. ASSUME NEW x \in Chars PROVE SaveTalk(inbox'[k], granted'[k], x)
    <3>1. SaveTalk(inbox[k], granted[k], x) /\ (In(Msg("unlock", x), inbox[k]) => x \notin granted[k])
      BY <1>1 DEF Talk
    <3>2. SaveTalk(Append(inbox[k], Msg(op, y)), granted'[k], x)
      BY <1>1, <2>1, <3>1, SaveTalkSend
    <3> QED BY <2>1, <3>2
  <2>3. Msg(op, y) \in Requests
    BY MsgTypes DEF Requested
  <2>4. inbox[k] # <<>> => inbox'[k] # Tail(inbox[k])
    BY <1>1, <1>5, <2>1, <2>3, AppendFacts
  <2>5. ASSUME NEW x \in Chars, In(Msg("unlock", x), inbox'[k]) PROVE Mine(x)
    <3>1. In(Msg("unlock", x), inbox[k]) \/ (op = "unlock" /\ x = y)
      BY <1>1, <2>1, <2>3, <2>5, AppendFacts, MsgEq
    <3>2. In(Msg("unlock", x), inbox[k]) \/ Handed(k, x)
      BY <2>1, <3>1 DEF Handed
    <3> QED BY <1>1, <1>4, <2>4, <3>2
  <2> QED BY <2>1, <2>2, <2>5
<1> QED BY <1>3, <1>6, <1>7, <1>8

\* SavesLocked: a save that reaches dbs_packet_savedata comes from the server
\* that has the lock, which is not looked at, if servers never lock again what
\* they play (the locks are granted to one session and end with it).
THEOREM SavesOwned == ~Relocks /\ Spec => []SavesLocked
<1>1. ASSUME ~Relocks PROVE Spec => []SavesLocked
  <2>1. Init => SaveInv
    BY EmptyFacts DEF Init, SaveInv, SaveTalk
  <2>2. IInv /\ SaveInv /\ [Next]_vars => SaveInv'
    <3> SUFFICES ASSUME IInv, SaveInv, [Next]_vars PROVE SaveInv'
      OBVIOUS
    <3>1. \A k \in Conns :
            /\ claimed'[k] = {}
            /\ \A x \in Chars : SaveTalk(inbox'[k], granted'[k], x)
            /\ \A x \in Chars : In(Msg("unlock", x), inbox'[k]) =>
                 cstats'[k] = "verified" /\ lock'[x] = AddrOf[k]
      BY <1>1, SaveStep
    <3> QED BY <3>1 DEF SaveInv, SaveTalk, In, Once, AheadOf, Msg
  <2>3. IInv /\ SaveInv => SavesLocked
    <3> SUFFICES ASSUME IInv, SaveInv, NEW k \in Conns, NEW x \in Chars,
                        In(Msg("save", x), inbox[k])
                 PROVE  lock[x] = AddrOf[k]
      BY DEF SavesLocked
    <3>1. x \in granted[k] \/ In(Msg("unlock", x), inbox[k])
      BY DEF SaveInv, SaveTalk
    <3> QED BY <3>1 DEF SaveInv, IInv, GrantsLocked, Handed
  <2> QED BY InitIInv, NextIInv, <2>1, <2>2, <2>3, PTL DEF Spec
<1> QED BY <1>1


-----------------------------------------------------------------------------
(***************************************************************************)
(* No lock is left over, if every save can be read and every reply fits.   *)
(* A lock a server asked for again is used, or given back by an unlock     *)
(* behind it.                                                              *)
(***************************************************************************)
LockTalk(q, h, x) ==
    \A i \in 1..Len(q) : q[i] = Msg("lock", x) =>
       x \in h \/ \E j \in 1..Len(q) : i < j /\ q[j] = Msg("unlock", x)

\* The session has a use for the lock on x, or gives it back.
Uses(k, x) == Handed(k, x) \/ x \in claimed[k] \/ In(Msg("unlock", x), inbox[k])

UseInv ==
    /\ \A k \in Conns : Len(inbox[k]) + Len(outbox[k]) <= MaxMsgs
    /\ \A k \in Conns, x \in Chars : LockTalk(inbox[k], claimed[k], x)
    /\ NoOrphanLock

\* A server sends a request.
LEMMA LockTalkSend ==
    ASSUME NEW q \in Seq(Requests), NEW h, NEW h2, NEW x \in Chars, NEW y \in Chars,
           NEW op \in Requested, LockTalk(q, h, x),
           h2 = IF op = "unlock" THEN h \ {y} ELSE IF op = "lock" THEN h \cup {y} ELSE h
    PROVE  LockTalk(Append(q, Msg(op, y)), h2, x)
<1> DEFINE m == Msg(op, y)
           r == Append(q, m)
<1>1. m \in Requests BY MsgTypes DEF Requested
<1>2. /\ Len(q) \in Nat /\ Len(r) = Len(q) + 1 /\ r[Len(q) + 1] = m
      /\ \A i \in 1..Len(q) : r[i] = q[i]
  BY <1>1
<1>3. /\ (Msg("lock", x) = m) <=> (op = "lock" /\ x = y)
      /\ (Msg("unlock", x) = m) <=> (op = "unlock" /\ x = y)
  BY MsgEq
<1> HIDE DEF m, r
<1>4. ASSUME NEW i \in 1..Len(r), r[i] = Msg("lock", x), x \notin h2
      PROVE  \E j \in 1..Len(r) : i < j /\ r[j] = Msg("unlock", x)
  <2>1. i \in 1..Len(q) /\ q[i] = Msg("lock", x)
    <3>1. i \in 1..Len(q) \/ i = Len(q) + 1
      BY <1>2
    <3> QED BY <1>2, <1>3, <1>4, <3>1
  <2>2. CASE x \in h
    <3>1. op = "unlock" /\ x = y
      BY <1>4, <2>2
    <3>2. Len(q) + 1 \in 1..Len(r) /\ i < Len(q) + 1 /\ r[Len(q) + 1] = Msg("unlock", x)
      BY <1>2, <1>3, <2>1, <3>1
    <3> QED BY <3>2
  <2>3. CASE x \notin h
    <3>1. PICK j \in 1..Len(q) : i < j /\ q[j] = Msg("unlock", x)
      BY <2>1, <2>3 DEF LockTalk
    <3>2. j \in 1..Len(r) /\ r[j] = Msg("unlock", x)
      BY <1>2, <3>1
    <3> QED BY <3>1, <3>2
  <2> QED BY <2>2, <2>3
<1>5. LockTalk(r, h2, x)
  BY <1>4 DEF LockTalk
<1> QED BY <1>5 DEF m, r

\* d2dbs takes a request; after a lock the server has a use for the character.
LEMMA LockTalkTake ==
    ASSUME NEW q \in Seq(Requests), q # <<>>, NEW h, NEW x, LockTalk(q, h, x)
    PROVE  /\ LockTalk(Tail(q), h, x)
           /\ Head(q) = Msg("lock", x) => x \in h \/ In(Msg("unlock", x), Tail(q))
<1> DEFINE t == Tail(q)
<1>1. /\ Len(q) \in Nat \ {0} /\ Len(t) = Len(q) - 1
      /\ \A i \in 1..Len(t) : t[i] = q[i + 1]
      /\ Head(q) = q[1]
  OBVIOUS
<1> HIDE DEF t
<1>2. /\ \A i \in 1..Len(t) : i + 1 \in 1..Len(q)
      /\ \A i, j \in 1..Len(q) : i < j => j - 1 \in 1..Len(t) /\ t[j - 1] = q[j]
      /\ 1 \in 1..Len(q)
  BY <1>1
<1>3. ASSUME NEW i \in 1..Len(q), q[i] = Msg("lock", x), x \notin h
      PROVE  \E j \in 1..Len(t) : i - 1 < j /\ t[j] = Msg("unlock", x)
  <2>1. PICK j \in 1..Len(q) : i < j /\ q[j] = Msg("unlock", x)
    BY <1>3 DEF LockTalk
  <2>2. j - 1 \in 1..Len(t) /\ t[j - 1] = Msg("unlock", x) /\ i - 1 < j - 1
    BY <1>2, <2>1
  <2> QED BY <2>2
<1>4. LockTalk(t, h, x)
  <2> SUFFICES ASSUME NEW i \in 1..Len(t), t[i] = Msg("lock", x), x \notin h
               PROVE  \E j \in 1..Len(t) : i < j /\ t[j] = Msg("unlock", x)
    BY DEF LockTalk
  <2>1. i + 1 \in 1..Len(q) /\ q[i + 1] = Msg("lock", x) /\ (i + 1) - 1 = i
    BY <1>1, <1>2
  <2> QED BY <1>3, <2>1
<1>5. Head(q) = Msg("lock", x) => x \in h \/ In(Msg("unlock", x), t)
  BY <1>1, <1>2, <1>3 DEF In
<1> QED BY <1>4, <1>5 DEF t

\* How many messages are under way.
LEMMA Counted ==
    ASSUME NEW i \in Nat, NEW o \in Nat, NEW i2 \in Nat, NEW o2 \in Nat, NEW m \in Nat, i + o <= m,
           \/ i2 = i /\ o2 <= o
           \/ i2 = i - 1 /\ o2 <= o + 1
           \/ i2 = i + 1 /\ o2 = o /\ i + o < m
    PROVE  i2 + o2 <= m
  OBVIOUS

LEMMA RoomLeft ==
    ASSUME NEW i \in Nat, NEW o \in Nat, NEW m \in Nat, NEW b \in Nat, i + o <= m, m <= b, i # 0
    PROVE  o < b
  OBVIOUS

\* Both facts about the queues of a session are kept.
LEMMA QueueStep ==
    ASSUME TypeOK, UseInv, [Next]_vars, NEW k \in Conns
    PROVE  /\ Len(inbox'[k]) + Len(outbox'[k]) <= MaxMsgs
           /\ \A x \in Chars : LockTalk(inbox'[k], claimed'[k], x)
<1>1. /\ inbox[k] \in Seq(Requests) /\ Len(inbox[k]) \in Nat /\ Len(outbox[k]) \in Nat
      /\ Len(inbox[k]) + Len(outbox[k]) <= MaxMsgs
      /\ \A x \in Chars : LockTalk(inbox[k], claimed[k], x)
      /\ MaxMsgs \in Nat
  BY BoundAssumption DEF TypeOK, UseInv
<1>0. Len(inbox'[k]) \in Nat /\ Len(outbox'[k]) \in Nat
  BY NextType DEF TypeOK
<1> DEFINE Room == Len(inbox'[k]) + Len(outbox'[k]) <= MaxMsgs
<1>6. ASSUME \/ Len(inbox'[k]) = Len(inbox[k]) /\ Len(outbox'[k]) <= Len(outbox[k])
             \/ Len(inbox'[k]) = Len(inbox[k]) - 1 /\ Len(outbox'[k]) <= Len(outbox[k]) + 1
             \/ /\ Len(inbox'[k]) = Len(inbox[k]) + 1 /\ Len(outbox'[k]) = Len(outbox[k])
                /\ Len(inbox[k]) + Len(outbox[k]) < MaxMsgs
      PROVE  Room
  BY ONLY <1>0, <1>1, <1>6, Counted
<1> HIDE DEF Room
<1>2. CASE Ends(k)
  <2>1. Len(inbox'[k]) + Len(outbox'[k]) <= MaxMsgs
    <3>1. Len(inbox'[k]) = 0 /\ Len(outbox'[k]) = 0
      BY <1>2, EmptyFacts DEF Ends
    <3>2. MaxMsgs \in Nat
      BY BoundAssumption
    <3> QED BY <3>1, <3>2
  <2>2. \A x \in Chars : LockTalk(inbox'[k], claimed'[k], x)
    BY <1>2, EmptyFacts DEF Ends, LockTalk
  <2> QED BY <2>1, <2>2
<1>3. CASE Rests(k)
  <2>1. inbox'[k] = inbox[k] /\ claimed'[k] = claimed[k] /\ Len(outbox'[k]) <= Len(outbox[k])
    BY <1>3 DEF Rests
  <2>2. Room
    BY <1>6, <2>1
  <2> QED BY <1>1, <2>1, <2>2 DEF Room
<1>4. CASE Takes(k)
  <2>1. /\ inbox[k] # <<>> /\ inbox'[k] = Tail(inbox[k]) /\ claimed'[k] = claimed[k]
        /\ Len(outbox'[k]) <= Len(outbox[k]) + 1
    BY <1>4 DEF Takes
  <2>2. Len(Tail(inbox[k])) = Len(inbox[k]) - 1
    BY <1>1, <2>1
  <2>3. \A x \in Chars : LockTalk(inbox'[k], claimed'[k], x)
    BY <1>1, <2>1, LockTalkTake
  <2>4. Room
    BY <1>6, <2>1, <2>2
  <2> QED BY <2>3, <2>4 DEF Room
<1>5. ASSUME NEW op \in Requested, NEW y \in Chars, Says(k, op, y)
      PROVE  /\ Len(inbox'[k]) + Len(outbox'[k]) <= MaxMsgs
             /\ \A x \in Chars : LockTalk(inbox'[k], claimed'[k], x)
  <2>1. /\ inbox'[k] = Append(inbox[k], Msg(op, y)) /\ outbox'[k] = outbox[k]
        /\ Len(inbox[k]) + Len(outbox[k]) < MaxMsgs
        /\ claimed'[k] = IF op = "unlock" THEN claimed[k] \ {y}
                         ELSE IF op = "lock" THEN claimed[k] \cup {y} ELSE claimed[k]
    BY <1>5 DEF Says
  <2>2. Msg(op, y) \in Requests
    BY MsgTypes DEF Requested
  <2>3. Len(inbox'[k]) = Len(inbox[k]) + 1
    BY <1>1, <2>1, <2>2, AppendFacts
  <2>4. \A x \in Chars : LockTalk(inbox'[k], claimed'[k], x)
    BY <1>1, <2>1, LockTalkSend
  <2>5. Room
    BY <1>6, <2>1, <2>3
  <2> QED BY <2>4, <2>5 DEF Room
<1> QED BY <1>2, <1>3, <1>4, <1>5, SessionMoves

\* With a reply that fits and a save that can be read, dbs_packet_getdata takes
\* a lock only to hand the character out.
LEMMA GetDataHands ==
    ASSUME TypeOK, NEW k \in Conns, GetData(k), Fits(k), Loads = {"ok"}, NEW y \in Chars,
           lock[y] = NoServer, lock'[y] # NoServer
    PROVE  Handed(k, y)'
<1>1. PICK x \in Chars :
        /\ Heads(k, "get", x)
        /\ \E r \in GetResults(k, x) :
             /\ lock' = r[2]
             /\ IF Fits(k) THEN Reply(k, r[1], x) /\ Consume(k)
                           ELSE UNCHANGED <<inbox, outbox>>
  BY DEF GetData
<1>2. PICK r \in GetResults(k, x) : lock' = r[2] /\ Reply(k, r[1], x)
  BY <1>1
<1>3. ~Locked(x) /\ r = <<"success", [lock EXCEPT ![x] = AddrOf[k]]>>
  <2>1. CASE Locked(x)
    <3>1. r = <<"locked", lock>>
      BY <1>2, <2>1 DEF GetResults
    <3>2. lock' = lock
      BY <1>2, <3>1
    <3> QED BY <3>2
  <2>2. CASE ~Locked(x)
    BY <1>2, <2>2 DEF GetResults
  <2> QED BY <2>1, <2>2
<1>4. y = x /\ Reply(k, "success", x)
  <2>1. r[1] = "success" /\ r[2] = [lock EXCEPT ![x] = AddrOf[k]]
    BY <1>3
  <2> QED BY <1>2, <2>1 DEF TypeOK
<1>5. /\ outbox[k] \in Seq(Replies) /\ Msg("success", x) \in Replies
      /\ outbox'[k] = Append(outbox[k], Msg("success", x))
  BY <1>4, MsgTypes DEF Reply, TypeOK
<1>6. In(Msg("success", y), outbox'[k])
  BY <1>4, <1>5, AppendFacts
<1> QED BY <1>6, HandedNext

\* A lock that is taken is used by the session that takes it.
LEMMA TakenStep ==
    ASSUME TypeOK, UseInv, [Next]_vars, Loads = {"ok"}, MaxMsgs <= BufRoom,
           NEW k \in Conns, HandleRequest(k), NEW x \in Chars,
           lock[x] = NoServer, lock'[x] # NoServer
    PROVE  Uses(k, x)'
<1>1. GetData(k) \/ LockChar(k)
  BY DEF HandleRequest, SaveData, UnlockChar, Unlocked, TypeOK
<1>2. CASE GetData(k)
  <2>1. inbox[k] # <<>>
    BY <1>2 DEF GetData, Heads
  <2>2. inbox[k] \in Seq(Requests) /\ Len(inbox[k]) \in Nat /\ Len(outbox[k]) \in Nat
    BY DEF TypeOK
  <2>6. Len(inbox[k]) # 0
    BY <2>1, <2>2
  <2>7. Len(inbox[k]) + Len(outbox[k]) <= MaxMsgs
    BY DEF UseInv
  <2>4. Len(inbox[k]) \in Nat /\ Len(outbox[k]) \in Nat
    BY <2>2
  <2>5. BufRoom \in Nat /\ MaxMsgs \in Nat /\ MaxMsgs <= BufRoom
    BY BoundAssumption
  <2>3. Fits(k)
    BY ONLY <2>4, <2>5, <2>6, <2>7, RoomLeft DEF Fits
  <2> QED BY <1>2, <2>3, GetDataHands DEF Uses
<1>3. CASE LockChar(k)
  <2>1. PICK y \in Chars :
          /\ Heads(k, "lock", y) /\ Consume(k) /\ claimed' = claimed
          /\ lock' = IF Locked(y) THEN lock ELSE [lock EXCEPT ![y] = AddrOf[k]]
    BY <1>3 DEF LockChar
  <2>2. y = x
    BY <2>1 DEF TypeOK
  <2>3. /\ inbox[k] \in Seq(Requests) /\ inbox[k] # <<>> /\ Head(inbox[k]) = Msg("lock", x)
        /\ inbox'[k] = Tail(inbox[k]) /\ claimed'[k] = claimed[k]
    BY <2>1, <2>2 DEF Heads, Consume, TypeOK
  <2>4. x \in claimed'[k] \/ In(Msg("unlock", x), inbox'[k])
    BY <2>3, LockTalkTake DEF UseInv
  <2> QED BY <2>4 DEF Uses, In, Msg
<1> QED BY <1>1, <1>2, <1>3

\* A session that goes on keeps its use of a lock, or gives the lock back.
LEMMA UsesStep ==
    ASSUME IInv, [Next]_vars, NEW k \in Conns, NEW x \in Chars,
           cstats[k] = "verified", lock[x] = AddrOf[k], Uses(k, x), lock'[x] # NoServer
    PROVE  cstats'[k] = "verified" /\ Uses(k, x)'
<1>1. TypeOK /\ inbox[k] \in Seq(Requests)
  BY DEF IInv, TypeOK
<1>2. ~Ends(k)
  BY DEF Ends
<1>3. /\ cstats'[k] = "verified"
      /\ Rests(k) \/ Takes(k) \/ \E op \in Requested, y \in Chars : Says(k, op, y)
  BY <1>1, <1>2, SessionMoves
<1>4. \/ Handed(k, x)' \/ x \in claimed'[k] \/ In(Msg("unlock", x), inbox'[k])
  <2>1. CASE Rests(k)
    BY <2>1 DEF Rests, Uses
  <2>2. CASE Takes(k)
    <3>1. /\ inbox[k] # <<>> /\ inbox'[k] = Tail(inbox[k]) /\ claimed'[k] = claimed[k]
          /\ HandleRequest(k) /\ (Handed(k, x) => Handed(k, x)')
      BY <2>2 DEF Takes
    <3>2. Head(inbox[k]) # Msg("unlock", x)
      <4> SUFFICES ASSUME Head(inbox[k]) = Msg("unlock", x) PROVE FALSE
        OBVIOUS
      <4>1. UnlockChar(k)
        BY <3>1, MsgEq, GetDataFacts DEF HandleRequest, SaveData, LockChar, Heads
      <4>2. Heads(k, "unlock", x)
        BY <3>1 DEF Heads
      <4>3. lock' = Unlocked(x, AddrOf[k])
        BY <4>1, MsgEq DEF UnlockChar, Heads
      <4> QED BY <1>1, <4>3 DEF Unlocked, TypeOK
    <3>3. In(Msg("unlock", x), inbox[k]) => In(Msg("unlock", x), inbox'[k])
      BY <1>1, <3>1, <3>2, TailFacts
    <3> QED BY <3>1, <3>3 DEF Uses
  <2>3. ASSUME NEW op \in Requested, NEW y \in Chars, Says(k, op, y)
        PROVE  Handed(k, x)' \/ x \in claimed'[k] \/ In(Msg("unlock", x), inbox'[k])
    <3>1. /\ inbox'[k] = Append(inbox[k], Msg(op, y)) /\ outbox'[k] = outbox[k]
          /\ granted'[k] = IF op = "unlock" THEN granted[k] \ {y} ELSE granted[k]
          /\ claimed'[k] = IF op = "unlock" THEN claimed[k] \ {y}
                           ELSE IF op = "lock" THEN claimed[k] \cup {y} ELSE claimed[k]
      BY <2>3 DEF Says
    <3>2. Msg(op, y) \in Requests
      BY MsgTypes DEF Requested
    <3>3. /\ In(Msg("unlock", x), inbox[k]) => In(Msg("unlock", x), inbox'[k])
          /\ op = "unlock" /\ y = x => In(Msg("unlock", x), inbox'[k])
      BY <1>1, <3>1, <3>2, AppendFacts
    <3>4. x \in granted[k] => x \in granted'[k] \/ (op = "unlock" /\ y = x)
      BY <3>1
    <3>5. x \in claimed[k] => x \in claimed'[k] \/ (op = "unlock" /\ y = x)
      BY <3>1
    <3>6. Handed(k, x) => Handed(k, x)' \/ (op = "unlock" /\ y = x)
      BY <3>1, <3>4, HandedNext DEF Handed
    <3> QED BY <3>3, <3>5, <3>6 DEF Uses
  <2> QED BY <1>3, <2>1, <2>2, <2>3
<1> QED BY <1>3, <1>4 DEF Uses, In, Msg

LEMMA OrphanStep ==
    ASSUME IInv, UseInv, [Next]_vars, Loads = {"ok"}, MaxMsgs <= BufRoom,
           NEW x \in Chars, lock'[x] # NoServer
    PROVE  \E k \in Conns : cstats'[k] = "verified" /\ AddrOf[k] = lock'[x] /\ Uses(k, x)'
<1>1. TypeOK
  BY DEF IInv
<1>2. CASE lock[x] # NoServer
  <2>1. PICK k \in Conns : cstats[k] = "verified" /\ AddrOf[k] = lock[x] /\ Uses(k, x)
    BY <1>2 DEF UseInv, NoOrphanLock, Locked, Uses
  <2>2. cstats'[k] = "verified" /\ Uses(k, x)'
    BY <2>1, UsesStep
  <2>3. lock'[x] = AddrOf[k]
    <3>1. ~Ends(k)
      BY <2>1 DEF Ends
    <3> QED BY <2>1, <2>2, <3>1, LockKept
  <2> QED BY <2>2, <2>3
<1>3. CASE lock[x] = NoServer
  <2>1. PICK k \in Conns : HandleRequest(k) /\ cstats' = cstats
    <3>1. ASSUME NEW K, Shutdown(K) PROVE FALSE
      BY <1>3, <3>1 DEF Shutdown, LocksWithout
    <3>2. ~Restart /\ \A k \in Conns : ~Accept(k) /\ ~Verify(k) /\ ~Close(k)
      BY <1>3, <3>1 DEF Restart, Accept, Verify, Close
    <3> QED BY <1>3, <3>2, NextCases
  <2>2. cstats[k] = "verified" /\ lock'[x] = AddrOf[k]
    BY <1>1, <1>3, <2>1, RequestLocks
  <2>3. Uses(k, x)'
    BY <1>1, <1>3, <2>1, TakenStep
  <2> QED BY <2>1, <2>2, <2>3
<1> QED BY <1>2, <1>3

\* NoOrphanLock: a lock is somebody's.  Every save can be read, for a failed one
\* may leave its lock behind; and replies find room in WriteBuf, for a request
\* that is kept finds its own lock the next time.
THEOREM LocksUsed == Loads = {"ok"} /\ MaxMsgs <= BufRoom /\ Spec => []NoOrphanLock
<1>1. ASSUME Loads = {"ok"}, MaxMsgs <= BufRoom PROVE Spec => []NoOrphanLock
  <2>1. Init => UseInv
    BY EmptyFacts, BoundAssumption DEF Init, UseInv, LockTalk, NoOrphanLock, Locked
  <2>2. IInv /\ UseInv /\ [Next]_vars => UseInv'
    <3> SUFFICES ASSUME IInv, UseInv, [Next]_vars PROVE UseInv'
      OBVIOUS
    <3>1. TypeOK
      BY DEF IInv
    <3>2. \A k \in Conns : /\ Len(inbox'[k]) + Len(outbox'[k]) <= MaxMsgs
                           /\ \A x \in Chars : LockTalk(inbox'[k], claimed'[k], x)
      BY <3>1, QueueStep
    <3>3. \A x \in Chars : lock'[x] # NoServer =>
            \E k \in Conns : cstats'[k] = "verified" /\ AddrOf[k] = lock'[x] /\ Uses(k, x)'
      BY <1>1, OrphanStep
    <3>4. NoOrphanLock'
      BY <3>3 DEF NoOrphanLock, Locked, Uses
    <3> QED BY <3>2, <3>4 DEF UseInv, LockTalk, Msg
  <2>3. UseInv => NoOrphanLock
    BY DEF UseInv
  <2> QED BY InitIInv, NextIInv, <2>1, <2>2, <2>3, PTL DEF Spec
<1> QED BY <1>1

=============================================================================
