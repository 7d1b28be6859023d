----------------------------- MODULE ListLemmas -----------------------------
(***************************************************************************)
(* What appending to a sequence, removing its head and removing an element *)
(* from its middle do to its elements: the lists and channels of the       *)
(* models are sequences that the code changes in these ways.               *)
(***************************************************************************)
EXTENDS Integers, FiniteSets, SequencesExt, FiniteSetTheorems, SequenceTheorems, TLAPS

(* What an append and a removal from the front do to the elements.         *)
LEMMA AppendElements ==
    ASSUME NEW T, NEW s \in Seq(T), NEW m \in T
    PROVE  /\ Len(s) \in Nat /\ DOMAIN s = 1 .. Len(s)
           /\ DOMAIN Append(s, m) = DOMAIN s \cup {Len(s) + 1}
           /\ Append(s, m)[Len(s) + 1] = m
           /\ \A j \in DOMAIN s : Append(s, m)[j] = s[j]
    <1>1. Len(s) \in Nat /\ DOMAIN s = 1 .. Len(s)
          BY LenProperties
    <1>2. DOMAIN Append(s, m) = 1 .. Len(s) + 1
          OBVIOUS
    <1> QED BY <1>1, <1>2

LEMMA TailElements ==
    ASSUME NEW T, NEW s \in Seq(T), s # <<>>
    PROVE  /\ Len(s) \in Nat /\ DOMAIN s = 1 .. Len(s) /\ 1 \in DOMAIN s /\ Head(s) = s[1]
           /\ DOMAIN Tail(s) = 1 .. Len(s) - 1
           /\ \A j \in DOMAIN Tail(s) : j + 1 \in DOMAIN s /\ Tail(s)[j] = s[j + 1]
           /\ \A j \in DOMAIN s \ {1} : j - 1 \in DOMAIN Tail(s) /\ Tail(s)[j - 1] = s[j]
    <1>1. /\ Len(s) \in Nat \ {0} /\ DOMAIN s = 1 .. Len(s)
          /\ Tail(s) \in Seq(T) /\ Len(Tail(s)) = Len(s) - 1
          /\ \A j \in 1 .. Len(Tail(s)) : Tail(s)[j] = s[j + 1]
          BY EmptySeq, LenProperties, HeadTailProperties
    <1>2. DOMAIN Tail(s) = 1 .. Len(s) - 1
          BY <1>1, LenProperties
    <1>3. Head(s) = s[1]
          OBVIOUS
    <1> QED BY <1>1, <1>2, <1>3

-----------------------------------------------------------------------------
(* Taking an element out of a sequence.                                    *)

(* t is s without its i-th element.                                        *)
Cut(s, t, i) ==
    /\ i \in 1 .. Len(s)
    /\ Len(t) = Len(s) - 1
    /\ \A j \in 1 .. Len(t) : t[j] = s[IF j < i THEN j ELSE j + 1]

LEMMA RemoveAtCuts ==
    ASSUME NEW T, NEW s \in Seq(T), NEW i \in 1 .. Len(s)
    PROVE  RemoveAt(s, i) \in Seq(T) /\ Cut(s, RemoveAt(s, i), i)
    <1> DEFINE a == SubSeq(s, 1, i - 1)
               b == SubSeq(s, i + 1, Len(s))
    <1>1. Len(s) \in Nat /\ i \in Nat /\ \A j \in 1 .. Len(s) : s[j] \in T
          BY ElementOfSeq
    <1>2. /\ a \in Seq(T) /\ Len(a) = i - 1
          /\ \A j \in 1 .. i - 1 : a[j] = s[j]
          <2>1. \A j \in 1 .. i - 1 : s[j] \in T
                BY <1>1
          <2>2. /\ SubSeq(s, 1, i - 1) \in Seq(T)
                /\ Len(SubSeq(s, 1, i - 1)) = IF 1 <= i - 1 THEN i - 1 - 1 + 1 ELSE 0
                /\ \A j \in 1 .. i - 1 - 1 + 1 : SubSeq(s, 1, i - 1)[j] = s[1 + j - 1]
                BY <1>1, <2>1, SubSeqProperties
          <2> QED BY <1>1, <2>2
    <1>3. /\ b \in Seq(T) /\ Len(b) = Len(s) - i
          /\ \A j \in 1 .. Len(s) - i : b[j] = s[i + j]
          <2>1. \A j \in i + 1 .. Len(s) : s[j] \in T
                BY <1>1
          <2>2. /\ SubSeq(s, i + 1, Len(s)) \in Seq(T)
                /\ Len(SubSeq(s, i + 1, Len(s))) =
                     IF i + 1 <= Len(s) THEN Len(s) - (i + 1) + 1 ELSE 0
                /\ \A j \in 1 .. Len(s) - (i + 1) + 1 :
                     SubSeq(s, i + 1, Len(s))[j] = s[(i + 1) + j - 1]
                BY <1>1, <2>1, SubSeqProperties
          <2> QED BY <1>1, <2>2
    <1> HIDE DEF a, b
    <1>4. /\ a \o b \in Seq(T)
          /\ Len(a \o b) = Len(a) + Len(b)
          /\ \A j \in 1 .. Len(a) + Len(b) : (a \o b)[j] =
                 IF j <= Len(a) THEN a[j] ELSE b[j - Len(a)]
          BY <1>2, <1>3, ConcatProperties
    <1>5. \A j \in 1 .. Len(s) - 1 : (a \o b)[j] = s[IF j < i THEN j ELSE j + 1]
          BY <1>1, <1>2, <1>3, <1>4
    <1>6. RemoveAt(s, i) = a \o b
          BY DEF RemoveAt, a, b
    <1> DEFINE r == RemoveAt(s, i)
    <1> HIDE DEF r
    <1>7. r = a \o b
          BY <1>6 DEF r
    <1>8. r \in Seq(T) /\ Len(r) = Len(s) - 1
          <2>1. Len(a \o b) = Len(s) - 1
                BY ONLY <1>1, <1>2, <1>3, <1>4
          <2> QED BY <1>4, <1>7, <2>1
    <1>9. \A j \in 1 .. Len(r) : r[j] = s[IF j < i THEN j ELSE j + 1]
          BY <1>5, <1>7, <1>8
    <1>10. r \in Seq(T) /\ Cut(s, r, i)
          BY <1>8, <1>9 DEF Cut
    <1> QED BY <1>10 DEF r

LEMMA TailCuts ==
    ASSUME NEW T, NEW s \in Seq(T), s # <<>>
    PROVE  Cut(s, Tail(s), 1)
    <1>1. /\ Len(s) \in Nat /\ Len(s) # 0 /\ Len(Tail(s)) = Len(s) - 1
          /\ \A i \in 1 .. Len(Tail(s)) : Tail(s)[i] = s[i + 1]
          BY EmptySeq, HeadTailProperties
    <1> QED BY <1>1 DEF Cut

(* Where the elements of t come from: the order is kept.                   *)
Shift(i, j) == IF j < i THEN j ELSE j + 1

LEMMA CutFacts ==
    ASSUME NEW T, NEW s \in Seq(T), NEW t \in Seq(T), NEW i, Cut(s, t, i)
    PROVE  /\ i \in DOMAIN s
           /\ \A j \in DOMAIN t : Shift(i, j) \in DOMAIN s \ {i} /\ t[j] = s[Shift(i, j)]
           /\ \A l \in DOMAIN s \ {i} : \E j \in DOMAIN t : Shift(i, j) = l /\ t[j] = s[l]
           /\ \A j, m \in DOMAIN t : j < m => Shift(i, j) < Shift(i, m)
           /\ \A j, m \in DOMAIN t : Shift(i, j) = Shift(i, m) => j = m
    <1>1. /\ Len(s) \in Nat /\ DOMAIN s = 1 .. Len(s) /\ i \in 1 .. Len(s)
          /\ Len(t) = Len(s) - 1 /\ DOMAIN t = 1 .. Len(s) - 1
          BY LenProperties DEF Cut
    <1>2. \A j \in DOMAIN t : t[j] = s[Shift(i, j)]
          BY <1>1 DEF Cut, Shift
    <1>3. \A j \in DOMAIN t : Shift(i, j) \in DOMAIN s \ {i}
          BY <1>1 DEF Shift
    <1>4. ASSUME NEW l \in DOMAIN s \ {i}
          PROVE  \E j \in DOMAIN t : Shift(i, j) = l
          <2> DEFINE j == IF l < i THEN l ELSE l - 1
          <2>1. j \in DOMAIN t /\ Shift(i, j) = l
                BY <1>1 DEF Shift
          <2> QED BY <2>1
    <1>5. \A j, m \in DOMAIN t : j < m => Shift(i, j) < Shift(i, m)
          BY <1>1 DEF Shift
    <1>6. \A j, m \in DOMAIN t : Shift(i, j) = Shift(i, m) => j = m
          BY <1>1 DEF Shift
    <1> QED BY <1>1, <1>2, <1>3, <1>4, <1>5, <1>6

-----------------------------------------------------------------------------
(* A list without repetitions counts its elements.                         *)
LEMMA CountedList ==
    ASSUME NEW G, NEW s \in Seq(G), IsInjective(s)
    PROVE  Len(s) = Cardinality(ToSet(s))
    <1>1. Len(s) \in Nat /\ DOMAIN s = 1 .. Len(s) /\ s \in [1 .. Len(s) -> G]
          BY LenProperties
    <1>2. s \in [1 .. Len(s) -> ToSet(s)]
          BY <1>1 DEF ToSet
    <1>3. s \in Injection(1 .. Len(s), ToSet(s))
          BY <1>2 DEF Injection
    <1>4. s \in Surjection(1 .. Len(s), ToSet(s))
          BY <1>1, <1>2 DEF Surjection, ToSet
    <1>5. ExistsBijection(1 .. Len(s), ToSet(s))
          BY <1>3, <1>4 DEF ExistsBijection, Bijection
    <1> QED BY <1>1, <1>5, FS_CountingElements

(* t has elements of s only, in the order of s.                            *)
InOrder(t, s) ==
    \A i, j \in DOMAIN t : i < j =>
        \E a, b \in DOMAIN s : a < b /\ t[i] = s[a] /\ t[j] = s[b]

LEMMA CutList ==
    ASSUME NEW G, NEW s \in Seq(G), NEW t \in Seq(G), NEW i, Cut(s, t, i), IsInjective(s)
    PROVE  IsInjective(t) /\ ToSet(t) = ToSet(s) \ {s[i]} /\ InOrder(t, s)
    <1>1. /\ i \in DOMAIN s
          /\ \A j \in DOMAIN t : Shift(i, j) \in DOMAIN s \ {i} /\ t[j] = s[Shift(i, j)]
          /\ \A l \in DOMAIN s \ {i} : \E j \in DOMAIN t : Shift(i, j) = l /\ t[j] = s[l]
          /\ \A j, m \in DOMAIN t : j < m => Shift(i, j) < Shift(i, m)
          /\ \A j, m \in DOMAIN t : Shift(i, j) = Shift(i, m) => j = m
          BY CutFacts
    <1>2. IsInjective(t)
          BY <1>1 DEF IsInjective
    <1>3. \A j \in DOMAIN t : t[j] \in ToSet(s) \ {s[i]}
          BY <1>1 DEF IsInjective, ToSet
    <1>4. \A l \in DOMAIN s : s[l] # s[i] => s[l] \in ToSet(t)
          BY <1>1 DEF ToSet
    <1>5. ToSet(t) = ToSet(s) \ {s[i]}
          BY <1>3, <1>4 DEF ToSet
    <1>6. InOrder(t, s)
          BY <1>1 DEF InOrder
    <1> QED BY <1>2, <1>5, <1>6

LEMMA AppendList ==
    ASSUME NEW G, NEW s \in Seq(G), NEW g \in G, g \notin ToSet(s), IsInjective(s)
    PROVE  /\ IsInjective(Append(s, g)) /\ ToSet(Append(s, g)) = ToSet(s) \cup {g}
           /\ \A i, j \in DOMAIN Append(s, g) : i < j =>
                 \/ Append(s, g)[j] = g
                 \/ i \in DOMAIN s /\ j \in DOMAIN s
                      /\ Append(s, g)[i] = s[i] /\ Append(s, g)[j] = s[j]
    <1> DEFINE t == Append(s, g)
    <1>1. /\ Len(s) \in Nat /\ DOMAIN s = 1 .. Len(s)
          /\ DOMAIN t = DOMAIN s \cup {Len(s) + 1}
          /\ t[Len(s) + 1] = g /\ \A j \in DOMAIN s : t[j] = s[j]
          BY AppendElements
    <1> HIDE DEF t
    <1>2. IsInjective(t)
          BY <1>1 DEF IsInjective, ToSet
    <1>3. ToSet(t) = ToSet(s) \cup {g}
          <2>1. \A j \in DOMAIN t : t[j] \in ToSet(s) \cup {g}
                BY <1>1 DEF ToSet
          <2>2. \A j \in DOMAIN s : s[j] \in ToSet(t)
                BY <1>1 DEF ToSet
          <2>3. g \in ToSet(t)
                BY <1>1 DEF ToSet
          <2> QED BY <2>1, <2>2, <2>3 DEF ToSet
    <1>4. ASSUME NEW i \in DOMAIN t, NEW j \in DOMAIN t, i < j
          PROVE  \/ t[j] = g
                 \/ i \in DOMAIN s /\ j \in DOMAIN s /\ t[i] = s[i] /\ t[j] = s[j]
          BY <1>1, <1>4
    <1>5. \A i, j \in DOMAIN t : i < j =>
             t[j] = g \/ (i \in DOMAIN s /\ j \in DOMAIN s /\ t[i] = s[i] /\ t[j] = s[j])
          BY <1>4
    <1> QED BY <1>2, <1>3, <1>5 DEF t

=============================================================================
