---------------------------- MODULE StreamProofs ----------------------------
(***************************************************************************)
(* The receive path loses, repeats and reorders no byte, holds less than a *)
(* frame or a line between two reads, decodes every intact frame and, on a *)
(* clean link, takes out exactly the replies: for every stream the device  *)
(* may send, every way it is cut into chunks and every number of OTA       *)
(* sessions.                                                               *)
(***************************************************************************)
EXTENDS Stream, FiniteSetTheorems, WellFoundedInduction, SequenceTheorems, TLAPS

-----------------------------------------------------------------------------
(* Numbers and sequences.                                                    *)

LEMMA LeastNatural ==
  ASSUME NEW T \in SUBSET Nat, T # {}
  PROVE  \E n \in T : \A m \in T : n <= m
<1> DEFINE B == {0..(n - 1) : n \in T}
<1>1. IsWellFoundedOn(StrictSubsetOrdering(Nat), FiniteSubsetsOf(Nat))
  BY FS_StrictSubsetOrderingWellFounded
<1>2. B \subseteq FiniteSubsetsOf(Nat) /\ B # {}
  <2>1. ASSUME NEW n \in T PROVE 0..(n - 1) \in FiniteSubsetsOf(Nat)
    <3>1. n \in Nat /\ 0..(n - 1) \subseteq Nat
      OBVIOUS
    <3>2. IsFiniteSet(0..(n - 1))
      BY <3>1, FS_Interval
    <3> QED BY <3>1, <3>2 DEF FiniteSubsetsOf
  <2> QED BY <2>1
<1>3. \E b \in B : \A c \in B : ~ (<<c, b>> \in StrictSubsetOrdering(Nat))
  <2> HIDE DEF B
  <2> QED BY <1>1, <1>2, WFMin
<1>4. PICK n \in T : \A m \in T : ~ (<<0..(m - 1), 0..(n - 1)>> \in StrictSubsetOrdering(Nat))
  BY <1>3
<1>5. ASSUME NEW m \in T, m < n PROVE FALSE
  <2>1. /\ 0..(m - 1) \subseteq 0..(n - 1) /\ m \in 0..(n - 1) /\ m \notin 0..(m - 1)
        /\ 0..(m - 1) \subseteq Nat /\ 0..(n - 1) \subseteq Nat
    BY <1>5
  <2> QED BY <1>4, <2>1 DEF StrictSubsetOrdering
<1> QED BY <1>5

LEMMA MinIsMember ==
  ASSUME NEW T \in SUBSET Nat, T # {}
  PROVE  Min(T) \in T /\ \A m \in T : Min(T) <= m
BY LeastNatural DEF Min

LEMMA SeqMore ==
  ASSUME NEW S, NEW T, S \subseteq T, NEW s \in Seq(S)
  PROVE  s \in Seq(T)
<1>1. \A i \in 1..Len(s) : s[i] \in T
  OBVIOUS
<1>2. s = [i \in 1..Len(s) |-> s[i]] /\ Len(s) \in Nat
  OBVIOUS
<1> QED BY <1>1, <1>2

LEMMA ToSetConcat ==
  ASSUME NEW S, NEW a \in Seq(S), NEW b \in Seq(S)
  PROVE  ToSet(a \o b) = ToSet(a) \cup ToSet(b)
<1>1. ASSUME NEW x \in ToSet(a \o b) PROVE x \in ToSet(a) \cup ToSet(b)
  <2>1. PICK i \in 1..Len(a \o b) : x = (a \o b)[i]
    BY DEF ToSet
  <2>2. CASE i <= Len(a)
    BY <2>1, <2>2 DEF ToSet
  <2>3. CASE i > Len(a)
    <3>1. i - Len(a) \in 1..Len(b) /\ x = b[i - Len(a)]
      BY <2>1, <2>3
    <3> QED BY <3>1 DEF ToSet
  <2> QED BY <2>1, <2>2, <2>3
<1>2. ASSUME NEW x \in ToSet(a) PROVE x \in ToSet(a \o b)
  <2>1. PICK i \in 1..Len(a) : x = a[i]
    BY DEF ToSet
  <2>2. i \in 1..Len(a \o b) /\ x = (a \o b)[i]
    BY <2>1
  <2> QED BY <2>2 DEF ToSet
<1>3. ASSUME NEW x \in ToSet(b) PROVE x \in ToSet(a \o b)
  <2>1. PICK i \in 1..Len(b) : x = b[i]
    BY DEF ToSet
  <2>2. Len(a) + i \in 1..Len(a \o b) /\ x = (a \o b)[Len(a) + i]
    BY <2>1
  <2> QED BY <2>2 DEF ToSet
<1> QED BY <1>1, <1>2, <1>3

LEMMA ToSetType ==
  ASSUME NEW S, NEW a \in Seq(S)
  PROVE  ToSet(a) \subseteq S /\ ToSet(<<>>) = {}
BY DEF ToSet

\* The numbers of A come before those of B.
Before(A, B) == \A x \in A, y \in B : x < y

LEMMA SortedConcat ==
  ASSUME NEW a \in Seq(Nat), NEW b \in Seq(Nat)
  PROVE  Sorted(a \o b) <=> Sorted(a) /\ Sorted(b) /\ Before(ToSet(a), ToSet(b))
<1> DEFINE c == a \o b
<1>1. /\ Len(a) \in Nat /\ Len(b) \in Nat /\ Len(c) = Len(a) + Len(b)
      /\ \A i \in 1..Len(a) : i \in 1..Len(c) /\ c[i] = a[i]
      /\ \A i \in 1..Len(b) : Len(a) + i \in 1..Len(c) /\ c[Len(a) + i] = b[i]
      /\ \A i \in 1..Len(c) : i > Len(a) => i - Len(a) \in 1..Len(b) /\ c[i] = b[i - Len(a)]
  OBVIOUS
<1> HIDE DEF c
<1>2. ASSUME Sorted(c) PROVE Sorted(a) /\ Sorted(b) /\ Before(ToSet(a), ToSet(b))
  <2>1. Sorted(a)
    BY <1>1, <1>2 DEF Sorted
  <2>2. Sorted(b)
    <3> SUFFICES ASSUME NEW i \in 1..Len(b), NEW j \in 1..Len(b), i < j PROVE b[i] < b[j]
      BY DEF Sorted
    <3>1. Len(a) + i < Len(a) + j
      BY <1>1
    <3>2. c[Len(a) + i] < c[Len(a) + j]
      BY <1>1, <1>2, <3>1 DEF Sorted
    <3> QED BY <1>1, <3>2
  <2>3. Before(ToSet(a), ToSet(b))
    <3> SUFFICES ASSUME NEW x \in ToSet(a), NEW y \in ToSet(b) PROVE x < y
      BY DEF Before
    <3>0. PICK i \in 1..Len(a), j \in 1..Len(b) : x = a[i] /\ y = b[j]
      <4>1. DOMAIN a = 1..Len(a) /\ DOMAIN b = 1..Len(b)
        BY ONLY a \in Seq(Nat), b \in Seq(Nat)
      <4>2. x \in ToSet(a) /\ y \in ToSet(b)
        OBVIOUS
      <4> QED BY ONLY <4>1, <4>2, Zenon DEF ToSet
    <3>1. i < Len(a) + j /\ i \in 1..Len(c) /\ Len(a) + j \in 1..Len(c)
      <4>1. i \in 1..Len(c) /\ Len(a) + j \in 1..Len(c)
        BY <1>1, Zenon
      <4> QED BY ONLY <1>1, <4>1, i \in 1..Len(a), j \in 1..Len(b)
    <3>2. c[i] < c[Len(a) + j]
      BY <1>1, <1>2, <3>1 DEF Sorted
    <3> QED BY <1>1, <3>0, <3>2
  <2> QED BY <2>1, <2>2, <2>3
<1>3. ASSUME Sorted(a), Sorted(b), Before(ToSet(a), ToSet(b)) PROVE Sorted(c)
  <2> SUFFICES ASSUME NEW i \in 1..Len(c), NEW j \in 1..Len(c), i < j PROVE c[i] < c[j]
    BY DEF Sorted
  <2>1. CASE j <= Len(a)
    <3>1. i \in 1..Len(a) /\ j \in 1..Len(a)
      BY <1>1, <2>1
    <3> QED BY <1>1, <1>3, <3>1 DEF Sorted
  <2>2. CASE i > Len(a)
    <3>1. i - Len(a) \in 1..Len(b) /\ j - Len(a) \in 1..Len(b) /\ i - Len(a) < j - Len(a)
          /\ c[i] = b[i - Len(a)] /\ c[j] = b[j - Len(a)]
      <4>1. i > Len(a) /\ j > Len(a) /\ i \in Nat /\ j \in Nat
        BY <1>1, <2>2
      <4>2. /\ i - Len(a) \in 1..Len(b) /\ c[i] = b[i - Len(a)]
            /\ j - Len(a) \in 1..Len(b) /\ c[j] = b[j - Len(a)]
        BY <1>1, <4>1, Zenon
      <4>3. i - Len(a) < j - Len(a)
        BY ONLY <1>1, <4>1, i < j
      <4> QED BY <4>2, <4>3, Zenon
    <3> QED BY ONLY <1>3, <3>1, Zenon DEF Sorted
  <2>3. CASE i <= Len(a) /\ j > Len(a)
    <3>1. i \in 1..Len(a) /\ c[i] = a[i] /\ j - Len(a) \in 1..Len(b) /\ c[j] = b[j - Len(a)]
      BY <1>1, <2>3
    <3>2. a[i] \in ToSet(a) /\ b[j - Len(a)] \in ToSet(b)
      <4>1. DOMAIN a = 1..Len(a) /\ DOMAIN b = 1..Len(b)
        OBVIOUS
      <4> QED BY ONLY <3>1, <4>1 DEF ToSet
    <3> QED BY ONLY <1>3, <3>1, <3>2 DEF Before
  <2> QED BY <1>1, <2>1, <2>2, <2>3
<1> QED BY <1>2, <1>3 DEF c

LEMMA Split ==
  ASSUME NEW S, NEW s \in Seq(S), NEW n \in 0..Len(s)
  PROVE  /\ SubSeq(s, 1, n) \in Seq(S) /\ SubSeq(s, n + 1, Len(s)) \in Seq(S)
         /\ SubSeq(s, 1, n) \o SubSeq(s, n + 1, Len(s)) = s
         /\ Len(SubSeq(s, n + 1, Len(s))) = Len(s) - n
<1> DEFINE a == SubSeq(s, 1, n)
           b == SubSeq(s, n + 1, Len(s))
<1>1. /\ a \in Seq(S) /\ b \in Seq(S) /\ Len(a) = n /\ Len(b) = Len(s) - n
      /\ Len(s) \in Nat /\ n \in Nat /\ \A i \in 1..n : a[i] = s[i]
      /\ \A i \in 1..(Len(s) - n) : b[i] = s[n + i]
  OBVIOUS
<1> HIDE DEF a, b
<1>2. /\ a \o b \in Seq(S) /\ Len(a \o b) = Len(s)
      /\ \A i \in 1..Len(s) : (a \o b)[i] = IF i <= n THEN a[i] ELSE b[i - n]
  BY <1>1
<1>3. \A i \in 1..Len(s) : (a \o b)[i] = s[i]
  <2> TAKE i \in 1..Len(s)
  <2>1. CASE i <= n
    BY <1>1, <1>2, <2>1
  <2>2. CASE i > n
    <3>1. i - n \in 1..(Len(s) - n) /\ n + (i - n) = i /\ ~ (i <= n)
      BY <2>2
    <3>2. (a \o b)[i] = b[i - n]
      BY <1>2, <3>1
    <3>3. b[i - n] = s[n + (i - n)]
      BY <1>1, <3>1
    <3> QED BY <3>1, <3>2, <3>3
  <2> QED BY <1>1, <2>1, <2>2
<1>4. a \o b = s
  <2> DEFINE c == a \o b
  <2>1. c \in Seq(S) /\ Len(c) = Len(s) /\ \A i \in 1..Len(s) : c[i] = s[i]
    BY <1>2, <1>3
  <2> HIDE DEF c
  <2> QED BY <2>1, SeqEqual DEF c
<1> QED BY <1>1, <1>4 DEF a, b

LEMMA Assoc ==
  ASSUME NEW S, NEW a \in Seq(S), NEW b \in Seq(S), NEW c \in Seq(S)
  PROVE  (a \o b) \o c = a \o (b \o c) /\ a \o <<>> = a /\ <<>> \o a = a
OBVIOUS

LEMMA AssocNat ==
  ASSUME NEW a \in Seq(Nat), NEW b \in Seq(Nat), NEW c \in Seq(Nat)
  PROVE  (a \o b) \o c = a \o (b \o c)
OBVIOUS

LEMMA Regroup ==
  ASSUME NEW a \in Seq(Nat), NEW b \in Seq(Nat), NEW c \in Seq(Nat), NEW d \in Seq(Nat)
  PROVE  (a \o (b \o c)) \o d = (a \o b) \o (c \o d)
<1>1. (a \o b) \o c = a \o (b \o c)
  BY AssocNat
<1> DEFINE e == a \o b
<1>2. e \in Seq(Nat)
  OBVIOUS
<1> HIDE DEF e
<1>3. (e \o c) \o d = e \o (c \o d)
  BY ONLY <1>2, c \in Seq(Nat), d \in Seq(Nat), AssocNat, Zenon
<1> QED BY <1>1, <1>3 DEF e

LEMMA PassMoves ==
  ASSUME NEW a \in Seq(Nat), NEW b \in Seq(Nat), NEW p \in Seq(Nat), NEW n \in 0..Len(p)
  PROVE  (a \o (b \o SubSeq(p, 1, n))) \o SubSeq(p, n + 1, Len(p)) = (a \o b) \o p
<1> DEFINE A == SubSeq(p, 1, n)
           B == SubSeq(p, n + 1, Len(p))
<1>1. A \in Seq(Nat) /\ B \in Seq(Nat) /\ A \o B = p
  BY Split
<1> HIDE DEF A, B
<1>2. \A c, d \in Seq(Nat) : (a \o (b \o c)) \o d = (a \o b) \o (c \o d)
  BY Regroup
<1>3. (a \o (b \o A)) \o B = (a \o b) \o (A \o B)
  BY ONLY <1>1, <1>2, Zenon
<1> QED BY <1>1, <1>3 DEF A, B

\* Counted from the other end of the shorter of two sequences.
LEMMA MirrorIndex ==
  ASSUME NEW m \in Nat, NEW n \in Nat, m <= n, NEW i \in 1..m
  PROVE  /\ (m - i) + 1 \in 1..m /\ (m - ((m - i) + 1)) + 1 = i
         /\ (n - ((m - i) + 1)) + 1 = (n - m) + i
         /\ (m - i) + 1 \in 1..n
OBVIOUS

\* A suffix, position by position.
LEMMA SuffixDef ==
  ASSUME NEW S, NEW s \in Seq(S), NEW t \in Seq(S)
  PROVE  IsSuffix(s, t) <=> /\ Len(s) <= Len(t)
                            /\ \A i \in 1..Len(s) : s[i] = t[(Len(t) - Len(s)) + i]
<1> DEFINE u == Reverse(s)
           v == Reverse(t)
<1>1. /\ u \in Seq(S) /\ Len(u) = Len(s) /\ \A i \in 1..Len(s) : u[i] = s[(Len(s) - i) + 1]
      /\ v \in Seq(S) /\ Len(v) = Len(t) /\ \A i \in 1..Len(t) : v[i] = t[(Len(t) - i) + 1]
  BY DEF Reverse
<1> HIDE DEF u, v
<1>2. IsPrefix(u, v) <=> Len(u) <= Len(v) /\ \A i \in 1..Len(u) : u[i] = v[i]
  BY <1>1 DEF IsPrefix
<1>3. ASSUME Len(s) <= Len(t), \A i \in 1..Len(s) : u[i] = v[i]
      PROVE  \A i \in 1..Len(s) : s[i] = t[(Len(t) - Len(s)) + i]
  <2> TAKE i \in 1..Len(s)
  <2>1. /\ (Len(s) - i) + 1 \in 1..Len(s) /\ (Len(s) - ((Len(s) - i) + 1)) + 1 = i
        /\ (Len(t) - ((Len(s) - i) + 1)) + 1 = (Len(t) - Len(s)) + i
        /\ (Len(s) - i) + 1 \in 1..Len(t)
    <3>1. Len(s) \in Nat /\ Len(t) \in Nat /\ i \in 1..Len(s) /\ Len(s) <= Len(t)
      BY <1>3
    <3> QED BY ONLY <3>1, MirrorIndex, Zenon
  <2> DEFINE j == (Len(s) - i) + 1
  <2>2. u[j] = s[(Len(s) - j) + 1] /\ v[j] = t[(Len(t) - j) + 1] /\ u[j] = v[j]
    BY ONLY <1>1, <1>3, <2>1, Zenon
  <2> QED BY ONLY <2>1, <2>2, Zenon
<1>4. ASSUME Len(s) <= Len(t), \A i \in 1..Len(s) : s[i] = t[(Len(t) - Len(s)) + i]
      PROVE  \A i \in 1..Len(s) : u[i] = v[i]
  <2> TAKE i \in 1..Len(s)
  <2>1. /\ (Len(s) - i) + 1 \in 1..Len(s) /\ i \in 1..Len(t)
        /\ (Len(t) - Len(s)) + ((Len(s) - i) + 1) = (Len(t) - i) + 1
    BY <1>4
  <2> QED BY <1>1, <1>4, <2>1
<1> QED BY <1>1, <1>2, <1>3, <1>4 DEF u, v, IsSuffix

LEMMA SuffixConcat ==
  ASSUME NEW S, NEW s \in Seq(S), NEW t \in Seq(S), NEW b \in Seq(S), IsSuffix(s, t)
  PROVE  IsSuffix(s \o b, t \o b)
<1> DEFINE u == s \o b
           v == t \o b
<1>1. /\ u \in Seq(S) /\ Len(u) = Len(s) + Len(b) /\ v \in Seq(S) /\ Len(v) = Len(t) + Len(b)
      /\ \A i \in 1..Len(u) : u[i] = IF i <= Len(s) THEN s[i] ELSE b[i - Len(s)]
      /\ \A i \in 1..Len(v) : v[i] = IF i <= Len(t) THEN t[i] ELSE b[i - Len(t)]
      /\ Len(s) \in Nat /\ Len(t) \in Nat /\ Len(b) \in Nat
  OBVIOUS
<1>2. Len(s) <= Len(t) /\ \A i \in 1..Len(s) : s[i] = t[(Len(t) - Len(s)) + i]
  BY SuffixDef
<1> HIDE DEF u, v
<1>3. ASSUME NEW i \in 1..Len(u) PROVE u[i] = v[(Len(v) - Len(u)) + i]
  <2>1. /\ (Len(v) - Len(u)) + i = (Len(t) - Len(s)) + i
        /\ (Len(t) - Len(s)) + i \in 1..Len(v)
        /\ ((Len(t) - Len(s)) + i) - Len(t) = i - Len(s)
    BY <1>1, <1>2
  <2>2. CASE i <= Len(s)
    <3>1. i \in 1..Len(s) /\ (Len(t) - Len(s)) + i <= Len(t)
      BY <1>1, <2>2
    <3>2. u[i] = s[i] /\ s[i] = t[(Len(t) - Len(s)) + i]
      BY <1>1, <1>2, <3>1
    <3>3. v[(Len(t) - Len(s)) + i] = t[(Len(t) - Len(s)) + i]
      BY <1>1, <2>1, <3>1
    <3> QED BY <2>1, <3>2, <3>3
  <2>3. CASE i > Len(s)
    <3>1. ~ ((Len(t) - Len(s)) + i <= Len(t)) /\ ~ (i <= Len(s))
      BY <1>1, <2>3
    <3> QED BY <1>1, <2>1, <3>1
  <2> QED BY <1>1, <2>2, <2>3
<1>4. Len(u) <= Len(v)
  BY <1>1, <1>2
<1>5. IsSuffix(u, v)
  BY <1>1, <1>3, <1>4, SuffixDef
<1> QED BY <1>5 DEF u, v

LEMMA SuffixTail ==
  ASSUME NEW S, NEW s \in Seq(S), NEW t \in Seq(S), IsSuffix(s, t), NEW n \in 0..Len(s)
  PROVE  IsSuffix(SubSeq(s, n + 1, Len(s)), t)
<1> DEFINE u == SubSeq(s, n + 1, Len(s))
<1>1. /\ u \in Seq(S) /\ Len(u) = Len(s) - n /\ \A i \in 1..Len(u) : u[i] = s[n + i]
      /\ Len(s) \in Nat /\ Len(t) \in Nat
  <2>1. Len(s) \in Nat /\ Len(t) \in Nat /\ n \in Nat /\ n <= Len(s)
    OBVIOUS
  <2>2. u \in Seq(S) /\ Len(u) = Len(s) - n
    BY ONLY s \in Seq(S), <2>1
  <2>3. \A i \in 1..(Len(s) - n) : u[i] = s[n + i]
    BY ONLY s \in Seq(S), <2>1
  <2> QED BY <2>1, <2>2, <2>3
<1>2. Len(s) <= Len(t) /\ \A i \in 1..Len(s) : s[i] = t[(Len(t) - Len(s)) + i]
  BY SuffixDef
<1> HIDE DEF u
<1>3. ASSUME NEW i \in 1..Len(u) PROVE u[i] = t[(Len(t) - Len(u)) + i]
  <2>1. n + i \in 1..Len(s) /\ (Len(t) - Len(s)) + (n + i) = (Len(t) - Len(u)) + i
    BY <1>1
  <2> QED BY <1>1, <1>2, <2>1
<1>4. Len(u) <= Len(t)
  BY <1>1, <1>2
<1>5. IsSuffix(u, t)
  BY <1>1, <1>3, <1>4, SuffixDef
<1> QED BY <1>5 DEF u

-----------------------------------------------------------------------------
(* What the device sends.                                                    *)

\* A byte that is a header has a payload length.
HeaderSane(b) == b[1] = "header" => b[3] \in 0..(MaxPayload + 1)

\* The bytes an item with header h and checksum c is made of.
Alphabet(h, c) == {<<"S">>, <<"D">>, <<"text">>, <<"newline">>, <<"OK">>, <<"+OTA:">>, h, c}

LEMMA AlphabetSane ==
  ASSUME NEW type, NEW n \in 0..(MaxPayload + 1), NEW k, NEW x, NEW S,
         S = Alphabet(Header(type, n, k), <<"crc", x>>)
  PROVE  \A b \in S : HeaderSane(b)
BY DEF Alphabet, HeaderSane, Header, MaxPayload

LEMMA FrameShape ==
  ASSUME NEW h, NEW S, NEW payload \in Seq(S), h \in S, <<"S">> \in S, <<"D">> \in S,
         <<"crc", Append(Magic, h) \o payload>> \in S
  PROVE  FrameBytes(h, payload) \in Seq(S)
<1>1. Append(Magic, h) \in Seq(S)
  <2>1. Magic \in Seq(S)
    BY DEF Magic
  <2> QED BY <2>1
<1>2. Append(Magic, h) \o payload \in Seq(S)
  BY <1>1
<1> QED BY <1>2 DEF FrameBytes

LEMMA ItemShape ==
  ASSUME NEW item \in Items, NEW k
  PROVE  \E S : Bytes(item, k) \in Seq(S) /\ \A b \in S : HeaderSane(b)
<1>1. ASSUME NEW type, NEW n \in 0..(MaxPayload + 1),
             NEW payload \in Seq({<<"text">>, <<"newline">>, <<"OK">>}),
             Bytes(item, k) = FrameBytes(Header(type, n, k), payload)
      PROVE  \E S : Bytes(item, k) \in Seq(S) /\ \A b \in S : HeaderSane(b)
  <2> DEFINE h == Header(type, n, k)
             x == Append(Magic, h) \o payload
             S == Alphabet(h, <<"crc", x>>)
  <2> HIDE DEF x
  <2>1. \A b \in S : HeaderSane(b)
    BY AlphabetSane
  <2>2. payload \in Seq(S)
    BY DEF Alphabet
  <2>3. h \in S /\ <<"S">> \in S /\ <<"D">> \in S /\ <<"crc", x>> \in S
    BY DEF Alphabet
  <2>4. FrameBytes(h, payload) \in Seq(S)
    <3> HIDE DEF S, h
    <3> QED BY <2>2, <2>3, FrameShape DEF x
  <2> QED BY <1>1, <2>1, <2>4
<1>2. ASSUME NEW n \in 0..(MaxPayload + 1), NEW type, NEW payload \in Seq({<<"text">>, <<"newline">>, <<"OK">>})
      PROVE  \E S : /\ Append(Magic, Header(type, n, k)) \in Seq(S) /\ payload \in Seq(S)
                    /\ Append(Append(Magic, Header(type, n, k)) \o payload, <<"crc", <<>> >>) \in Seq(S)
                    /\ \A b \in S : HeaderSane(b)
  <2> DEFINE h == Header(type, n, k)
             S == Alphabet(h, <<"crc", <<>> >>)
  <2>1. \A b \in S : HeaderSane(b)
    BY AlphabetSane
  <2>2. payload \in Seq(S) /\ Magic \in Seq(S)
    BY DEF Alphabet, Magic
  <2>3. h \in S /\ <<"crc", <<>> >> \in S
    BY DEF Alphabet
  <2> HIDE DEF h, S
  <2>4. Append(Magic, h) \in Seq(S)
    BY <2>2, <2>3
  <2>5. Append(Magic, h) \o payload \in Seq(S)
    BY <2>2, <2>4
  <2>6. Append(Append(Magic, h) \o payload, <<"crc", <<>> >>) \in Seq(S)
    BY <2>3, <2>5
  <2> QED BY <2>1, <2>2, <2>4, <2>6 DEF h
<1>3. /\ << <<"text">> >> \in Seq({<<"text">>, <<"newline">>, <<"OK">>})
      /\ CliText \in Seq({<<"text">>, <<"newline">>, <<"OK">>})
      /\ <<>> \in Seq({<<"text">>, <<"newline">>, <<"OK">>})
      /\ << <<"OK">>, <<"newline">> >> \in Seq({<<"text">>, <<"newline">>, <<"OK">>})
  BY DEF CliText
<1>4. 0 \in 0..(MaxPayload + 1) /\ 1 \in 0..(MaxPayload + 1) /\ 2 \in 0..(MaxPayload + 1)
      /\ 4 \in 0..(MaxPayload + 1) /\ MaxPayload + 1 \in 0..(MaxPayload + 1)
  BY DEF MaxPayload
<1>5. CASE item = "data"
  BY <1>1, <1>3, <1>4, <1>5 DEF Bytes
<1>6. CASE item = "cli"
  BY <1>1, <1>3, <1>4, <1>6 DEF Bytes
<1>7. CASE item = "unknown"
  BY <1>1, <1>3, <1>4, <1>7 DEF Bytes
<1>8. CASE item = "oversized"
  BY <1>1, <1>3, <1>4, <1>8 DEF Bytes
<1>9. CASE item = "mismatch"
  BY <1>1, <1>3, <1>4, <1>9 DEF Bytes
<1>10. CASE item = "damaged"
  BY <1>2, <1>3, <1>4, <1>10 DEF Bytes
<1>11. CASE item = "truncated"
  BY <1>2, <1>3, <1>4, <1>11 DEF Bytes
<1>12. CASE item \in {"reply", "ok", "text", "noise", "half"}
  <2> DEFINE S == {<<"S">>, <<"text">>, <<"newline">>, <<"OK">>, <<"+OTA:">>}
  <2>1. Bytes(item, k) \in Seq(S)
    <3>1. CASE item = "reply"
      BY <3>1 DEF Bytes
    <3>2. CASE item = "ok"
      BY <3>2 DEF Bytes
    <3>3. CASE item = "text"
      BY <3>3 DEF Bytes
    <3>4. CASE item = "noise"
      BY <3>4 DEF Bytes
    <3>5. CASE item = "half"
      BY <3>5 DEF Bytes, Magic
    <3> QED BY <1>12, <3>1, <3>2, <3>3, <3>4, <3>5
  <2>2. \A b \in S : HeaderSane(b)
    BY DEF HeaderSane
  <2> QED BY <2>1, <2>2
<1> QED
  BY <1>5, <1>6, <1>7, <1>8, <1>9, <1>10, <1>11, <1>12 DEF Items, Clean, Frames, Replies

\* The bytes of a stream, with their items.
Cells(s) == UNION {ToSet(Sent(s, k)) : k \in 1..Len(s)}

LEMMA SentShape ==
  ASSUME NEW s \in Seq(Items), NEW k \in 1..Len(s)
  PROVE  /\ Sent(s, k) \in Seq(Cells(s))
         /\ \A c \in ToSet(Sent(s, k)) : HeaderSane(c.byte)
<1> DEFINE b == Bytes(s[k], k)
           t == Sent(s, k)
<1>1. PICK S : b \in Seq(S) /\ \A x \in S : HeaderSane(x)
  BY ItemShape
<1>2. t = [i \in 1..Len(b) |-> [byte |-> b[i], item |-> k]]
  BY DEF Sent
<1> HIDE DEF b, t
<1>3. DOMAIN t = 1..Len(b) /\ Len(b) \in Nat /\ \A i \in 1..Len(b) : t[i].byte = b[i] /\ b[i] \in S
  BY <1>1, <1>2
<1>4. \A c \in ToSet(t) : HeaderSane(c.byte)
  BY <1>1, <1>3 DEF ToSet
<1>5. t \in Seq(ToSet(t))
  BY <1>2, <1>3 DEF ToSet
<1>6. ToSet(t) \subseteq Cells(s)
  BY DEF Cells, t
<1>7. t \in Seq(Cells(s))
  BY <1>5, <1>6
<1> QED BY <1>4, <1>7 DEF t

\* g has the stream up to each item of s.
Streams(s, g) == g = [k \in 0..Len(s) |-> IF k = 0 THEN <<>> ELSE g[k - 1] \o Sent(s, k)]

LEMMA StreamsStep ==
  ASSUME NEW s \in Seq(Items), NEW g
  PROVE  Streams(s, g) <=> /\ g = [k \in 0..Len(s) |-> g[k]] /\ g[0] = <<>>
                           /\ \A k \in 1..Len(s) : g[k] = g[k - 1] \o Sent(s, k)
<1> DEFINE E(k) == IF k = 0 THEN <<>> ELSE g[k - 1] \o Sent(s, k)
<1>1. ASSUME Streams(s, g)
      PROVE  /\ g = [k \in 0..Len(s) |-> g[k]] /\ g[0] = <<>>
             /\ \A k \in 1..Len(s) : g[k] = g[k - 1] \o Sent(s, k)
  <2>1. g = [k \in 0..Len(s) |-> E(k)]
    BY <1>1 DEF Streams
  <2>2. \A k \in 0..Len(s) : g[k] = E(k)
    BY <2>1
  <2>3. 0 \in 0..Len(s) /\ \A k \in 1..Len(s) : k \in 0..Len(s) /\ k # 0
    OBVIOUS
  <2>4. g = [k \in 0..Len(s) |-> g[k]]
    <3> HIDE DEF E
    <3> QED BY <2>1
  <2> QED BY <2>2, <2>3, <2>4
<1>2. ASSUME g = [k \in 0..Len(s) |-> g[k]], g[0] = <<>>,
             \A k \in 1..Len(s) : g[k] = g[k - 1] \o Sent(s, k)
      PROVE  Streams(s, g)
  <2>1. ASSUME NEW k \in 0..Len(s) PROVE g[k] = E(k)
    <3>1. CASE k = 0
      BY <1>2, <3>1
    <3>2. CASE k # 0
      <4>1. k \in 1..Len(s)
        BY <3>2
      <4> QED BY <1>2, <3>2, <4>1
    <3> QED BY <3>1, <3>2
  <2>2. g = [k \in 0..Len(s) |-> E(k)]
    <3> HIDE DEF E
    <3> QED BY <1>2, <2>1
  <2> QED BY <2>2 DEF Streams
<1> QED BY <1>1, <1>2

LEMMA StreamsExist ==
  ASSUME NEW s \in Seq(Items)
  PROVE  \E g : Streams(s, g)
<1> DEFINE C == Seq(Cells(s))
           Upto(m) == \E g \in [0..m -> C] : /\ g[0] = <<>>
                                             /\ \A k \in 1..m : g[k] = g[k - 1] \o Sent(s, k)
           T == {m \in 0..Len(s) : ~ Upto(m)}
<1>1. ASSUME T # {} PROVE FALSE
  <2>1. PICK m \in T : \A k \in T : m <= k
    <3>1. T \in SUBSET Nat
      OBVIOUS
    <3> HIDE DEF T
    <3> QED BY <1>1, <3>1, LeastNatural
  <2>2. m \in 0..Len(s) /\ m # 0
    <3>1. m \in 0..Len(s) /\ ~ Upto(m)
      OBVIOUS
    <3>2. Upto(0)
      <4> DEFINE g == [k \in 0..0 |-> <<>>]
      <4>1. <<>> \in C
        OBVIOUS
      <4> HIDE DEF C
      <4>2. g \in [0..0 -> C] /\ g[0] = <<>> /\ 1..0 = {}
        BY <4>1
      <4> QED BY <4>2
    <3> QED BY <3>1, <3>2
  <2>3. m - 1 \in 0..Len(s) /\ m \in 1..Len(s)
    BY <2>2
  <2>4. Upto(m - 1)
    <3>1. m - 1 \notin T
      <4> HIDE DEF T
      <4> QED BY <2>1, <2>3
    <3> QED BY <2>3, <3>1
  <2>5. PICK g \in [0..(m - 1) -> C] : /\ g[0] = <<>>
                                       /\ \A k \in 1..(m - 1) : g[k] = g[k - 1] \o Sent(s, k)
    BY <2>4
  <2>6. Sent(s, m) \in C /\ g[m - 1] \in C
    BY <2>3, <2>5, SentShape
  <2>7. g[m - 1] \o Sent(s, m) \in C
    BY <2>6
  <2> DEFINE h == [k \in 0..m |-> IF k = m THEN g[m - 1] \o Sent(s, m) ELSE g[k]]
  <2>8. h \in [0..m -> C] /\ h[0] = <<>>
    <3> HIDE DEF C
    <3> QED BY <2>3, <2>5, <2>7
  <2>9. \A k \in 1..m : h[k] = h[k - 1] \o Sent(s, k)
    <3> HIDE DEF C
    <3> TAKE k \in 1..m
    <3>1. k \in 0..m /\ k - 1 \in 0..m /\ k - 1 # m
      BY <2>3
    <3>2. CASE k = m
      BY <3>1, <3>2
    <3>3. CASE k # m
      <4>1. k \in 1..(m - 1)
        BY <2>3, <3>3
      <4> QED BY <2>5, <3>1, <3>3, <4>1
    <3> QED BY <3>2, <3>3
  <2>10. Upto(m)
    <3> HIDE DEF h, C
    <3> QED BY <2>8, <2>9
  <2> QED BY <2>1, <2>10
<1>2. Upto(Len(s))
  <2>1. Len(s) \in 0..Len(s)
    OBVIOUS
  <2> QED BY <1>1, <2>1
<1>3. PICK g \in [0..Len(s) -> C] : /\ g[0] = <<>>
                                    /\ \A k \in 1..Len(s) : g[k] = g[k - 1] \o Sent(s, k)
  BY <1>2
<1>4. g = [k \in 0..Len(s) |-> g[k]]
  <2> HIDE DEF C
  <2> QED BY <1>3
<1> QED BY <1>3, <1>4, StreamsStep

LEMMA StreamsType ==
  ASSUME NEW s \in Seq(Items), NEW g, Streams(s, g)
  PROVE  \A k \in 0..Len(s) : g[k] \in Seq(Cells(s))
<1> DEFINE C == Seq(Cells(s))
           T == {k \in 0..Len(s) : g[k] \notin C}
<1>1. ASSUME T # {} PROVE FALSE
  <2>1. PICK m \in T : \A k \in T : m <= k
    <3>1. T \in SUBSET Nat
      OBVIOUS
    <3> HIDE DEF T
    <3> QED BY <1>1, <3>1, LeastNatural
  <2>2. m \in 0..Len(s) /\ g[m] \notin C
    OBVIOUS
  <2>3. m # 0
    <3>1. <<>> \in C
      OBVIOUS
    <3> QED BY <2>2, <3>1, StreamsStep
  <2>4. m - 1 \in 0..Len(s) /\ m \in 1..Len(s)
    BY <2>2, <2>3
  <2>5. m - 1 \notin T
    <3> HIDE DEF T
    <3> QED BY <2>1, <2>4
  <2>6. g[m - 1] \in C /\ Sent(s, m) \in C
    BY <2>4, <2>5, SentShape
  <2>7. g[m] = g[m - 1] \o Sent(s, m)
    BY <2>4, StreamsStep
  <2> QED BY <2>2, <2>6, <2>7
<1> QED BY <1>1

LEMMA UpToStreams ==
  ASSUME NEW s \in Seq(Items)
  PROVE  Streams(s, UpTo(s))
<1> DEFINE upTo == CHOOSE g : Streams(s, g)
<1>1. Streams(s, upTo)
  BY StreamsExist
<1>2. UpTo(s) = upTo
  BY DEF UpTo, Streams
<1> QED BY <1>1, <1>2

LEMMA InputShape ==
  ASSUME NEW s \in Seq(Items)
  PROVE  /\ Input(s) \in Seq(Cells(s)) /\ Len(Input(s)) \in Nat
         /\ \A i \in 1..Len(Input(s)) : HeaderSane(Input(s)[i].byte)
<1>1. Len(s) \in 0..Len(s)
  OBVIOUS
<1>2. Input(s) \in Seq(Cells(s))
  BY <1>1, UpToStreams, StreamsType DEF Input
<1>3. \A c \in Cells(s) : HeaderSane(c.byte)
  BY SentShape DEF Cells
<1> QED BY <1>2, <1>3

-----------------------------------------------------------------------------
(* The state.                                                                *)

LEMMA StateFacts ==
  ASSUME IInv
  PROVE  /\ Len(input) \in Nat /\ pos \in Nat /\ pos <= Len(input) /\ Index \subseteq Nat
         /\ script \in Scripts /\ pos \in 0..Len(input) /\ since \in 0..Len(input)
         /\ pending \in Seq(Index) /\ parts \in Seq(Index) /\ buffer \in Seq(Index)
         /\ fed \in Seq(Index) /\ dropped \subseteq Index /\ arms \in 0..MaxArms
         /\ frames \in Seq(Seq(Index)) /\ lines \in Seq(Seq(Index))
         /\ pending \in Seq(Nat) /\ parts \in Seq(Nat) /\ fed \in Seq(Nat)
         /\ step \in {"read", "demux", "parse"}
         /\ \A i \in 1..Len(input) : HeaderSane(input[i].byte)
         /\ MaxLine \in Nat \ {0} /\ MaxArms \in Nat
<1>1. script \in Seq(Items) /\ input = Input(script) /\ TypeOK
  BY StreamAssumption DEF IInv, TypeOK
<1>2. Len(input) \in Nat /\ \A i \in 1..Len(input) : HeaderSane(input[i].byte)
  BY <1>1, InputShape
<1>3. Index \subseteq Nat
  BY <1>2 DEF Index
<1>4. /\ pending \in Seq(Index) /\ parts \in Seq(Index) /\ buffer \in Seq(Index)
      /\ fed \in Seq(Index) /\ dropped \subseteq Index /\ arms \in 0..MaxArms
      /\ frames \in Seq(Seq(Index)) /\ lines \in Seq(Seq(Index))
      /\ step \in {"read", "demux", "parse"}
      /\ script \in Scripts /\ pos \in 0..Len(input) /\ since \in 0..Len(input)
  BY <1>1 DEF TypeOK
<1>5. pending \in Seq(Nat) /\ parts \in Seq(Nat) /\ fed \in Seq(Nat)
  BY <1>3, <1>4, SeqMore
<1> QED BY <1>1, <1>2, <1>3, <1>4, <1>5, StreamAssumption

\* Boolean-valued variables.
Flags == armed \in BOOLEAN /\ resetting \in BOOLEAN /\ aligned \in BOOLEAN

\* What TypeOK and HoldInv say of the lengths.
Bounds ==
  /\ step # "demux" =>
       parts = <<>> /\ Len(pending) <= IF IsFramePrefix THEN MaxFrame - 1 ELSE MaxLine
  /\ step # "parse" => Len(buffer) < MaxFrame

\* What TypeOK says of the rest.
Types ==
  /\ script \in Scripts /\ pos \in 0..Len(input) /\ since \in 0..Len(input)
  /\ step \in {"read", "demux", "parse"} /\ arms \in 0..MaxArms
  /\ pending \in Seq(Index) /\ parts \in Seq(Index) /\ buffer \in Seq(Index)
  /\ frames \in Seq(Seq(Index)) /\ lines \in Seq(Seq(Index))
  /\ fed \in Seq(Index) /\ dropped \subseteq Index

LEMMA IInvParts == IInv <=> Flags /\ Bounds /\ Types /\ input = Input(script) /\ ByteInv
<1>1. IInv => Flags /\ Bounds /\ Types /\ input = Input(script) /\ ByteInv
  BY DEF IInv, TypeOK, HoldInv, Flags, Bounds, Types
<1>2. Flags /\ Bounds /\ Types /\ input = Input(script) /\ ByteInv => IInv
  BY DEF IInv, TypeOK, HoldInv, Flags, Bounds, Types
<1> QED BY <1>1, <1>2

LEMMA IInvPartsNext ==
  ASSUME Flags', Bounds', Types', input' = Input(script'), ByteInv'
  PROVE  IInv'
<1>1. (Flags /\ Bounds /\ Types /\ input = Input(script) /\ ByteInv => IInv)'
  BY IInvParts, PTL
<1> QED BY <1>1

\* What the set of the passing bytes is, and what its order means.
LEMMA PassingFacts ==
  ASSUME NEW a \in Seq(Nat), NEW b \in Seq(Nat), NEW c \in Seq(Nat)
  PROVE  /\ (a \o b) \o c \in Seq(Nat) /\ a \o b \in Seq(Nat)
         /\ ToSet((a \o b) \o c) = ToSet(a \o b) \cup ToSet(c)
         /\ Sorted((a \o b) \o c) <=>
              Sorted(a \o b) /\ Sorted(c) /\ Before(ToSet(a \o b), ToSet(c))
<1>1. a \o b \in Seq(Nat)
  OBVIOUS
<1> DEFINE d == a \o b
<1> HIDE DEF d
<1>2. d \in Seq(Nat)
  BY <1>1 DEF d
<1>3. d \o c \in Seq(Nat)
  BY <1>2
<1>4. ToSet(d \o c) = ToSet(d) \cup ToSet(c)
  BY <1>2, ToSetConcat
<1>5. Sorted(d \o c) <=> Sorted(d) /\ Sorted(c) /\ Before(ToSet(d), ToSet(c))
  BY <1>2, SortedConcat
<1> QED BY <1>2, <1>3, <1>4, <1>5 DEF d

\* A step that only moves bytes along.
LEMMA MoveKeeps ==
  ASSUME ByteInv, Passing' = Passing, UNCHANGED <<lines, dropped, pos>>, IsSuffix(buffer', fed')
  PROVE  ByteInv'
BY DEF ByteInv, Claimed

LEMMA ChunkFacts ==
  ASSUME IInv, NEW n \in Nat \ {0}, pos + n <= Len(input)
  PROVE  /\ Chunk(n) \in Seq(Index) /\ Chunk(n) \in Seq(Nat) /\ Sorted(Chunk(n))
         /\ ToSet(Chunk(n)) = (pos + 1)..(pos + n)
         /\ Before(1..pos, ToSet(Chunk(n)))
         /\ 1..(pos + n) = 1..pos \cup ToSet(Chunk(n))
<1>1. pos \in Nat /\ Len(input) \in Nat
  BY StateFacts
<1> DEFINE c == Chunk(n)
<1>2. c = [i \in 1..n |-> pos + i]
  BY DEF Chunk
<1>3. /\ c \in Seq(Index) /\ c \in Seq(Nat) /\ Len(c) = n
      /\ \A i \in 1..n : c[i] = pos + i
  BY <1>1, <1>2 DEF Index
<1> HIDE DEF c
<1>4. Sorted(c)
  BY <1>1, <1>3 DEF Sorted
<1>5. ToSet(c) = (pos + 1)..(pos + n)
  <2>1. ASSUME NEW x \in (pos + 1)..(pos + n) PROVE x \in ToSet(c)
    <3>1. x - pos \in 1..n /\ c[x - pos] = x
      BY <1>1, <1>3
    <3> QED BY <1>3, <3>1 DEF ToSet
  <2>2. ASSUME NEW x \in ToSet(c) PROVE x \in (pos + 1)..(pos + n)
    <3>1. PICK i \in 1..n : x = c[i]
      BY <1>3 DEF ToSet
    <3> QED BY <1>1, <1>3, <3>1
  <2> QED BY <2>1, <2>2
<1>6. Before(1..pos, ToSet(c)) /\ 1..(pos + n) = 1..pos \cup ToSet(c)
  BY <1>1, <1>5 DEF Before
<1> QED BY <1>3, <1>4, <1>5, <1>6 DEF c

\* A chunk arrives behind everything read before.
LEMMA ChunkKeeps ==
  ASSUME IInv, NEW n \in Nat \ {0}, pos + n <= Len(input), pos' = pos + n,
         Passing' = Passing \o Chunk(n), UNCHANGED <<lines, dropped>>, IsSuffix(buffer', fed')
  PROVE  ByteInv'
<1>1. /\ Chunk(n) \in Seq(Nat) /\ Sorted(Chunk(n)) /\ Before(1..pos, ToSet(Chunk(n)))
      /\ ToSet(Chunk(n)) = (pos + 1)..(pos + n)
      /\ 1..(pos + n) = 1..pos \cup ToSet(Chunk(n))
  BY ChunkFacts
<1>2. Passing \in Seq(Nat) /\ ByteInv
  BY StateFacts, PassingFacts DEF Passing, IInv
<1>3. ToSet(Passing) \cup Claimed \cup dropped = 1..pos /\ Sorted(Passing)
  BY <1>2 DEF ByteInv
<1>4. Claimed' = Claimed
  BY DEF Claimed
<1>5. ToSet(Passing') = ToSet(Passing) \cup ToSet(Chunk(n))
  <2>1. \A a, b \in Seq(Nat) : ToSet(a \o b) = ToSet(a) \cup ToSet(b)
    BY ToSetConcat
  <2> QED BY ONLY <1>1, <1>2, <2>1, Passing' = Passing \o Chunk(n), Zenon
<1>6. Before(ToSet(Passing), ToSet(Chunk(n)))
  BY <1>1, <1>3 DEF Before
<1>7. Sorted(Passing')
  BY <1>1, <1>2, <1>3, <1>6, SortedConcat
<1>8. (1..pos) \cap ToSet(Chunk(n)) = {}
  <2>1. pos \in Nat
    BY StateFacts
  <2> QED BY <1>1, <2>1
<1> QED BY <1>1, <1>2, <1>3, <1>4, <1>5, <1>7, <1>8 DEF ByteInv

-----------------------------------------------------------------------------
(* Reading a chunk.                                                          *)

LEMMA InitIInv == Init => IInv
<1> SUFFICES ASSUME Init PROVE IInv
  OBVIOUS
<1>1. /\ script \in Scripts /\ input = Input(script) /\ pos = 0 /\ step = "read" /\ arms = 0
      /\ pending = <<>> /\ parts = <<>> /\ lines = <<>> /\ dropped = {} /\ since = 0
      /\ buffer = <<>> /\ frames = <<>> /\ fed = <<>>
  BY DEF Init
<1>2. Len(input) \in Nat
  BY <1>1, InputShape, StreamAssumption
<1>3. Flags
  BY DEF Init, Flags
<1>4. Types
  BY <1>1, <1>2, StreamAssumption DEF Types
<1>5. Bounds
  <2>1. Len(<<>>) = 0 /\ 0 < MaxFrame /\ 0 <= MaxFrame - 1 /\ 0 <= MaxLine
    BY StreamAssumption DEF MaxFrame, HeaderSize, MaxPayload, CrcSize
  <2> QED BY <1>1, <2>1 DEF Bounds
<1>6. ByteInv
  <2>1. Passing = <<>>
    BY <1>1 DEF Passing
  <2>2. ToSet(<<>>) = {} /\ Claimed = {} /\ 1..pos = {}
    BY <1>1 DEF ToSet, Claimed
  <2>3. Sorted(<<>>)
    BY DEF Sorted
  <2>4. IsSuffix(<<>>, <<>>)
    BY DEF IsSuffix, IsPrefix, Reverse
  <2> QED BY <1>1, <2>1, <2>2, <2>3, <2>4 DEF ByteInv
<1> QED BY <1>1, <1>3, <1>4, <1>5, <1>6, IInvParts

\* A new session drops what the demultiplexer held.
LEMMA ReadResetKeeps ==
  ASSUME IInv, NEW n \in 1..MaxChunk, ReadReset(n)
  PROVE  IInv'
<1>1. /\ step = "read" /\ pos + n <= Len(input) /\ pos' = pos + n /\ pending' = Chunk(n)
      /\ dropped' = dropped \cup ToSet(pending) /\ since' = pos /\ step' = "demux"
      /\ UNCHANGED <<script, input, arms, parts, lines, buffer, frames, fed>>
  BY DEF ReadReset, Read, inputVars, parseVars
<1>2. n \in Nat \ {0}
  BY StreamAssumption
<1>3. Flags'
  <2>1. resetting' = FALSE /\ armed' = armed /\ aligned' = (aligned /\ Boundary)
    BY DEF ReadReset
  <2>2. Flags
    BY IInvParts
  <2>3. aligned' \in BOOLEAN
    BY ONLY <2>1, Zenon
  <2> QED BY <2>1, <2>2, <2>3, Zenon DEF Flags
<1>4. Types'
  <2>1. Chunk(n) \in Seq(Index) /\ Index' = Index
    BY <1>1, <1>2, ChunkFacts DEF Index
  <2>2. ToSet(pending) \subseteq Index /\ pos' \in 0..Len(input)
    <3>1. pending \in Seq(Index) /\ pos \in Nat /\ Len(input) \in Nat
      BY StateFacts
    <3>2. ToSet(pending) \subseteq Index
      BY ONLY <3>1, ToSetType, Zenon
    <3>3. pos' \in 0..Len(input)
      BY ONLY <1>1, <1>2, <3>1
    <3> QED BY <3>2, <3>3
  <2> QED BY <1>1, <2>1, <2>2, StateFacts DEF Types
<1>5. Bounds'
  BY <1>1 DEF Bounds, IInv, HoldInv
<1>6. ByteInv'
  <2> DEFINE a == fed \o parts
  <2>1. /\ a \in Seq(Nat) /\ Passing = a \o pending /\ Passing' = a \o Chunk(n)
        /\ ToSet(Passing) = ToSet(a) \cup ToSet(pending)
        /\ Sorted(Passing) <=> Sorted(a) /\ Sorted(pending) /\ Before(ToSet(a), ToSet(pending))
    <3>1. fed \in Seq(Nat) /\ parts \in Seq(Nat) /\ pending \in Seq(Nat)
      BY StateFacts
    <3>2. Passing = a \o pending /\ Passing' = a \o Chunk(n)
      BY <1>1 DEF Passing
    <3>3. /\ a \in Seq(Nat) /\ ToSet(a \o pending) = ToSet(a) \cup ToSet(pending)
          /\ Sorted(a \o pending) <=> Sorted(a) /\ Sorted(pending) /\ Before(ToSet(a), ToSet(pending))
      BY ONLY <3>1, PassingFacts
    <3> QED BY <3>2, <3>3, Zenon
  <2>2. /\ Chunk(n) \in Seq(Nat) /\ Sorted(Chunk(n)) /\ ToSet(Chunk(n)) = (pos + 1)..(pos + n)
        /\ Before(1..pos, ToSet(Chunk(n))) /\ 1..(pos + n) = 1..pos \cup ToSet(Chunk(n))
    BY <1>1, <1>2, ChunkFacts
  <2> HIDE DEF a
  <2>3. /\ Sorted(Passing) /\ ToSet(Passing) \cup Claimed \cup dropped = 1..pos
        /\ ToSet(Passing) \cap Claimed = {} /\ ToSet(Passing) \cap dropped = {}
        /\ Claimed \cap dropped = {} /\ IsSuffix(buffer, fed)
    BY DEF IInv, ByteInv
  <2>4. Claimed' = Claimed
    BY <1>1 DEF Claimed
  <2>5. ToSet(Passing') = ToSet(a) \cup ToSet(Chunk(n))
    <3>1. a \in Seq(Nat) /\ Chunk(n) \in Seq(Nat)
      BY <2>1, <2>2
    <3>2. ToSet(a \o Chunk(n)) = ToSet(a) \cup ToSet(Chunk(n))
      BY ONLY <3>1, ToSetConcat
    <3> QED BY <2>1, <3>2
  <2>6. Before(ToSet(a), ToSet(Chunk(n)))
    BY <2>1, <2>2, <2>3 DEF Before
  <2>7. Sorted(Passing')
    BY <2>1, <2>2, <2>3, <2>6, SortedConcat
  <2>8. (1..pos) \cap ToSet(Chunk(n)) = {}
    <3>1. pos \in Nat
      BY StateFacts
    <3> QED BY <2>2, <3>1
  <2>9. ToSet(a) \cap ToSet(pending) = {}
    <3>1. ToSet(a) \subseteq Nat
      BY <2>1, ToSetType
    <3> QED BY <2>1, <2>3, <3>1 DEF Before
  <2>10. ToSet(Passing') \cap Claimed = {} /\ ToSet(Passing') \cap dropped' = {} /\ Claimed \cap dropped' = {}
    BY <1>1, <2>1, <2>3, <2>5, <2>8, <2>9
  <2>11. ToSet(Passing') \cup Claimed \cup dropped' = 1..pos'
    BY <1>1, <2>1, <2>2, <2>3, <2>5
  <2> QED BY <1>1, <2>3, <2>4, <2>7, <2>10, <2>11 DEF ByteInv
<1>7. input' = Input(script')
  BY <1>1 DEF IInv
<1> QED BY <1>3, <1>4, <1>5, <1>6, <1>7, IInvPartsNext

LEMMA ReadArmedKeeps ==
  ASSUME IInv, NEW n \in 1..MaxChunk, ReadArmed(n)
  PROVE  IInv'
<1>1. /\ step = "read" /\ pos + n <= Len(input) /\ pos' = pos + n /\ step' = "demux"
      /\ pending' = pending \o Chunk(n)
      /\ UNCHANGED <<script, input, arms, parts, lines, buffer, frames, fed, dropped, since>>
  BY DEF ReadArmed, Read, inputVars, parseVars, otaVars
<1>2. n \in Nat \ {0}
  BY StreamAssumption
<1>3. Flags'
  <2>1. UNCHANGED <<armed, resetting, aligned>>
    BY DEF ReadArmed, otaVars
  <2> QED BY <2>1, IInvParts DEF Flags
<1>4. Chunk(n) \in Seq(Index) /\ Chunk(n) \in Seq(Nat) /\ Index' = Index
  BY <1>1, <1>2, ChunkFacts DEF Index
<1>5. Types'
  <2>1. pending \o Chunk(n) \in Seq(Index)
    BY <1>4, StateFacts
  <2>2. pos' \in 0..Len(input)
    <3>1. pos \in Nat /\ Len(input) \in Nat
      BY StateFacts
    <3> QED BY ONLY <1>1, <1>2, <3>1
  <2> QED BY <1>1, <1>4, <2>1, <2>2, StateFacts DEF Types
<1>6. Bounds'
  BY <1>1 DEF Bounds, IInv, HoldInv
<1>7. ByteInv'
  <2>1. Passing' = Passing \o Chunk(n)
    <3>1. fed \o parts \in Seq(Nat) /\ pending \in Seq(Nat)
      BY StateFacts, PassingFacts
    <3>2. (fed \o parts) \o (pending \o Chunk(n)) = ((fed \o parts) \o pending) \o Chunk(n)
      <4> DEFINE a == fed \o parts
      <4>1. a \in Seq(Nat)
        BY <3>1
      <4> HIDE DEF a
      <4>2. a \o (pending \o Chunk(n)) = (a \o pending) \o Chunk(n)
        <5>1. pending \in Seq(Nat) /\ Chunk(n) \in Seq(Nat)
          BY <1>4, <3>1
        <5> QED BY ONLY <4>1, <5>1, AssocNat, Zenon
      <4> QED BY <4>2 DEF a
    <3> QED BY <1>1, <3>2 DEF Passing
  <2>2. IsSuffix(buffer', fed')
    BY <1>1 DEF IInv, ByteInv
  <2> QED BY <1>1, <1>2, <2>1, <2>2, ChunkKeeps
<1>8. input' = Input(script')
  BY <1>1 DEF IInv
<1> QED BY <1>3, <1>5, <1>6, <1>7, <1>8, IInvPartsNext

\* Without a session the residue of the last one goes to the parser first.
LEMMA ReadPlainKeeps ==
  ASSUME IInv, NEW n \in 1..MaxChunk, ReadPlain(n)
  PROVE  IInv'
<1> DEFINE new == pending \o Chunk(n)
<1>1. /\ step = "read" /\ pos + n <= Len(input) /\ pos' = pos + n /\ step' = "parse"
      /\ pending' = <<>> /\ buffer' = buffer \o new /\ fed' = fed \o new
      /\ UNCHANGED <<script, input, arms, parts, lines, frames, dropped, since>>
  BY DEF ReadPlain, Read, Feed, inputVars, otaVars
<1>2. n \in Nat \ {0}
  BY StreamAssumption
<1>3. Flags'
  <2>1. UNCHANGED <<armed, resetting, aligned>>
    BY DEF ReadPlain, otaVars
  <2> QED BY <2>1, IInvParts DEF Flags
<1>4. Chunk(n) \in Seq(Index) /\ Chunk(n) \in Seq(Nat) /\ Index' = Index
  BY <1>1, <1>2, ChunkFacts DEF Index
<1>5. new \in Seq(Index)
  BY <1>4, StateFacts
<1>6. Types'
  <2>1. buffer \o new \in Seq(Index) /\ fed \o new \in Seq(Index) /\ <<>> \in Seq(Index)
    <3> HIDE DEF new
    <3> QED BY <1>5, StateFacts
  <2>2. pos' \in 0..Len(input)
    <3>1. pos \in Nat /\ Len(input) \in Nat
      BY StateFacts
    <3> QED BY ONLY <1>1, <1>2, <3>1
  <2> HIDE DEF new
  <2> QED BY <1>1, <1>4, <2>1, <2>2, StateFacts DEF Types
<1>7. parts = <<>> /\ parts' = <<>>
  BY <1>1 DEF IInv, HoldInv
<1>8. Bounds'
  <2>1. Len(<<>>) = 0 /\ 0 <= MaxFrame - 1 /\ 0 <= MaxLine
    BY StreamAssumption DEF MaxFrame, HeaderSize, MaxPayload, CrcSize
  <2> QED BY <1>1, <1>7, <2>1 DEF Bounds
<1>9. ByteInv'
  <2>1. Passing' = Passing \o Chunk(n)
    <3>1. fed \in Seq(Nat) /\ pending \in Seq(Nat) /\ new \in Seq(Nat)
      BY <1>5, StateFacts, SeqMore
    <3>2. Passing = fed \o pending
      BY <1>7, <3>1, Assoc DEF Passing
    <3>3. fed \o new \in Seq(Nat)
      <4> HIDE DEF new
      <4> QED BY <3>1
    <3>4. Passing' = fed \o new
      <4> HIDE DEF new
      <4> QED BY <1>1, <1>7, <3>3, Assoc DEF Passing
    <3>5. (fed \o pending) \o Chunk(n) = fed \o new
      BY ONLY <1>4, <3>1, AssocNat, Zenon
    <3> QED BY <3>2, <3>4, <3>5
  <2>2. IsSuffix(buffer', fed')
    <3> HIDE DEF new
    <3> QED BY <1>1, <1>5, StateFacts, SuffixConcat DEF IInv, ByteInv
  <2> QED BY <1>1, <1>2, <2>1, <2>2, ChunkKeeps
<1>10. input' = Input(script')
  BY <1>1 DEF IInv
<1> QED BY <1>3, <1>6, <1>8, <1>9, <1>10, IInvPartsNext

-----------------------------------------------------------------------------
(* The demultiplexer.                                                        *)

\* A header that fits gives the size of its frame.
LEMMA SizeFits ==
  ASSUME IInv, NEW s \in Seq(Index), HeaderSize <= Len(s), LengthsFit(At(s, 3))
  PROVE  FrameSize(At(s, 3)) \in (HeaderSize + CrcSize)..MaxFrame
<1> DEFINE h == At(s, 3)
<1>1. s[3] \in Index
  BY DEF HeaderSize
<1>2. HeaderSane(h)
  BY <1>1, StateFacts DEF At, Index
<1> HIDE DEF h
<1>3. h[3] \in 0..MaxPayload
  BY <1>2 DEF h, LengthsFit, HeaderSane, MaxPayload
<1> QED
  BY <1>3 DEF h, FrameSize, MaxFrame, HeaderSize, CrcSize, MaxPayload

\* What a step of the scan leaves alone.
LEMMA ScanFacts ==
  ASSUME IInv, Scanning, pending' \in Seq(Index), parts' \in Seq(Index), lines' \in Seq(Seq(Index))
  PROVE  /\ Flags' /\ Types' /\ Bounds' /\ input' = Input(script')
         /\ UNCHANGED <<pos, dropped, buffer, fed>>
<1>1. /\ step = "demux" /\ step' = "demux"
      /\ UNCHANGED <<script, input, pos, arms, dropped, since, buffer, frames, fed>>
  BY DEF Scanning, inputVars, otaVars, parseVars
<1>2. Flags'
  <2>1. UNCHANGED <<armed, resetting, aligned>>
    BY DEF Scanning, otaVars
  <2> QED BY <2>1, IInvParts DEF Flags
<1>3. Types'
  <2>1. Index' = Index
    BY <1>1 DEF Index
  <2> QED BY <1>1, <2>1, StateFacts DEF Types
<1>4. Bounds'
  BY <1>1 DEF Bounds, IInv, HoldInv
<1>5. input' = Input(script')
  BY <1>1 DEF IInv
<1> QED BY <1>1, <1>2, <1>3, <1>4, <1>5

LEMMA PassKeeps ==
  ASSUME IInv, Scanning, NEW n \in 0..Len(pending), Pass(n)
  PROVE  IInv'
<1> DEFINE A == SubSeq(pending, 1, n)
           B == SubSeq(pending, n + 1, Len(pending))
<1>1. parts' = parts \o A /\ pending' = B /\ lines' = lines
  BY DEF Pass
<1>2. A \in Seq(Index) /\ B \in Seq(Index) /\ A \o B = pending
  BY StateFacts, Split
<1> HIDE DEF A, B
<1>3. parts \o A \in Seq(Index)
  BY <1>2, StateFacts
<1>4. /\ Flags' /\ Types' /\ Bounds' /\ input' = Input(script')
      /\ UNCHANGED <<pos, dropped, buffer, fed>>
  BY <1>1, <1>2, <1>3, StateFacts, ScanFacts
<1>5. Passing' = Passing
  <2>1. fed \in Seq(Nat) /\ parts \in Seq(Nat) /\ pending \in Seq(Nat)
    BY StateFacts
  <2>2. (fed \o (parts \o A)) \o B = (fed \o parts) \o pending
    <3>1. \A p \in Seq(Nat) : \A k \in 0..Len(p) :
            (fed \o (parts \o SubSeq(p, 1, k))) \o SubSeq(p, k + 1, Len(p)) = (fed \o parts) \o p
      BY ONLY <2>1, PassMoves, Zenon
    <3> QED BY ONLY <2>1, <3>1, n \in 0..Len(pending), Zenon DEF A, B
  <2> QED BY <1>1, <1>4, <2>2 DEF Passing
<1>6. ByteInv'
  BY <1>1, <1>4, <1>5, MoveKeeps DEF IInv, ByteInv
<1> QED BY <1>4, <1>6, IInvPartsNext

\* A reply line leaves the bytes that pass.
LEMMA LineKeeps ==
  ASSUME IInv, Scanning, NEW n \in 0..Len(pending), lines' = Append(lines, SubSeq(pending, 1, n)),
         pending' = SubSeq(pending, n + 1, Len(pending)), UNCHANGED parts
  PROVE  IInv'
<1> DEFINE A == SubSeq(pending, 1, n)
           B == SubSeq(pending, n + 1, Len(pending))
           a == fed \o parts
<1>1. A \in Seq(Index) /\ B \in Seq(Index) /\ A \o B = pending
  BY StateFacts, Split
<1>2. lines' = Append(lines, A) /\ pending' = B
  OBVIOUS
<1> HIDE DEF A, B
<1>3. Append(lines, A) \in Seq(Seq(Index))
  BY <1>1, StateFacts
<1>4. /\ Flags' /\ Types' /\ Bounds' /\ input' = Input(script')
      /\ UNCHANGED <<pos, dropped, buffer, fed>>
  BY <1>1, <1>2, <1>3, StateFacts, ScanFacts
<1>5. A \in Seq(Nat) /\ B \in Seq(Nat)
  BY <1>1, StateFacts, SeqMore
<1>6. /\ a \in Seq(Nat) /\ Passing = a \o pending /\ Passing' = a \o B
      /\ ToSet(Passing) = ToSet(a) \cup ToSet(pending)
      /\ Sorted(Passing) <=> Sorted(a) /\ Sorted(pending) /\ Before(ToSet(a), ToSet(pending))
      /\ ToSet(a \o B) = ToSet(a) \cup ToSet(B)
      /\ Sorted(a \o B) <=> Sorted(a) /\ Sorted(B) /\ Before(ToSet(a), ToSet(B))
  <2>1. fed \in Seq(Nat) /\ parts \in Seq(Nat) /\ pending \in Seq(Nat)
    BY StateFacts
  <2>2. /\ a \in Seq(Nat) /\ ToSet(a \o B) = ToSet(a) \cup ToSet(B)
        /\ Sorted(a \o B) <=> Sorted(a) /\ Sorted(B) /\ Before(ToSet(a), ToSet(B))
    BY <1>5, <2>1, PassingFacts
  <2>3. /\ ToSet(a \o pending) = ToSet(a) \cup ToSet(pending)
        /\ Sorted(a \o pending) <=> Sorted(a) /\ Sorted(pending) /\ Before(ToSet(a), ToSet(pending))
    BY <2>1, PassingFacts
  <2>4. Passing = a \o pending /\ Passing' = a \o B
    BY <1>2, <1>4 DEF Passing
  <2> HIDE DEF a
  <2> QED BY <2>2, <2>3, <2>4
<1>7. /\ ToSet(pending) = ToSet(A) \cup ToSet(B)
      /\ Sorted(pending) <=> Sorted(A) /\ Sorted(B) /\ Before(ToSet(A), ToSet(B))
  <2>1. /\ ToSet(A \o B) = ToSet(A) \cup ToSet(B)
        /\ Sorted(A \o B) <=> Sorted(A) /\ Sorted(B) /\ Before(ToSet(A), ToSet(B))
    BY <1>5, ToSetConcat, SortedConcat
  <2> QED BY <1>1, <2>1
<1> HIDE DEF a
<1>8. Claimed' = Claimed \cup ToSet(A)
  <2>1. lines \in Seq(Seq(Index))
    BY StateFacts
  <2>2. /\ Len(lines') = Len(lines) + 1 /\ Len(lines) \in Nat /\ lines'[Len(lines) + 1] = A
        /\ \A i \in 1..Len(lines) : lines'[i] = lines[i]
    BY <1>1, <1>2, <2>1
  <2>3. \A i : i \in 1..(Len(lines) + 1) <=> i \in 1..Len(lines) \/ i = Len(lines) + 1
    BY <2>2
  <2>4. Claimed' = UNION {ToSet(lines'[i]) : i \in 1..(Len(lines) + 1)}
    BY <2>2 DEF Claimed
  <2>5. ASSUME NEW x PROVE x \in Claimed' <=> x \in Claimed \cup ToSet(A)
    <3>1. x \in Claimed' <=> \E i \in 1..(Len(lines) + 1) : x \in ToSet(lines'[i])
      BY <2>4
    <3>2. x \in Claimed <=> \E i \in 1..Len(lines) : x \in ToSet(lines[i])
      BY DEF Claimed
    <3> QED BY <2>2, <2>3, <3>1, <3>2
  <2> QED BY <2>5
<1>9. /\ Sorted(Passing) /\ ToSet(Passing) \cup Claimed \cup dropped = 1..pos
      /\ ToSet(Passing) \cap Claimed = {} /\ ToSet(Passing) \cap dropped = {}
      /\ Claimed \cap dropped = {} /\ IsSuffix(buffer, fed)
  BY DEF IInv, ByteInv
<1>10. ToSet(A) \cap ToSet(B) = {} /\ ToSet(a) \cap ToSet(A) = {}
  <2>1. ToSet(A) \subseteq Nat /\ ToSet(a) \subseteq Nat /\ ToSet(B) \subseteq Nat
    BY <1>5, <1>6, ToSetType
  <2> QED BY <1>6, <1>7, <1>9, <2>1 DEF Before
<1>11. Sorted(Passing')
  BY <1>6, <1>7, <1>9 DEF Before
<1>12. ToSet(Passing') = ToSet(a) \cup ToSet(B)
  BY <1>6
<1>13. ToSet(Passing') \cup Claimed' \cup dropped' = 1..pos'
  BY <1>4, <1>6, <1>7, <1>8, <1>9, <1>12
<1>14. /\ ToSet(Passing') \cap Claimed' = {} /\ ToSet(Passing') \cap dropped' = {}
       /\ Claimed' \cap dropped' = {}
  BY <1>4, <1>6, <1>7, <1>8, <1>9, <1>10, <1>12
<1>15. ByteInv'
  BY <1>4, <1>9, <1>11, <1>13, <1>14 DEF ByteInv
<1> QED BY <1>4, <1>15, IInvPartsNext

LEMMA DemuxScanKeeps ==
  ASSUME IInv, DemuxFrame \/ DemuxResync \/ DemuxLine
  PROVE  IInv'
<1>0. pending \in Seq(Index) /\ Len(pending) \in Nat
  BY StateFacts
<1>1. CASE DemuxFrame
  <2>1. /\ Scanning /\ Len(pending) >= HeaderSize /\ LengthsFit(At(pending, 3))
        /\ Len(pending) >= FrameSize(At(pending, 3)) /\ Pass(FrameSize(At(pending, 3)))
    BY <1>1 DEF DemuxFrame
  <2>2. FrameSize(At(pending, 3)) \in 0..Len(pending)
    <3>1. FrameSize(At(pending, 3)) \in (HeaderSize + CrcSize)..MaxFrame
      BY <1>0, <2>1, SizeFits DEF HeaderSize
    <3> QED BY <1>0, <2>1, <3>1 DEF HeaderSize, CrcSize, MaxFrame, MaxPayload
  <2> QED BY <2>1, <2>2, PassKeeps
<1>2. CASE DemuxResync
  <2>1. Scanning /\ Pass(1) /\ 1 \in 0..Len(pending)
    BY <1>0, <1>2 DEF DemuxResync, HeaderSize
  <2> QED BY <2>1, PassKeeps
<1>3. CASE DemuxLine
  <2> DEFINE n == Min(Newlines)
  <2>1. n \in 0..Len(pending)
    <3>1. Newlines \subseteq 1..Len(pending) /\ Newlines # {}
      BY <1>3 DEF DemuxLine, Newlines
    <3>2. Newlines \in SUBSET Nat
      BY <1>0, <3>1
    <3>3. n \in Newlines
      BY <3>1, <3>2, MinIsMember
    <3> HIDE DEF n
    <3>4. n \in 1..Len(pending)
      BY <3>1, <3>3
    <3> QED BY <1>0, <3>4
  <2> HIDE DEF n
  <2>2. \/ Scanning /\ Pass(n)
        \/ /\ Scanning /\ lines' = Append(lines, SubSeq(pending, 1, n))
           /\ pending' = SubSeq(pending, n + 1, Len(pending)) /\ UNCHANGED parts
    BY <1>3 DEF DemuxLine, n
  <2> QED BY <2>1, <2>2, PassKeeps, LineKeeps
<1> QED BY <1>1, <1>2, <1>3

\* The scan ends: what it passed on is fed, and a line that is too long with it.
LEMMA HoldKeeps ==
  ASSUME IInv, DemuxHold
  PROVE  IInv'
<1> DEFINE new == parts \o Residue
<1>1. /\ step = "demux" /\ buffer' = buffer \o new /\ fed' = fed \o new /\ parts' = <<>>
      /\ pending' = (IF Residue = <<>> THEN pending ELSE <<>>)
      /\ step' = (IF new = <<>> THEN "read" ELSE "parse")
      /\ UNCHANGED <<script, input, pos, arms, frames, lines, dropped, since>>
  BY DEF DemuxHold, Feed, inputVars, otaVars
<1>2. Flags'
  <2>1. UNCHANGED <<armed, resetting, aligned>>
    BY DEF DemuxHold, otaVars
  <2> QED BY <2>1, IInvParts DEF Flags
<1>3. input' = Input(script')
  BY <1>1 DEF IInv
<1>4. Residue = pending \/ Residue = <<>>
  BY DEF Residue
<1>5. Residue \in Seq(Index) /\ Residue \in Seq(Nat)
  <2>1. <<>> \in Seq(Index) /\ <<>> \in Seq(Nat)
    OBVIOUS
  <2> QED BY <1>4, <2>1, StateFacts
<1>6. new \in Seq(Index) /\ new \in Seq(Nat)
  BY <1>5, StateFacts
<1>7. Types'
  <2> HIDE DEF new
  <2>1. buffer \o new \in Seq(Index) /\ fed \o new \in Seq(Index) /\ <<>> \in Seq(Index)
    BY <1>6, StateFacts
  <2>2. pending' \in Seq(Index) /\ step' \in {"read", "demux", "parse"} /\ Index' = Index
    BY <1>1, <2>1, StateFacts DEF Index
  <2> QED BY <1>1, <2>1, <2>2, StateFacts DEF Types
<1>8. Bounds'
  <2> HIDE DEF new
  <2>1. Len(<<>>) = 0 /\ 0 <= MaxFrame - 1 /\ 0 <= MaxLine /\ MaxFrame = 8 /\ HeaderSize = 3
    BY StreamAssumption DEF MaxFrame, HeaderSize, MaxPayload, CrcSize
  <2>2. Len(pending') <= IF IsFramePrefix' THEN MaxFrame - 1 ELSE MaxLine
    <3>1. CASE Residue # <<>>
      <4>1. pending' = <<>>
        BY <1>1, <3>1
      <4> QED BY <2>1, <4>1
    <3>2. CASE Residue = <<>>
      <4>0. pending \in Seq(Index) /\ Len(pending) \in Nat
        BY StateFacts
      <4>1. pending' = pending /\ IsFramePrefix' = IsFramePrefix
        BY <1>1, <3>2 DEF IsFramePrefix, StartsFrame, MagicAt, At
      <4>2. CASE StartsFrame
        <5>1. Len(pending) >= HeaderSize =>
                LengthsFit(At(pending, 3)) /\ Len(pending) < FrameSize(At(pending, 3))
          BY <4>2 DEF DemuxHold
        <5>2. Len(pending) <= MaxFrame - 1
          <6>1. CASE Len(pending) >= HeaderSize
            <7>1. FrameSize(At(pending, 3)) \in (HeaderSize + CrcSize)..MaxFrame
              BY <2>1, <4>0, <5>1, <6>1, SizeFits
            <7> QED BY <2>1, <4>0, <5>1, <6>1, <7>1 DEF CrcSize
          <6>2. CASE ~ (Len(pending) >= HeaderSize)
            BY <2>1, <4>0, <6>2
          <6> QED BY <6>1, <6>2
        <5> QED BY <4>1, <4>2, <5>2 DEF IsFramePrefix
      <4>3. CASE ~ StartsFrame /\ IsFramePrefix
        <5>1. Len(pending) = 1
          BY <4>3 DEF IsFramePrefix
        <5> QED BY <2>1, <4>1, <4>3, <5>1
      <4>4. CASE ~ IsFramePrefix
        <5>1. Len(pending) <= MaxLine
          <6>1. CASE Len(pending) > MaxLine
            <7>1. pending = <<>>
              BY <3>2, <4>4, <6>1 DEF Residue
            <7> QED BY <2>1, <7>1
          <6> QED BY <4>0, <6>1, StreamAssumption
        <5> QED BY <4>1, <4>4, <5>1
      <4> QED BY <4>2, <4>3, <4>4
    <3> QED BY <3>1, <3>2
  <2>3. ASSUME step' # "parse" PROVE Len(buffer') < MaxFrame
    <3>1. new = <<>>
      BY <1>1, <2>3
    <3>2. buffer' = buffer
      BY <1>1, <3>1, StateFacts
    <3> QED BY <1>1, <3>2 DEF IInv, HoldInv
  <2> QED BY <1>1, <2>2, <2>3 DEF Bounds
<1>9. ByteInv'
  <2>1. IsSuffix(buffer', fed')
    <3> HIDE DEF new
    <3> QED BY <1>1, <1>6, StateFacts, SuffixConcat DEF IInv, ByteInv
  <2>2. Passing' = Passing
    <3>0. fed \in Seq(Nat) /\ parts \in Seq(Nat) /\ pending \in Seq(Nat) /\ <<>> \in Seq(Nat)
      BY StateFacts
    <3>1. fed' \in Seq(Nat)
      <4> HIDE DEF new
      <4> QED BY <1>1, <1>6, <3>0
    <3>2. CASE Residue # <<>>
      <4>1. Residue = pending /\ pending' = <<>>
        BY <1>1, <1>4, <3>2
      <4>2. Passing' = fed'
        <5>1. fed' \o <<>> = fed'
          BY <3>1
        <5> QED BY <1>1, <4>1, <5>1 DEF Passing
      <4>3. (fed \o parts) \o pending = fed \o (parts \o pending)
        BY <3>0, AssocNat
      <4> QED BY <1>1, <4>1, <4>2, <4>3 DEF Passing
    <3>3. CASE Residue = <<>>
      <4>1. new = parts /\ pending' = pending
        BY <1>1, <3>0, <3>3
      <4>2. fed' \o <<>> = fed'
        BY <3>1
      <4> QED BY <1>1, <4>1, <4>2 DEF Passing
    <3> QED BY <3>2, <3>3
  <2> QED BY <1>1, <2>1, <2>2, MoveKeeps DEF IInv
<1> QED BY <1>2, <1>3, <1>7, <1>8, <1>9, IInvPartsNext

-----------------------------------------------------------------------------
(* The parser.                                                               *)

\* The parser only drops bytes from the front of its buffer.
LEMMA ParserFacts ==
  ASSUME IInv, Parsing, NEW n \in 0..Len(buffer), Advance(n), frames' \in Seq(Seq(Index)),
         \/ step' = "parse"
         \/ step' = "read" /\ Len(buffer') < MaxFrame
  PROVE  IInv'
<1>1. /\ step = "parse" /\ UNCHANGED <<script, input, pos, arms, pending, parts, lines, dropped, since, fed>>
  BY DEF Parsing, inputVars, otaVars, demuxVars
<1>2. Flags'
  <2>1. UNCHANGED <<armed, resetting, aligned>>
    BY DEF Parsing, otaVars, demuxVars
  <2> QED BY <2>1, IInvParts DEF Flags
<1>3. input' = Input(script')
  BY <1>1 DEF IInv
<1>4. buffer' \in Seq(Index)
  BY StateFacts, Split DEF Advance
<1>5. Types'
  <2>1. Index' = Index /\ step' \in {"read", "demux", "parse"}
    BY <1>1 DEF Index
  <2> QED BY <1>1, <1>4, <2>1, StateFacts DEF Types
<1>6. Bounds'
  <2>1. IsFramePrefix' = IsFramePrefix
    BY <1>1 DEF IsFramePrefix, StartsFrame, MagicAt, At
  <2>2. parts = <<>> /\ Len(pending) <= IF IsFramePrefix THEN MaxFrame - 1 ELSE MaxLine
    BY <1>1 DEF IInv, HoldInv
  <2> QED BY <1>1, <2>1, <2>2 DEF Bounds
<1>7. ByteInv'
  <2>1. IsSuffix(buffer', fed)
    BY StateFacts, SuffixTail DEF IInv, ByteInv, Advance
  <2>2. Passing' = Passing
    BY <1>1 DEF Passing
  <2> QED BY <1>1, <2>1, <2>2, MoveKeeps DEF IInv
<1> QED BY <1>2, <1>3, <1>5, <1>6, <1>7, IInvPartsNext

LEMMA ParserKeeps ==
  ASSUME IInv, Parser
  PROVE  IInv'
<1>0. /\ buffer \in Seq(Index) /\ Len(buffer) \in Nat /\ frames \in Seq(Seq(Index))
      /\ MaxFrame = 8 /\ HeaderSize = 3 /\ CrcSize = 1
  BY StateFacts DEF MaxFrame, HeaderSize, CrcSize, MaxPayload
<1>1. Parsing /\ step = "parse"
  BY DEF Parser, ParserSkip, ParserNoMagic, ParserWait, ParserInvalid, ParserCrcError,
         ParserFrame, AtMagic, Parsing
<1>2. CASE ParserSkip
  <2> DEFINE m == Min(Magics)
  <2>1. Magics \subseteq 1..Len(buffer) /\ Magics # {}
    BY <1>2 DEF ParserSkip, Magics
  <2>2. m \in Magics
    <3>1. Magics \in SUBSET Nat
      BY <1>0, <2>1
    <3> QED BY <2>1, <3>1, MinIsMember
  <2>3. Advance(m - 1) /\ step' = step /\ frames' = frames
    BY <1>2 DEF ParserSkip
  <2> HIDE DEF m
  <2>4. m - 1 \in 0..Len(buffer)
    <3>1. m \in 1..Len(buffer)
      BY <2>1, <2>2
    <3> QED BY <1>0, <3>1
  <2> QED BY <1>0, <1>1, <2>3, <2>4, ParserFacts
<1>3. CASE ParserNoMagic
  <2> DEFINE m == Max({0, Len(buffer) - (Len(Magic) - 1)})
  <2>1. Advance(m) /\ step' = "read" /\ frames' = frames
    BY <1>3 DEF ParserNoMagic
  <2>2. m \in 0..Len(buffer) /\ Len(buffer) - m <= 1
    <3>1. Len(Magic) = 2
      BY DEF Magic
    <3>2. Len(buffer) - (Len(Magic) - 1) = Len(buffer) - 1
      BY <1>0, <3>1
    <3>3. m = Max({0, Len(buffer) - 1})
      BY <3>2
    <3> HIDE DEF m
    <3>4. m \in {0, Len(buffer) - 1} /\ \A y \in {0, Len(buffer) - 1} : m >= y
      <4>1. \E x \in {0, Len(buffer) - 1} : \A y \in {0, Len(buffer) - 1} : x >= y
        <5>1. CASE Len(buffer) = 0
          BY <5>1
        <5>2. CASE Len(buffer) # 0
          BY <1>0, <5>2
        <5> QED BY <5>1, <5>2
      <4> QED BY <3>3, <4>1 DEF Max
    <3> QED BY <1>0, <3>4
  <2> HIDE DEF m
  <2>3. Len(buffer') < MaxFrame
    BY <1>0, <2>1, <2>2, Split DEF Advance
  <2> QED BY <1>0, <1>1, <2>1, <2>2, <2>3, ParserFacts
<1>4. CASE ParserWait
  <2>1. /\ step' = "read" /\ buffer' = buffer /\ frames' = frames
        /\ Len(buffer) >= HeaderSize => LengthsFit(At(buffer, 3)) /\ ~ (Len(buffer) >= FrameSize(At(buffer, 3)))
    BY <1>4 DEF ParserWait, HeaderFit, Whole
  <2>2. Len(buffer) < MaxFrame
    <3>1. CASE Len(buffer) >= HeaderSize
      <4>1. FrameSize(At(buffer, 3)) \in (HeaderSize + CrcSize)..MaxFrame
        BY <1>0, <2>1, <3>1, SizeFits
      <4> QED BY <1>0, <2>1, <3>1, <4>1
    <3>2. CASE ~ (Len(buffer) >= HeaderSize)
      BY <1>0, <3>2
    <3> QED BY <3>1, <3>2
  <2>3. Advance(0) /\ 0 \in 0..Len(buffer)
    <3>1. SubSeq(buffer, 0 + 1, Len(buffer)) = buffer
      BY <1>0
    <3> QED BY <1>0, <2>1, <3>1 DEF Advance
  <2> QED BY <1>0, <1>1, <2>1, <2>2, <2>3, ParserFacts
<1>5. CASE ParserInvalid \/ ParserCrcError
  <2>1. Advance(1) /\ step' = step /\ frames' = frames /\ 1 \in 0..Len(buffer)
    BY <1>0, <1>5 DEF ParserInvalid, ParserCrcError
  <2> QED BY <1>0, <1>1, <2>1, ParserFacts
<1>6. CASE ParserFrame
  <2> DEFINE n == FrameSize(At(buffer, 3))
  <2>1. /\ Len(buffer) >= HeaderSize /\ LengthsFit(At(buffer, 3)) /\ Len(buffer) >= n
        /\ Advance(Len(Candidate)) /\ step' = step
        /\ frames' = IF At(buffer, 3)[2] \in Frames THEN Append(frames, Candidate) ELSE frames
    BY <1>6 DEF ParserFrame, HeaderFit, Whole
  <2>2. n \in (HeaderSize + CrcSize)..MaxFrame
    BY <1>0, <2>1, SizeFits
  <2>3. Candidate = SubSeq(buffer, 1, n)
    BY DEF Candidate
  <2> HIDE DEF n
  <2>4. n \in 0..Len(buffer)
    BY <1>0, <2>1, <2>2
  <2>5. Candidate \in Seq(Index) /\ Len(Candidate) = n
    BY <1>0, <2>3, <2>4
  <2>6. frames' \in Seq(Seq(Index))
    BY <1>0, <2>1, <2>5
  <2> QED BY <1>1, <2>1, <2>4, <2>5, <2>6, ParserFacts
<1> QED BY <1>2, <1>3, <1>4, <1>5, <1>6 DEF Parser

-----------------------------------------------------------------------------
(* The inductive invariant.                                                   *)

LEMMA NextIInv == IInv /\ [Next]_vars => IInv'
<1> SUFFICES ASSUME IInv, [Next]_vars PROVE IInv'
  OBVIOUS
<1>1. CASE StartOta \/ EndOta
  <2>1. /\ UNCHANGED <<script, input, pos, step, pending, parts, lines, dropped, since, aligned,
                       buffer, frames, fed>>
        /\ arms' \in 0..MaxArms
    BY <1>1, StateFacts DEF StartOta, EndOta, inputVars, demuxVars, parseVars
  <2>2. Flags'
    <3>1. armed' \in BOOLEAN /\ resetting' \in BOOLEAN
      BY <1>1 DEF StartOta, EndOta
    <3> QED BY <2>1, <3>1, IInvParts DEF Flags
  <2>3. Types'
    BY <2>1, StateFacts DEF Types, Index
  <2>4. Bounds'
    <3>1. IsFramePrefix' = IsFramePrefix
      BY <2>1 DEF IsFramePrefix, StartsFrame, MagicAt, At
    <3> QED BY <2>1, <3>1 DEF Bounds, IInv, HoldInv
  <2>5. ByteInv'
    <3>1. Passing' = Passing /\ IsSuffix(buffer', fed')
      BY <2>1 DEF Passing, IInv, ByteInv
    <3> QED BY <2>1, <3>1, MoveKeeps DEF IInv
  <2>6. input' = Input(script')
    BY <2>1 DEF IInv
  <2> QED BY <2>2, <2>3, <2>4, <2>5, <2>6, IInvPartsNext
<1>2. ASSUME NEW n \in 1..MaxChunk, ReadReset(n) \/ ReadArmed(n) \/ ReadPlain(n) PROVE IInv'
  BY <1>2, ReadResetKeeps, ReadArmedKeeps, ReadPlainKeeps
<1>3. CASE Demux
  BY <1>3, DemuxScanKeeps, HoldKeeps DEF Demux
<1>4. CASE Parser
  BY <1>4, ParserKeeps
<1>5. CASE UNCHANGED vars
  <2>1. UNCHANGED <<script, input, pos, step, armed, resetting, arms, pending, parts, lines, dropped,
                    since, aligned, buffer, frames, fed>>
    BY <1>5 DEF vars, inputVars, otaVars, demuxVars, parseVars
  <2>2. Index' = Index /\ IsFramePrefix' = IsFramePrefix /\ Passing' = Passing /\ Claimed' = Claimed
    BY <2>1 DEF Passing, Claimed, Index, IsFramePrefix, StartsFrame, MagicAt, At
  <2>3. Flags' /\ input' = Input(script')
    BY <2>1, IInvParts DEF Flags
  <2>4. Types'
    BY <2>1, <2>2, IInvParts DEF Types
  <2>5. Bounds'
    BY <2>1, <2>2, IInvParts DEF Bounds
  <2>6. ByteInv'
    BY <2>1, <2>2, IInvParts DEF ByteInv
  <2> QED BY <2>3, <2>4, <2>5, <2>6, IInvPartsNext
<1> QED BY <1>1, <1>2, <1>3, <1>4, <1>5 DEF Next

-----------------------------------------------------------------------------
(* Where the items of a stream lie.                                          *)

LEMMA ConcatAt ==
  ASSUME NEW S, NEW a \in Seq(S), NEW b \in Seq(S)
  PROVE  /\ a \o b \in Seq(S) /\ Len(a \o b) = Len(a) + Len(b) /\ Len(a) \in Nat /\ Len(b) \in Nat
         /\ \A i \in 1..(Len(a) + Len(b)) : (a \o b)[i] = IF i <= Len(a) THEN a[i] ELSE b[i - Len(a)]
OBVIOUS

LEMMA AppendAt ==
  ASSUME NEW S, NEW a \in Seq(S), NEW x \in S
  PROVE  /\ Append(a, x) \in Seq(S) /\ Len(Append(a, x)) = Len(a) + 1 /\ Len(a) \in Nat
         /\ Append(a, x)[Len(a) + 1] = x /\ \A i \in 1..Len(a) : Append(a, x)[i] = a[i]
OBVIOUS

\* The first n elements of b.
Leading(b, n) == [i \in 1..n |-> b[i]]

\* The bytes of a frame, one by one.
FrameAt(b, h, payload, crc) ==
  /\ Len(b) = Len(payload) + 4 /\ Len(payload) \in Nat
  /\ b[1] = <<"S">> /\ b[2] = <<"D">> /\ b[3] = h
  /\ \A i \in 1..Len(payload) : b[3 + i] = payload[i]
  /\ b[Len(payload) + 4] = crc

LEMMA WrappedAt ==
  ASSUME NEW h, NEW crc, NEW S, NEW payload \in Seq(S)
  PROVE  /\ FrameAt(Append(Append(Magic, h) \o payload, crc), h, payload, crc)
         /\ Append(Magic, h) \o payload =
              Leading(Append(Append(Magic, h) \o payload, crc), Len(payload) + 3)
<1> DEFINE n == Len(payload)
           m == Append(Magic, h)
           c == m \o payload
           b == Append(c, crc)
           T == {<<"S">>, <<"D">>, h, crc} \cup S
<1>1. n \in Nat
  OBVIOUS
<1>2. /\ Len(m) = 3 /\ m[1] = <<"S">> /\ m[2] = <<"D">> /\ m[3] = h /\ m \in Seq({<<"S">>, <<"D">>, h})
  BY DEF Magic
<1>3. m \in Seq(T) /\ payload \in Seq(T) /\ crc \in T
  <2>1. {<<"S">>, <<"D">>, h} \subseteq T /\ S \subseteq T /\ crc \in T
    OBVIOUS
  <2> HIDE DEF T, m
  <2> QED BY <1>2, <2>1, SeqMore DEF m
<1> HIDE DEF m, T
<1>4. /\ c \in Seq(T) /\ Len(c) = Len(m) + n
      /\ \A i \in 1..(Len(m) + n) : c[i] = IF i <= Len(m) THEN m[i] ELSE payload[i - Len(m)]
  BY ONLY <1>3, ConcatAt, Zenon
<1> HIDE DEF c
<1>5. /\ Len(b) = Len(c) + 1 /\ b[Len(c) + 1] = crc /\ \A i \in 1..Len(c) : b[i] = c[i]
  <2>1. c \in Seq(T) /\ crc \in T
    BY <1>3, <1>4
  <2> QED BY ONLY <2>1, AppendAt
<1> HIDE DEF n, b
<1>6. Len(c) = n + 3 /\ Len(b) = n + 4 /\ b[n + 4] = crc /\ Len(m) = 3
  <2>1. Len(c) = n + 3 /\ Len(c) + 1 = n + 4
    BY ONLY <1>1, <1>2, <1>4
  <2> QED BY ONLY <1>2, <1>5, <2>1
<1>7. c = Leading(b, n + 3)
  <2>1. c = [i \in 1..(n + 3) |-> c[i]]
    BY ONLY <1>1, <1>4, <1>6
  <2> QED BY ONLY <1>5, <1>6, <2>1 DEF Leading
<1>8. b[1] = <<"S">> /\ b[2] = <<"D">> /\ b[3] = h
  <2>1. \A i \in 1..3 : i \in 1..(3 + n) /\ i \in 1..(n + 3) /\ i <= 3
    BY ONLY <1>1
  <2>2. \A i \in 1..3 : b[i] = m[i]
    BY ONLY <1>4, <1>5, <1>6, <2>1
  <2> QED BY ONLY <1>2, <2>2
<1>9. \A i \in 1..n : b[3 + i] = payload[i]
  <2> TAKE i \in 1..n
  <2>1. 3 + i \in 1..(n + 3) /\ 3 + i \in 1..(3 + n) /\ ~ (3 + i <= 3) /\ (3 + i) - 3 = i
    BY ONLY <1>1, i \in 1..n
  <2> QED BY ONLY <1>4, <1>5, <1>6, <2>1
<1>10. FrameAt(b, h, payload, crc)
  BY ONLY <1>1, <1>6, <1>8, <1>9, Zenon DEF FrameAt, n
<1> QED BY <1>7, <1>10 DEF n, b, c, m

LEMMA FrameBytesAt ==
  ASSUME NEW h, NEW S, NEW payload \in Seq(S)
  PROVE  LET b == FrameBytes(h, payload)
         IN FrameAt(b, h, payload, <<"crc", Leading(b, Len(payload) + 3)>>)
<1> DEFINE c == Append(Magic, h) \o payload
           crc == <<"crc", c>>
           b == Append(c, crc)
<1>1. FrameBytes(h, payload) = b
  BY DEF FrameBytes
<1>2. FrameAt(b, h, payload, crc) /\ c = Leading(b, Len(payload) + 3)
  <2>1. \A x : /\ FrameAt(Append(c, x), h, payload, x)
              /\ c = Leading(Append(c, x), Len(payload) + 3)
    BY WrappedAt, Zenon
  <2> HIDE DEF c, crc
  <2> QED BY ONLY <2>1
<1> HIDE DEF b, c
<1> QED BY <1>1, <1>2 DEF crc

\* What a payload is made of.
Payloads == Seq({<<"text">>, <<"newline">>, <<"OK">>})

LEMMA PayloadTags ==
  /\ \A p \in Payloads, i \in Nat : i \in 1..Len(p) => p[i][1] \in {"text", "newline", "OK"}
  /\ << <<"text">> >> \in Payloads /\ Len(<< <<"text">> >>) = 1
  /\ CliText \in Payloads /\ Len(CliText) = 4
  /\ <<>> \in Payloads /\ Len(<<>>) = 0
  /\ << <<"OK">>, <<"newline">> >> \in Payloads /\ Len(<< <<"OK">>, <<"newline">> >>) = 2
<1>1. ASSUME NEW p \in Payloads, NEW i \in 1..Len(p) PROVE p[i][1] \in {"text", "newline", "OK"}
  <2>1. p[i] \in {<<"text">>, <<"newline">>, <<"OK">>}
    BY DEF Payloads
  <2> QED BY <2>1
<1> QED BY <1>1 DEF Payloads, CliText

\* What tells the bytes of an item apart: the magic only starts it, a header names it,
\* and a checksum of something ends it and is that of the rest.
ItemSane(b, item, k) ==
  /\ Len(b) \in Nat \ {0}
  /\ \A j \in 1..Len(b) :
       /\ b[j][1] = "S" => j = 1
       /\ b[j][1] = "header" => j = 3 /\ b[j][4] = k
       /\ b[j][1] = "crc" => \/ b[j] = <<"crc", <<>> >>
                             \/ /\ j = Len(b) /\ b[j] = <<"crc", Leading(b, Len(b) - 1)>>
                                /\ Len(b) \in Nat /\ 4 <= Len(b)
                                /\ \/ item \in Frames \cup {"unknown"}
                                   \/ b[3][2] = "mismatch" \/ ~ (b[3][3] <= MaxPayload)

LEMMA FrameItemSane ==
  ASSUME NEW type, NEW n, NEW k, NEW payload \in Payloads, NEW item,
         item \in Frames \cup {"unknown"} \/ type = "mismatch" \/ ~ (n <= MaxPayload),
         NEW b, b = FrameBytes(Header(type, n, k), payload)
  PROVE  ItemSane(b, item, k)
<1> DEFINE m == Len(payload)
<1>1. /\ Len(b) = m + 4 /\ m \in Nat
      /\ b[1] = <<"S">> /\ b[2] = <<"D">> /\ b[3] = Header(type, n, k)
      /\ \A i \in 1..m : b[3 + i] = payload[i]
      /\ b[m + 4] = <<"crc", Leading(b, m + 3)>>
  <2>1. FrameAt(b, Header(type, n, k), payload, <<"crc", Leading(b, m + 3)>>)
    BY FrameBytesAt, Zenon DEF Payloads
  <2> QED BY ONLY <2>1, Zenon DEF FrameAt, m
<1>2. /\ b[1][1] = "S" /\ b[2][1] = "D" /\ b[3][1] = "header" /\ b[3][2] = type
      /\ b[3][3] = n /\ b[3][4] = k
  <2>1. /\ Header(type, n, k)[1] = "header" /\ Header(type, n, k)[2] = type
        /\ Header(type, n, k)[3] = n /\ Header(type, n, k)[4] = k
    BY ONLY TRUE DEF Header
  <2>2. <<"S">>[1] = "S" /\ <<"D">>[1] = "D"
    OBVIOUS
  <2> QED BY ONLY <1>1, <2>1, <2>2, Zenon
<1>3. b[m + 4][1] = "crc"
  BY <1>1
<1>4. ASSUME NEW i \in 1..m PROVE b[3 + i][1] \in {"text", "newline", "OK"}
  <2>1. i \in Nat
    BY <1>1
  <2> QED BY <1>1, <2>1, PayloadTags
<1>5. Len(b) - 1 = m + 3
  BY <1>1
<1> HIDE DEF m
<1>6. ASSUME NEW j \in 1..Len(b)
      PROVE  j = 1 \/ j = 2 \/ j = 3 \/ (\E i \in 1..m : j = 3 + i) \/ j = m + 4
  <2>1. CASE j > 3 /\ j < m + 4
    <3>1. j - 3 \in 1..m /\ j = 3 + (j - 3)
      BY <1>1, <2>1
    <3> QED BY <3>1
  <2> QED BY <1>1, <2>1
<1>7. b[m + 4] = <<"crc", Leading(b, Len(b) - 1)>>
  BY <1>1, <1>5
<1>8. ASSUME NEW j \in 1..Len(b)
      PROVE  /\ b[j][1] = "S" => j = 1
             /\ b[j][1] = "header" => j = 3
             /\ b[j][1] = "crc" => j = m + 4
  BY <1>2, <1>3, <1>4, <1>6
<1>9. 4 <= Len(b) /\ Len(b) = m + 4 /\ Len(b) \in Nat \ {0}
  BY <1>1
<1> QED BY <1>2, <1>7, <1>8, <1>9, Zenon DEF ItemSane

\* A short text.
LEMMA TextItemSane ==
  ASSUME NEW k, NEW item, NEW b, Len(b) \in Nat \ {0},
         \A j \in 1..Len(b) : b[j][1] = "S" => j = 1,
         \A j \in 1..Len(b) : b[j][1] # "header" /\ b[j][1] # "crc"
  PROVE  ItemSane(b, item, k)
BY Zenon DEF ItemSane

LEMMA ItemsSane ==
  ASSUME NEW item \in Items, NEW k
  PROVE  ItemSane(Bytes(item, k), item, k)
<1> DEFINE b == Bytes(item, k)
<1>1. CASE item = "data"
  <2>1. b = FrameBytes(Header("data", 1, k), << <<"text">> >>)
    BY <1>1 DEF Bytes
  <2> HIDE DEF b
  <2> QED BY <1>1, <2>1, PayloadTags, FrameItemSane DEF b, Frames
<1>2. CASE item = "cli"
  <2>1. b = FrameBytes(Header("cli", 4, k), CliText)
    BY <1>2 DEF Bytes
  <2> HIDE DEF b
  <2> QED BY <1>2, <2>1, PayloadTags, FrameItemSane DEF b, Frames
<1>3. CASE item = "unknown"
  <2>1. b = FrameBytes(Header("unknown", 0, k), <<>>)
    BY <1>3 DEF Bytes
  <2> HIDE DEF b
  <2> QED BY <1>3, <2>1, PayloadTags, FrameItemSane DEF b, Frames
<1>4. CASE item = "oversized"
  <2>1. b = FrameBytes(Header("data", MaxPayload + 1, k), << <<"text">> >>)
    BY <1>4 DEF Bytes
  <2>2. ~ (MaxPayload + 1 <= MaxPayload)
    BY DEF MaxPayload
  <2> HIDE DEF b
  <2> QED BY <1>4, <2>1, <2>2, PayloadTags, FrameItemSane DEF b
<1>5. CASE item = "mismatch"
  <2>1. b = FrameBytes(Header("mismatch", 2, k), << <<"OK">>, <<"newline">> >>)
    BY <1>5 DEF Bytes
  <2> HIDE DEF b
  <2> QED BY <1>5, <2>1, PayloadTags, FrameItemSane DEF b
<1>6. CASE item = "damaged"
  <2>1. b = Append(Append(Magic, Header("cli", 4, k)) \o CliText, <<"crc", <<>> >>)
    BY <1>6 DEF Bytes
  <2> HIDE DEF b
  <2>2. /\ Len(b) = 8 /\ b[1] = <<"S">> /\ b[2] = <<"D">> /\ b[3] = Header("cli", 4, k)
        /\ \A i \in 1..4 : b[3 + i] = CliText[i]
        /\ b[8] = <<"crc", <<>> >>
    <3>1. 4 = Len(CliText) /\ CliText \in Seq({<<"text">>, <<"newline">>, <<"OK">>})
      BY PayloadTags DEF Payloads
    <3> DEFINE h == Header("cli", 4, k)
               crc == <<"crc", <<>> >>
    <3> HIDE DEF h, crc
    <3>2. FrameAt(b, h, CliText, crc)
      <4>1. FrameAt(Append(Append(Magic, h) \o CliText, crc), h, CliText, crc)
        BY ONLY <3>1, WrappedAt, Zenon
      <4>2. b = Append(Append(Magic, h) \o CliText, crc)
        BY ONLY <2>1 DEF h, crc
      <4> QED BY ONLY <4>1, <4>2
    <3>3. Len(CliText) + 4 = 8
      <4>1. 4 + 4 = 8
        OBVIOUS
      <4> QED BY ONLY <3>1, <4>1, Zenon
    <3>4. \A i \in 1..4 : i \in 1..Len(CliText)
      BY <3>1
    <3>5. Len(b) = 8 /\ b[1] = <<"S">> /\ b[2] = <<"D">> /\ b[3] = h /\ b[8] = crc
      BY ONLY <3>2, <3>3 DEF FrameAt
    <3>6. \A i \in 1..4 : b[3 + i] = CliText[i]
      BY ONLY <3>2, <3>4, Zenon DEF FrameAt
    <3> QED BY ONLY <3>5, <3>6 DEF h, crc
  <2>3. b[1][1] = "S" /\ b[2][1] = "D" /\ b[3][1] = "header" /\ b[3][4] = k /\ b[8][1] = "crc"
    BY <2>2 DEF Header
  <2>4. \A i \in 1..4 : b[3 + i][1] \in {"text", "newline", "OK"}
    <3>1. CliText \in Payloads /\ \A i \in 1..4 : i \in Nat /\ i \in 1..Len(CliText)
      BY PayloadTags
    <3> QED BY ONLY <2>2, <3>1, PayloadTags, Zenon
  <2>5. ASSUME NEW j \in 1..8
        PROVE  /\ b[j][1] = "S" => j = 1
               /\ b[j][1] = "header" => j = 3 /\ b[j][4] = k
               /\ b[j][1] = "crc" => b[j] = <<"crc", <<>> >>
    <3>1. j = 1 \/ j = 2 \/ j = 3 \/ (\E i \in 1..4 : j = 3 + i) \/ j = 8
      <4>1. CASE j > 3 /\ j < 8
        <5>1. j - 3 \in 1..4 /\ j = 3 + (j - 3)
          BY <4>1
        <5> QED BY <5>1
      <4> QED BY <4>1
    <3> QED BY <2>2, <2>3, <2>4, <3>1
  <2>6. 8 \in Nat \ {0}
    OBVIOUS
  <2>7. ItemSane(b, item, k)
    BY <2>2, <2>5, <2>6, Zenon DEF ItemSane
  <2> QED BY <2>7 DEF b
<1>7. CASE item = "truncated"
  <2>1. b = Append(Magic, Header("data", 2, k))
    BY <1>7 DEF Bytes
  <2>2. /\ Len(b) = 3 /\ b[1][1] = "S" /\ b[2][1] = "D" /\ b[3][1] = "header" /\ b[3][4] = k
    BY <2>1 DEF Magic, Header
  <2> HIDE DEF b
  <2>3. ASSUME NEW j \in 1..3
        PROVE  /\ b[j][1] = "S" => j = 1
               /\ b[j][1] = "header" => j = 3 /\ b[j][4] = k
               /\ b[j][1] # "crc"
    BY <2>2
  <2>4. 3 \in Nat \ {0}
    OBVIOUS
  <2>5. ItemSane(b, item, k)
    BY <2>2, <2>3, <2>4, Zenon DEF ItemSane
  <2> QED BY <2>5 DEF b
<1>8. CASE item \in {"reply", "ok", "text", "noise"}
  <2>1. /\ Len(b) = 2
        /\ b[1][1] \in {"+OTA:", "OK", "text"} /\ b[2][1] \in {"newline", "text"}
    BY <1>8 DEF Bytes
  <2> HIDE DEF b
  <2>2. Len(b) \in Nat \ {0} /\ \A j \in 1..Len(b) : b[j][1] \notin {"S", "header", "crc"}
    BY <2>1
  <2>3. ItemSane(b, item, k)
    BY <2>2, TextItemSane
  <2> QED BY <2>3 DEF b
<1>9. CASE item = "half"
  <2>1. Len(b) = 1 /\ b[1][1] = "S"
    BY <1>9 DEF Bytes, Magic
  <2> HIDE DEF b
  <2>2. ItemSane(b, item, k)
    BY <2>1, TextItemSane
  <2> QED BY <2>2 DEF b
<1> QED
  BY <1>1, <1>2, <1>3, <1>4, <1>5, <1>6, <1>7, <1>8, <1>9 DEF Items, Clean, Frames, Replies

\* A frame that is intact has its own type, length and checksum.
IntactAt(b, item, k) ==
  /\ Len(b) \in 4..MaxFrame /\ b[1] = <<"S">> /\ b[2] = <<"D">>
  /\ b[3] = Header(item, Len(b) - 4, k)
  /\ b[Len(b)] = <<"crc", Leading(b, Len(b) - 1)>>

LEMMA IntactShape ==
  ASSUME NEW type, NEW k, NEW payload \in Payloads, Len(payload) \in 0..MaxPayload,
         NEW b, b = FrameBytes(Header(type, Len(payload), k), payload)
  PROVE  IntactAt(b, type, k)
<1> DEFINE m == Len(payload)
<1>1. FrameAt(b, Header(type, m, k), payload, <<"crc", Leading(b, m + 3)>>)
  BY FrameBytesAt, Zenon DEF Payloads
<1>2. /\ Len(b) = m + 4 /\ m \in Nat /\ b[1] = <<"S">> /\ b[2] = <<"D">>
      /\ b[3] = Header(type, m, k) /\ b[m + 4] = <<"crc", Leading(b, m + 3)>>
  BY ONLY <1>1, Zenon DEF FrameAt, m
<1>3. m \in 0..4
  BY DEF MaxPayload
<1> HIDE DEF m
<1>4. Len(b) \in 4..MaxFrame /\ Len(b) - 4 = m /\ Len(b) - 1 = m + 3
  BY ONLY <1>2, <1>3 DEF MaxFrame, HeaderSize, CrcSize, MaxPayload
<1> QED BY ONLY <1>2, <1>4, Zenon DEF IntactAt

LEMMA IntactItems ==
  ASSUME NEW item \in Frames \cup {"unknown"}, NEW k
  PROVE  IntactAt(Bytes(item, k), item, k)
<1>1. 0 \in 0..MaxPayload /\ 1 \in 0..MaxPayload /\ 4 \in 0..MaxPayload
  BY DEF MaxPayload
<1>2. CASE item = "data"
  <2>1. Bytes(item, k) = FrameBytes(Header("data", 1, k), << <<"text">> >>)
    BY <1>2 DEF Bytes
  <2> QED BY ONLY <1>1, <1>2, <2>1, PayloadTags, IntactShape, Zenon
<1>3. CASE item = "cli"
  <2>1. Bytes(item, k) = FrameBytes(Header("cli", 4, k), CliText)
    BY <1>3 DEF Bytes
  <2> QED BY ONLY <1>1, <1>3, <2>1, PayloadTags, IntactShape, Zenon
<1>4. CASE item = "unknown"
  <2>1. Bytes(item, k) = FrameBytes(Header("unknown", 0, k), <<>>)
    BY <1>4 DEF Bytes
  <2> QED BY ONLY <1>1, <1>4, <2>1, PayloadTags, IntactShape, Zenon
<1> QED BY <1>2, <1>3, <1>4 DEF Frames

\* A line is two bytes: what it says and the newline.
LEMMA LineItems ==
  ASSUME NEW item \in Replies \cup {"text"}, NEW k
  PROVE  LET b == Bytes(item, k) IN
         /\ Len(b) = 2 /\ b[1] # <<"S">> /\ b[1] # <<"newline">> /\ b[2] = <<"newline">>
         /\ item \in Replies <=> b[1] = <<"+OTA:">> \/ b[1] = <<"OK">>
<1>1. CASE item = "reply"
  BY <1>1 DEF Bytes, Replies
<1>2. CASE item = "ok"
  BY <1>2 DEF Bytes, Replies
<1>3. CASE item = "text"
  BY <1>3 DEF Bytes, Replies
<1> QED BY <1>1, <1>2, <1>3 DEF Replies

\* The items of a stream, one behind the other.
Lie(s, g) ==
  /\ g[0] = <<>>
  /\ \A k \in 0..Len(s) : Len(g[k]) \in Nat
  /\ \A k \in 1..Len(s) : LET b == Bytes(s[k], k) IN
       /\ Len(b) \in Nat \ {0} /\ Len(g[k]) = Len(g[k - 1]) + Len(b)
       /\ \A i \in 1..Len(g[k - 1]) : g[k][i] = g[k - 1][i]
       /\ \A j \in 1..Len(b) : g[k][Len(g[k - 1]) + j] = [byte |-> b[j], item |-> k]

LEMMA ItemsLie ==
  ASSUME NEW s \in Seq(Items)
  PROVE  Lie(s, UpTo(s))
<1> DEFINE g == UpTo(s)
<1>1. Streams(s, g)
  BY UpToStreams
<1> HIDE DEF g
<1>2. g[0] = <<>> /\ \A k \in 1..Len(s) : g[k] = g[k - 1] \o Sent(s, k)
  BY <1>1, StreamsStep
<1>3. \A k \in 0..Len(s) : g[k] \in Seq(Cells(s))
  BY <1>1, StreamsType
<1>4. \A k \in 0..Len(s) : Len(g[k]) \in Nat
  BY <1>3
<1>5. ASSUME NEW k \in 1..Len(s)
      PROVE  LET b == Bytes(s[k], k) IN
             /\ Len(b) \in Nat \ {0} /\ Len(g[k]) = Len(g[k - 1]) + Len(b)
             /\ \A i \in 1..Len(g[k - 1]) : g[k][i] = g[k - 1][i]
             /\ \A j \in 1..Len(b) : g[k][Len(g[k - 1]) + j] = [byte |-> b[j], item |-> k]
  <2> DEFINE b == Bytes(s[k], k)
             a == g[k - 1]
             t == Sent(s, k)
             C == Cells(s)
  <2>1. Len(b) \in Nat \ {0}
    BY ItemsSane DEF ItemSane
  <2>2. t = [j \in 1..Len(b) |-> [byte |-> b[j], item |-> k]]
    BY DEF Sent
  <2>3. t \in Seq(C) /\ k - 1 \in 0..Len(s)
    BY SentShape
  <2>4. a \in Seq(C) /\ g[k] = a \o t
    BY <1>2, <1>3, <2>3
  <2> HIDE DEF b, t, a, C
  <2>5. Len(t) = Len(b) /\ \A j \in 1..Len(b) : t[j] = [byte |-> b[j], item |-> k]
    BY <2>1, <2>2
  <2>6. /\ Len(a \o t) = Len(a) + Len(t) /\ Len(a) \in Nat /\ Len(t) \in Nat
        /\ \A i \in 1..(Len(a) + Len(t)) : (a \o t)[i] = IF i <= Len(a) THEN a[i] ELSE t[i - Len(a)]
    BY ONLY <2>3, <2>4, ConcatAt, Zenon
  <2>7. \A i \in 1..Len(a) : g[k][i] = a[i]
    <3> TAKE i \in 1..Len(a)
    <3>1. i \in 1..(Len(a) + Len(t)) /\ i <= Len(a)
      BY ONLY <2>6, i \in 1..Len(a)
    <3> QED BY ONLY <2>4, <2>6, <3>1
  <2>8. \A j \in 1..Len(b) : g[k][Len(a) + j] = [byte |-> b[j], item |-> k]
    <3> TAKE j \in 1..Len(b)
    <3>1. Len(a) + j \in 1..(Len(a) + Len(t)) /\ ~ (Len(a) + j <= Len(a)) /\ (Len(a) + j) - Len(a) = j
      BY ONLY <2>1, <2>5, <2>6, j \in 1..Len(b)
    <3>2. g[k][Len(a) + j] = t[j]
      BY ONLY <2>4, <2>6, <3>1
    <3> QED BY ONLY <2>5, <3>2, Zenon
  <2>9. Len(g[k]) = Len(a) + Len(b)
    BY ONLY <2>4, <2>5, <2>6
  <2> QED BY ONLY <2>1, <2>7, <2>8, <2>9, Zenon DEF a, b
<1>6. Lie(s, g)
  BY ONLY <1>2, <1>4, <1>5, Zenon DEF Lie
<1> QED BY <1>6 DEF g

\* What has arrived stays where it is.
LEMMA StreamGrows ==
  ASSUME NEW s \in Seq(Items), NEW g, Lie(s, g), NEW k \in 0..Len(s)
  PROVE  \A m \in k..Len(s) : /\ Len(g[k]) <= Len(g[m])
                              /\ \A i \in 1..Len(g[k]) : g[m][i] = g[k][i]
<1> DEFINE Kept(m) == Len(g[k]) <= Len(g[m]) /\ \A i \in 1..Len(g[k]) : g[m][i] = g[k][i]
           T == {m \in k..Len(s) : ~ Kept(m)}
<1>0. Len(s) \in Nat /\ k \in Nat /\ \A m \in 0..Len(s) : Len(g[m]) \in Nat
  BY DEF Lie
<1>1. ASSUME T # {} PROVE FALSE
  <2>1. PICK m \in T : \A j \in T : m <= j
    <3>1. T \in SUBSET Nat
      BY <1>0
    <3> HIDE DEF T
    <3> QED BY <1>1, <3>1, LeastNatural
  <2>2. m \in k..Len(s) /\ ~ Kept(m)
    OBVIOUS
  <2>3. m # k
    <3>1. Kept(k)
      BY <1>0
    <3> HIDE DEF Kept
    <3> QED BY <2>2, <3>1
  <2>4. m - 1 \in k..Len(s) /\ m - 1 \in 0..Len(s) /\ m \in 1..Len(s) /\ ~ (m <= m - 1)
    BY <1>0, <2>2, <2>3
  <2>5. Kept(m - 1)
    <3>1. m - 1 \notin T
      <4> HIDE DEF T
      <4> QED BY <2>1, <2>4
    <3> HIDE DEF Kept
    <3> QED BY <2>4, <3>1
  <2> DEFINE b == Bytes(s[m], m)
  <2>6. /\ Len(b) \in Nat /\ Len(g[m]) = Len(g[m - 1]) + Len(b)
        /\ \A i \in 1..Len(g[m - 1]) : g[m][i] = g[m - 1][i]
    BY <2>4 DEF Lie
  <2> HIDE DEF b
  <2>7. Len(g[m - 1]) \in Nat /\ Len(g[k]) \in Nat
    BY <1>0, <2>4
  <2>8. Len(g[k]) <= Len(g[m])
    BY ONLY <2>5, <2>6, <2>7
  <2>9. \A i \in 1..Len(g[k]) : g[m][i] = g[k][i]
    <3> TAKE i \in 1..Len(g[k])
    <3>1. i \in 1..Len(g[m - 1])
      BY ONLY <2>5, <2>7, i \in 1..Len(g[k])
    <3> QED BY ONLY <2>5, <2>6, <3>1, i \in 1..Len(g[k]), Zenon
  <2> QED BY <2>2, <2>8, <2>9
<1> QED BY <1>1

\* Every byte is one of an item.
LEMMA StreamCovered ==
  ASSUME NEW s \in Seq(Items), NEW g, Lie(s, g)
  PROVE  \A m \in 0..Len(s) : \A i \in 1..Len(g[m]) :
           \E k \in 1..Len(s) : \E j \in 1..Len(Bytes(s[k], k)) : i = Len(g[k - 1]) + j
<1> DEFINE Item(i) == \E k \in 1..Len(s) : \E j \in 1..Len(Bytes(s[k], k)) : i = Len(g[k - 1]) + j
           Covered(m) == \A i \in 1..Len(g[m]) : Item(i)
           T == {m \in 0..Len(s) : ~ Covered(m)}
<1>0. Len(s) \in Nat /\ \A m \in 0..Len(s) : Len(g[m]) \in Nat
  BY DEF Lie
<1>1. ASSUME T # {} PROVE FALSE
  <2>1. PICK m \in T : \A j \in T : m <= j
    <3>1. T \in SUBSET Nat
      BY <1>0
    <3> HIDE DEF T
    <3> QED BY <1>1, <3>1, LeastNatural
  <2>2. m \in 0..Len(s) /\ ~ Covered(m)
    OBVIOUS
  <2>3. m # 0
    <3>1. Len(g[0]) = 0
      BY DEF Lie
    <3>2. Covered(0)
      BY <3>1
    <3> HIDE DEF Covered
    <3> QED BY <2>2, <3>2
  <2>4. m - 1 \in 0..Len(s) /\ m \in 1..Len(s) /\ ~ (m <= m - 1)
    BY <1>0, <2>2, <2>3
  <2>5. Covered(m - 1)
    <3>1. m - 1 \notin T
      <4> HIDE DEF T
      <4> QED BY <2>1, <2>4
    <3> HIDE DEF Covered
    <3> QED BY <2>4, <3>1
  <2> DEFINE b == Bytes(s[m], m)
  <2>6. Len(b) \in Nat /\ Len(g[m]) = Len(g[m - 1]) + Len(b) /\ Len(g[m - 1]) \in Nat
    BY <1>0, <2>4 DEF Lie
  <2>7. ASSUME NEW i \in 1..Len(g[m]) PROVE Item(i)
    <3> HIDE DEF b
    <3>1. CASE i <= Len(g[m - 1])
      <4>1. i \in 1..Len(g[m - 1])
        BY ONLY <2>6, <2>7, <3>1
      <4> HIDE DEF Item
      <4> QED BY ONLY <2>5, <4>1, Zenon
    <3>2. CASE i > Len(g[m - 1])
      <4>1. i - Len(g[m - 1]) \in 1..Len(b) /\ i = Len(g[m - 1]) + (i - Len(g[m - 1]))
        BY ONLY <2>6, <2>7, <3>2
      <4> QED BY ONLY <2>4, <4>1, Zenon DEF b
    <3> QED BY ONLY <2>6, <3>1, <3>2, i \in 1..Len(g[m])
  <2> QED BY <2>2, <2>7
<1> QED BY <1>1

-----------------------------------------------------------------------------
(* The items of the input.                                                   *)

\* The bytes of item k.
Item(k) == Bytes(script[k], k)

Layout ==
  /\ Len(script) \in Nat /\ \A k \in 1..Len(script) : script[k] \in Items
  /\ Start(1) = 0 /\ Start(Len(script) + 1) = Len(input)
  /\ \A k \in 1..(Len(script) + 1) : Start(k) \in Nat
  /\ \A k, m \in 1..(Len(script) + 1) : k <= m => Start(k) <= Start(m)
  /\ \A k \in 1..Len(script) :
       /\ Len(Item(k)) \in Nat \ {0} /\ Start(k + 1) = Start(k) + Len(Item(k))
       /\ \A j \in 1..Len(Item(k)) :
            /\ Start(k) + j \in Index
            /\ input[Start(k) + j].byte = Item(k)[j] /\ input[Start(k) + j].item = k
  /\ \A q \in Index : \E k \in 1..Len(script) : \E j \in 1..Len(Item(k)) : q = Start(k) + j

LEMMA InputLayout == IInv => Layout
<1> SUFFICES ASSUME IInv PROVE Layout
  OBVIOUS
<1> DEFINE g == UpTo(script)
           N == Len(script)
<1>1. script \in Seq(Items) /\ input = g[N]
  BY StreamAssumption DEF IInv, TypeOK, Input
<1>2. Lie(script, g)
  BY <1>1, ItemsLie
<1>3. \A k : Start(k) = Len(g[k - 1])
  BY DEF Start
<1> HIDE DEF g
<1>10. \A k \in 0..Len(script) : \A m \in k..Len(script) :
         Len(g[k]) <= Len(g[m]) /\ \A i \in 1..Len(g[k]) : g[m][i] = g[k][i]
  BY <1>1, <1>2, StreamGrows
<1>11. \A m \in 0..Len(script) : \A i \in 1..Len(g[m]) :
         \E k \in 1..Len(script) : \E j \in 1..Len(Bytes(script[k], k)) : i = Len(g[k - 1]) + j
  BY <1>1, <1>2, StreamCovered
<1>4. N \in Nat /\ \A k \in 1..N : script[k] \in Items
  BY <1>1
<1> HIDE DEF N
<1>5. Start(1) = 0 /\ Start(N + 1) = Len(input)
  <2>1. g[0] = <<>> /\ Len(<<>>) = 0 /\ 1 - 1 = 0 /\ (N + 1) - 1 = N
    BY <1>2, <1>4 DEF Lie
  <2>2. Start(1) = Len(g[1 - 1]) /\ Start(N + 1) = Len(g[(N + 1) - 1])
    BY <1>3, Zenon
  <2> QED BY ONLY <1>1, <2>1, <2>2, Zenon DEF N
<1>6. \A k \in 1..(N + 1) : Start(k) \in Nat /\ k - 1 \in 0..N
  <2>1. \A k \in 1..(N + 1) : k - 1 \in 0..N
    BY <1>4
  <2> QED BY <1>2, <1>3, <2>1 DEF Lie, N
<1>7. \A k, m \in 1..(N + 1) : k <= m => Start(k) <= Start(m)
  <2> SUFFICES ASSUME NEW k \in 1..(N + 1), NEW m \in 1..(N + 1), k <= m
               PROVE  Start(k) <= Start(m)
    OBVIOUS
  <2>1. k - 1 \in 0..N /\ m - 1 \in (k - 1)..N
    BY <1>4
  <2>2. Len(g[k - 1]) <= Len(g[m - 1])
    BY ONLY <1>10, <2>1, Zenon DEF N
  <2> QED BY <1>3, <2>2
<1>8. ASSUME NEW k \in 1..N
      PROVE  /\ Len(Item(k)) \in Nat \ {0} /\ Start(k + 1) = Start(k) + Len(Item(k))
             /\ \A j \in 1..Len(Item(k)) :
                  /\ Start(k) + j \in Index
                  /\ input[Start(k) + j].byte = Item(k)[j] /\ input[Start(k) + j].item = k
  <2> DEFINE b == Item(k)
  <2>1. /\ Len(b) \in Nat \ {0} /\ Len(g[k]) = Len(g[k - 1]) + Len(b)
        /\ \A j \in 1..Len(b) : g[k][Len(g[k - 1]) + j] = [byte |-> b[j], item |-> k]
    BY <1>2 DEF Lie, N, Item
  <2> HIDE DEF b
  <2>2. k \in 0..N /\ N \in k..N /\ (k + 1) - 1 = k /\ k - 1 \in 0..N
    BY <1>4
  <2>3. Len(g[k]) <= Len(g[N]) /\ \A i \in 1..Len(g[k]) : g[N][i] = g[k][i]
    BY ONLY <1>10, <2>2, Zenon DEF N
  <2>4. Len(g[k]) \in Nat /\ Len(g[k - 1]) \in Nat /\ Len(g[N]) \in Nat
    BY <1>2, <2>2 DEF Lie, N
  <2>5. Start(k) = Len(g[k - 1]) /\ Start(k + 1) = Len(g[k])
    <3>1. Start(k + 1) = Len(g[(k + 1) - 1])
      BY <1>3, Zenon
    <3> QED BY <1>3, <2>2, <3>1, Zenon
  <2>6. ASSUME NEW j \in 1..Len(b)
        PROVE  Start(k) + j \in Index /\ input[Start(k) + j] = [byte |-> b[j], item |-> k]
    <3>1. Len(g[k - 1]) + j \in 1..Len(g[k]) /\ Len(g[k - 1]) + j \in 1..Len(g[N])
      BY ONLY <2>1, <2>3, <2>4, <2>6
    <3> QED BY ONLY <1>1, <2>1, <2>3, <2>5, <2>6, <3>1, Zenon DEF Index
  <2>7. ASSUME NEW j \in 1..Len(b)
        PROVE  input[Start(k) + j].byte = b[j] /\ input[Start(k) + j].item = k
    <3>1. input[Start(k) + j] = [byte |-> b[j], item |-> k]
      BY <2>6, <2>7, Zenon
    <3> QED BY ONLY <3>1
  <2> QED BY ONLY <2>1, <2>5, <2>6, <2>7, Zenon DEF b
<1>9. ASSUME NEW q \in Index
      PROVE  \E k \in 1..N : \E j \in 1..Len(Item(k)) : q = Start(k) + j
  <2>1. N \in 0..N /\ q \in 1..Len(g[N])
    BY <1>1, <1>4 DEF Index
  <2>2. \E k \in 1..N : \E j \in 1..Len(Item(k)) : q = Len(g[k - 1]) + j
    BY ONLY <1>11, <2>1, Zenon DEF N, Item
  <2> QED BY ONLY <1>3, <2>2, Zenon
<1> QED BY ONLY <1>4, <1>5, <1>6, <1>7, <1>8, <1>9, Zenon DEF Layout, N

\* Where item k lies.
LEMMA PositionsAt ==
  ASSUME Layout, NEW k \in 1..Len(script)
  PROVE  /\ Positions(k) = [j \in 1..Len(Item(k)) |-> Start(k) + j]
         /\ Positions(k) \in Seq(Index) /\ Len(Positions(k)) = Len(Item(k))
         /\ \A j \in 1..Len(Item(k)) : Positions(k)[j] = Start(k) + j
         /\ ToSet(Positions(k)) = (Start(k) + 1)..(Start(k) + Len(Item(k)))
<1> DEFINE p == Positions(k)
           n == Len(Item(k))
<1>1. p = [j \in 1..n |-> Start(k) + j]
  BY DEF Positions, Item
<1>2. n \in Nat \ {0} /\ Start(k) \in Nat /\ \A j \in 1..n : Start(k) + j \in Index
  BY DEF Layout
<1> HIDE DEF p, n
<1>3. p \in Seq(Index) /\ Len(p) = n /\ \A j \in 1..n : p[j] = Start(k) + j
  BY ONLY <1>1, <1>2
<1>4. ToSet(p) = {p[j] : j \in 1..n}
  BY ONLY <1>1 DEF ToSet
<1>5. ASSUME NEW x \in (Start(k) + 1)..(Start(k) + n) PROVE x \in ToSet(p)
  <2>1. x - Start(k) \in 1..n /\ Start(k) + (x - Start(k)) = x
    BY ONLY <1>2, <1>5
  <2> QED BY ONLY <1>3, <1>4, <2>1
<1>6. ASSUME NEW x \in ToSet(p) PROVE x \in (Start(k) + 1)..(Start(k) + n)
  <2>1. PICK j \in 1..n : x = Start(k) + j
    BY <1>3, <1>4, <1>6
  <2> QED BY <1>2, <2>1
<1> QED BY <1>1, <1>3, <1>5, <1>6 DEF p, n

-----------------------------------------------------------------------------
(* The frames that are decoded.                                              *)

\* A suffix of a sorted sequence has the larger part of it.
LEMMA SuffixSorted ==
  ASSUME NEW s \in Seq(Nat), NEW t \in Seq(Nat), IsSuffix(s, t), Sorted(t)
  PROVE  /\ Sorted(s) /\ ToSet(s) \subseteq ToSet(t)
         /\ \A x \in ToSet(s), y \in ToSet(t) : x < y => y \in ToSet(s)
<1> DEFINE d == Len(t) - Len(s)
<1>1. Len(s) <= Len(t) /\ \A i \in 1..Len(s) : s[i] = t[d + i]
  BY SuffixDef
<1>2. /\ Len(s) \in Nat /\ Len(t) \in Nat /\ DOMAIN s = 1..Len(s) /\ DOMAIN t = 1..Len(t)
      /\ \A i \in 1..Len(t) : t[i] \in Nat
  OBVIOUS
<1>3. d \in Nat /\ d + Len(s) = Len(t)
  BY ONLY <1>1, <1>2
<1> HIDE DEF d
<1>4. \A i \in 1..Len(s) : d + i \in 1..Len(t)
  BY ONLY <1>2, <1>3
<1>5. Sorted(s)
  <2> SUFFICES ASSUME NEW i \in 1..Len(s), NEW j \in 1..Len(s), i < j PROVE s[i] < s[j]
    BY DEF Sorted
  <2>1. d + i < d + j
    BY ONLY <1>2, <1>3, i \in 1..Len(s), j \in 1..Len(s), i < j
  <2>2. t[d + i] < t[d + j]
    BY ONLY <1>4, <2>1, Sorted(t), i \in 1..Len(s), j \in 1..Len(s), Zenon DEF Sorted
  <2> QED BY ONLY <1>1, <2>2, i \in 1..Len(s), j \in 1..Len(s), Zenon
<1>6. ASSUME NEW x \in ToSet(s) PROVE x \in ToSet(t)
  <2>1. PICK i \in 1..Len(s) : x = s[i]
    BY <1>2 DEF ToSet
  <2>2. x = t[d + i] /\ d + i \in 1..Len(t)
    BY ONLY <1>1, <1>4, <2>1, Zenon
  <2> QED BY ONLY <1>2, <2>2 DEF ToSet
<1>7. ASSUME NEW x \in ToSet(s), NEW y \in ToSet(t), x < y PROVE y \in ToSet(s)
  <2>1. PICK i \in 1..Len(s), m \in 1..Len(t) : x = s[i] /\ y = t[m]
    BY <1>2 DEF ToSet
  <2>2. x = t[d + i] /\ d + i \in 1..Len(t)
    BY ONLY <1>1, <1>4, <2>1, Zenon
  <2>3. m > d + i
    <3>1. CASE m < d + i
      <4>1. t[m] < t[d + i]
        BY ONLY <2>1, <2>2, <3>1, Sorted(t), Zenon DEF Sorted
      <4> QED BY ONLY <1>2, <1>7, <2>1, <2>2, <4>1
    <3>2. CASE m = d + i
      BY ONLY <1>2, <1>7, <2>1, <2>2, <3>2
    <3> QED BY ONLY <1>2, <1>3, <2>1, <2>2, <3>1, <3>2
  <2>4. m - d \in 1..Len(s) /\ d + (m - d) = m
    BY ONLY <1>2, <1>3, <2>1, <2>3
  <2>5. y = s[m - d]
    BY ONLY <1>1, <2>1, <2>4
  <2> QED BY ONLY <1>2, <2>4, <2>5 DEF ToSet
<1> QED BY <1>5, <1>6, <1>7

\* Numbers that are all there follow each other.
AllThere(t, lo, n) ==
  \A q \in lo..(lo + n) : (\E x \in ToSet(t) : q <= x) => q \in ToSet(t)
Follow(s, j, lo, n) == \A i \in 0..n : j + i <= Len(s) => s[j + i] = lo + i

LEMMA Adjacent ==
  ASSUME NEW s \in Seq(Nat), NEW t \in Seq(Nat), IsSuffix(s, t), Sorted(t),
         NEW lo \in Nat, NEW n \in Nat, NEW j \in 1..Len(s), s[j] = lo, AllThere(t, lo, n)
  PROVE  Follow(s, j, lo, n)
<1> DEFINE Next1(i) == j + i <= Len(s) => s[j + i] = lo + i
           T == {i \in 0..n : ~ Next1(i)}
<1>0. /\ Len(s) \in Nat /\ DOMAIN s = 1..Len(s) /\ \A i \in 1..Len(s) : s[i] \in Nat
      /\ j \in Nat
  OBVIOUS
<1>1. ASSUME T # {} PROVE FALSE
  <2>1. PICK m \in T : \A i \in T : m <= i
    <3>1. T \in SUBSET Nat
      OBVIOUS
    <3> HIDE DEF T
    <3> QED BY <1>1, <3>1, LeastNatural
  <2>2. m \in 0..n /\ j + m <= Len(s) /\ s[j + m] # lo + m
    OBVIOUS
  <2>3. m # 0
    BY <1>0, <2>2
  <2>4. /\ m - 1 \in 0..n /\ ~ (m <= m - 1) /\ j + (m - 1) <= Len(s)
        /\ j + (m - 1) \in 1..Len(s) /\ j + m \in 1..Len(s) /\ j + (m - 1) < j + m
        /\ lo + m \in lo..(lo + n) /\ lo + (m - 1) < lo + m /\ lo + m \in Nat
    BY ONLY <1>0, <2>2, <2>3, lo \in Nat, n \in Nat, j \in 1..Len(s)
  <2>5. s[j + (m - 1)] = lo + (m - 1)
    <3>1. m - 1 \notin T
      <4> HIDE DEF T
      <4> QED BY ONLY <2>1, <2>4, Zenon
    <3>2. Next1(m - 1)
      <4> HIDE DEF Next1
      <4> QED BY <2>4, <3>1
    <3> QED BY ONLY <2>4, <3>2
  <2> DEFINE x == s[j + m]
             y == s[j + (m - 1)]
             q == lo + m
  <2>6. /\ Sorted(s) /\ ToSet(s) \subseteq ToSet(t)
        /\ \A a \in ToSet(s), b \in ToSet(t) : a < b => b \in ToSet(s)
    BY SuffixSorted
  <2>7. y < x /\ x \in Nat /\ y \in Nat /\ x \in ToSet(s) /\ y \in ToSet(s)
    <3>1. x \in ToSet(s) /\ y \in ToSet(s)
      BY ONLY <1>0, <2>4 DEF ToSet
    <3>2. y < x
      BY ONLY <2>4, <2>6, Zenon DEF Sorted
    <3> QED BY ONLY <1>0, <2>4, <3>1, <3>2
  <2>8. q <= x
    BY ONLY <2>2, <2>4, <2>5, <2>7, lo \in Nat
  <2>9. q \in ToSet(t)
    BY ONLY <2>4, <2>6, <2>7, <2>8, AllThere(t, lo, n), Zenon DEF AllThere
  <2>10. q \in ToSet(s)
    <3>1. y < q
      BY ONLY <2>4, <2>5
    <3> QED BY ONLY <2>6, <2>7, <2>9, <3>1, Zenon
  <2>11. PICK i \in 1..Len(s) : q = s[i]
    BY ONLY <1>0, <2>10 DEF ToSet
  <2>12. i >= j + m
    <3>1. CASE i < j + (m - 1)
      <4>1. s[i] < y
        BY ONLY <2>4, <2>6, <2>11, <3>1, Zenon DEF Sorted
      <4> QED BY ONLY <2>4, <2>5, <2>11, <4>1, lo \in Nat
    <3>2. CASE i = j + (m - 1)
      BY ONLY <2>4, <2>5, <2>11, <3>2, lo \in Nat
    <3> QED BY ONLY <1>0, <2>4, <2>11, <3>1, <3>2
  <2>13. CASE i = j + m
    BY ONLY <2>2, <2>11, <2>13
  <2>14. CASE i > j + m
    <3>1. x < s[i]
      BY ONLY <2>4, <2>6, <2>11, <2>14, Zenon DEF Sorted
    <3>2. PICK u \in Nat, v \in Nat : u = x /\ v = lo + m
      BY ONLY <2>4, <2>7
    <3>3. v <= u /\ u < v
      BY ONLY <2>8, <2>11, <3>1, <3>2, Zenon
    <3> QED BY ONLY <3>3, u \in Nat, v \in Nat
  <2> QED BY ONLY <1>0, <2>4, <2>11, <2>12, <2>13, <2>14
<1> QED BY <1>1 DEF Follow

LEMMA BufferFacts ==
  ASSUME IInv
  PROVE  /\ buffer \in Seq(Nat) /\ fed \in Seq(Nat) /\ Sorted(fed) /\ IsSuffix(buffer, fed)
         /\ Sorted(buffer) /\ ToSet(buffer) \subseteq ToSet(fed)
         /\ ToSet(buffer) \subseteq Nat /\ ToSet(fed) \subseteq Nat
<1>1. buffer \in Seq(Nat) /\ fed \in Seq(Nat) /\ parts \in Seq(Nat) /\ pending \in Seq(Nat)
  BY StateFacts, SeqMore
<1>2. Sorted((fed \o parts) \o pending) /\ IsSuffix(buffer, fed)
  BY DEF IInv, ByteInv, Passing
<1>3. Sorted(fed \o parts)
  BY ONLY <1>1, <1>2, PassingFacts
<1>4. Sorted(fed)
  BY ONLY <1>1, <1>3, SortedConcat
<1>5. Sorted(buffer) /\ ToSet(buffer) \subseteq ToSet(fed)
  BY ONLY <1>1, <1>2, <1>4, SuffixSorted
<1>6. ToSet(buffer) \subseteq Nat /\ ToSet(fed) \subseteq Nat
  BY ONLY <1>1, ToSetType
<1> QED BY <1>1, <1>2, <1>4, <1>5, <1>6

\* The items do not change.
LEMMA SameItems ==
  ASSUME UNCHANGED <<script, input>>
  PROVE  /\ \A k : Start(k)' = Start(k) /\ Positions(k)' = Positions(k) /\ Item(k)' = Item(k)
         /\ \A s, i : At(s, i)' = At(s, i)
         /\ Index' = Index
BY DEF Start, Positions, Item, At, Index

\* The parts of FrameInv.
Past == \A i \in 1..Len(frames) :
  IsIntact(i) /\ FrameHeader(i) \in ToSet(fed) /\ \A p \in ToSet(buffer) : FrameHeader(i) < p
Ordered == \A i, j \in 1..Len(frames) : i < j => FrameHeader(i) < FrameHeader(j)
Found == \A k \in 1..Len(script) :
  script[k] \in Frames /\ Start(k) + 1 \in ToSet(fed) /\ Unbroken(k)
    => Start(k) + 1 \in ToSet(buffer) \/ Decoded(k)

LEMMA FrameInvParts == FrameInv <=> Past /\ Ordered /\ Found
BY DEF FrameInv, Past, Ordered, Found

LEMMA FrameInvPartsNext == FrameInv' <=> Past' /\ Ordered' /\ Found'
BY FrameInvParts, PTL

\* The frames decoded before stay what they are.
LEMMA SameFrames ==
  ASSUME UNCHANGED <<script, input>>, NEW i, frames'[i] = frames[i]
  PROVE  IsIntact(i)' = IsIntact(i) /\ FrameHeader(i)' = FrameHeader(i)
BY DEF IsIntact, FrameHeader, At

LEMMA QuietFrames ==
  ASSUME FrameInv, UNCHANGED <<script, input, frames, fed, buffer>>
  PROVE  FrameInv'
<1>1. \A i : IsIntact(i)' = IsIntact(i) /\ FrameHeader(i)' = FrameHeader(i)
  BY SameFrames
<1>2. \A k : Start(k)' = Start(k) /\ Positions(k)' = Positions(k)
  BY SameItems
<1>3. \A k : Unbroken(k)' = Unbroken(k) /\ Decoded(k)' = Decoded(k)
  BY <1>1, <1>2 DEF Unbroken, Decoded
<1>4. Past'
  BY <1>1, FrameInvParts DEF Past
<1>5. Ordered'
  BY <1>1, FrameInvParts DEF Ordered
<1>6. Found'
  BY <1>2, <1>3, FrameInvParts DEF Found
<1> QED BY <1>4, <1>5, <1>6, FrameInvPartsNext

\* New bytes come behind the frame that is coming in.
LEMMA FeedFrames ==
  ASSUME IInv, FrameInv, IInv', NEW new \in Seq(Nat), buffer' = buffer \o new, fed' = fed \o new,
         UNCHANGED <<script, input, frames>>
  PROVE  FrameInv'
<1>1. buffer \in Seq(Nat) /\ fed \in Seq(Nat) /\ ToSet(fed) \subseteq Nat /\ ToSet(new) \subseteq Nat
  BY BufferFacts, ToSetType
<1>2. Sorted(fed')
  <2>1. (IInv => Sorted(fed))'
    BY BufferFacts, PTL
  <2> QED BY <2>1
<1>3. Before(ToSet(fed), ToSet(new))
  BY ONLY <1>1, <1>2, SortedConcat, fed' = fed \o new, new \in Seq(Nat)
<1>4. ToSet(buffer') = ToSet(buffer) \cup ToSet(new) /\ ToSet(fed') = ToSet(fed) \cup ToSet(new)
  BY ONLY <1>1, ToSetConcat, buffer' = buffer \o new, fed' = fed \o new, new \in Seq(Nat)
<1>5. Past'
  <2> SUFFICES ASSUME NEW i \in 1..Len(frames)
               PROVE  /\ IsIntact(i)' /\ FrameHeader(i)' \in ToSet(fed')
                      /\ \A p \in ToSet(buffer') : FrameHeader(i)' < p
    BY DEF Past
  <2>1. IsIntact(i) /\ FrameHeader(i) \in ToSet(fed) /\ \A p \in ToSet(buffer) : FrameHeader(i) < p
    BY DEF FrameInv
  <2>2. IsIntact(i)' /\ FrameHeader(i)' = FrameHeader(i)
    BY <2>1, SameFrames
  <2> QED BY ONLY <1>3, <1>4, <2>1, <2>2 DEF Before
<1>6. Ordered'
  BY FrameInvParts, SameFrames DEF Ordered
<1>7. Found'
  <2> SUFFICES ASSUME NEW k \in 1..Len(script), script[k] \in Frames, Start(k)' + 1 \in ToSet(fed'),
                      Unbroken(k)'
               PROVE  Start(k)' + 1 \in ToSet(buffer') \/ Decoded(k)'
    BY DEF Found
  <2>1. Start(k)' = Start(k) /\ Positions(k)' = Positions(k)
    BY SameItems
  <2>2. CASE Start(k) + 1 \in ToSet(new)
    BY ONLY <1>4, <2>1, <2>2
  <2>3. CASE Start(k) + 1 \in ToSet(fed)
    <3>1. Unbroken(k)
      <4> SUFFICES ASSUME NEW p \in ToSet(Positions(k)), NEW q \in ToSet(fed), p <= q
                   PROVE  p \in ToSet(fed)
        BY DEF Unbroken
      <4>1. p \in ToSet(fed')
        <5>1. \A x \in ToSet(Positions(k)) : (\E y \in ToSet(fed') : x <= y) => x \in ToSet(fed')
          BY <2>1 DEF Unbroken
        <5>2. q \in ToSet(fed')
          BY <1>4
        <5> QED BY ONLY <5>1, <5>2, p \in ToSet(Positions(k)), p <= q, Zenon
      <4>2. CASE p \in ToSet(new)
        <5>1. q < p /\ p \in Nat /\ q \in Nat
          BY <1>1, <1>3, <4>2 DEF Before
        <5> QED BY ONLY <5>1, p <= q
      <4> QED BY ONLY <1>4, <4>1, <4>2
    <3>2. Start(k) + 1 \in ToSet(buffer) \/ Decoded(k)
      BY <2>3, <3>1 DEF FrameInv
    <3>3. Decoded(k)' = Decoded(k)
      BY <2>1 DEF Decoded, FrameHeader
    <3> QED BY ONLY <1>4, <2>1, <3>2, <3>3
  <2> QED BY <1>4, <2>1, <2>2, <2>3
<1> QED BY <1>5, <1>6, <1>7, FrameInvPartsNext

\* A byte of the input is one of an item.
LEMMA ByteOf ==
  ASSUME IInv, NEW q \in Index
  PROVE  \E k \in 1..Len(script) : \E j \in 1..Len(Item(k)) :
           /\ q = Start(k) + j /\ input[q].byte = Item(k)[j] /\ input[q].item = k
           /\ ItemSane(Item(k), script[k], k)
<1>1. Layout
  BY InputLayout
<1>2. PICK k \in 1..Len(script) : \E j \in 1..Len(Item(k)) : q = Start(k) + j
  BY <1>1 DEF Layout
<1>3. PICK j \in 1..Len(Item(k)) : q = Start(k) + j
  BY <1>2
<1>4. input[Start(k) + j].byte = Item(k)[j] /\ input[Start(k) + j].item = k /\ script[k] \in Items
  BY <1>1, <1>2, <1>3 DEF Layout
<1>5. ItemSane(Item(k), script[k], k)
  BY <1>4, ItemsSane DEF Item
<1> QED BY <1>3, <1>4, <1>5

\* Only an intact frame has a checksum that fits.
LEMMA CandidateIsItem ==
  ASSUME IInv, Len(buffer) >= HeaderSize, HeaderFit, Whole, CrcFits
  PROVE  \E k \in 1..Len(script) :
           /\ script[k] \in Frames \cup {"unknown"} /\ At(buffer, 3)[2] = script[k]
           /\ Len(Candidate) = Len(Item(k)) /\ Len(Candidate) \in 4..Len(buffer)
           /\ Candidate \in Seq(Index)
           /\ \A i \in 1..Len(Item(k)) : Candidate[i] = buffer[i] /\ At(buffer, i) = Item(k)[i]
           /\ buffer[3] = Start(k) + 3 /\ input[buffer[3]].item = k
<1> DEFINE h == At(buffer, 3)
           N == FrameSize(h)
<1>0. buffer \in Seq(Index) /\ Len(buffer) \in Nat /\ Len(buffer) >= 3
  BY StateFacts DEF HeaderSize
<1>1. LengthsFit(h) /\ h[2] # "mismatch" /\ Len(buffer) >= N
  BY DEF HeaderFit, Whole
<1>2. N \in (HeaderSize + CrcSize)..MaxFrame
  BY <1>0, <1>1, SizeFits
<1>3. Candidate = SubSeq(buffer, 1, N)
  BY DEF Candidate
<1>4. h[1] = "header" /\ h[3] <= MaxPayload
  BY <1>1 DEF LengthsFit
<1> HIDE DEF h, N
<1>5. N \in 4..Len(buffer)
  BY <1>0, <1>1, <1>2 DEF HeaderSize, CrcSize, MaxFrame, MaxPayload
<1>6. /\ Candidate \in Seq(Index) /\ Len(Candidate) = N
      /\ \A i \in 1..N : Candidate[i] = buffer[i]
  BY ONLY <1>0, <1>3, <1>5
<1> DEFINE F == [i \in 1..(N - 1) |-> At(buffer, i)]
<1>7. At(buffer, N) = <<"crc", F>>
  <2>1. Len(Candidate) - CrcSize = N - 1 /\ (N - 1) + 1 = N /\ N \in 1..N
    BY <1>5, <1>6 DEF CrcSize
  <2>2. At(Candidate, (N - 1) + 1) = <<"crc", [i \in 1..(N - 1) |-> At(Candidate, i)]>>
    BY <2>1 DEF CrcFits
  <2>3. \A i \in 1..N : At(Candidate, i) = At(buffer, i)
    BY <1>6 DEF At
  <2>4. \A i \in 1..(N - 1) : i \in 1..N
    BY <1>5
  <2>5. [i \in 1..(N - 1) |-> At(Candidate, i)] = F
    BY ONLY <2>3, <2>4
  <2> QED BY ONLY <2>1, <2>2, <2>3, <2>5, Zenon
<1>8. /\ DOMAIN F = 1..(N - 1) /\ \A i \in 1..(N - 1) : F[i] = At(buffer, i)
  OBVIOUS
<1> HIDE DEF F
<1>9. buffer[N] \in Index /\ buffer[3] \in Index
  BY ONLY <1>0, <1>5
<1>10. PICK k \in 1..Len(script) : \E j \in 1..Len(Item(k)) :
         /\ buffer[N] = Start(k) + j /\ input[buffer[N]].byte = Item(k)[j]
         /\ ItemSane(Item(k), script[k], k)
  BY <1>9, ByteOf
<1> DEFINE b == Item(k)
<1>11. PICK j \in 1..Len(b) : input[buffer[N]].byte = b[j] /\ ItemSane(b, script[k], k)
  BY <1>10
<1> HIDE DEF b
<1>12. b[j] = <<"crc", F>> /\ b[j][1] = "crc" /\ b[j][2] = F
  <2>1. b[j] = <<"crc", F>>
    BY <1>7, <1>11 DEF At
  <2> QED BY ONLY <2>1
<1>13. b[j] # <<"crc", <<>> >>
  <2>1. 1 \in 1..(N - 1)
    BY <1>5
  <2>2. DOMAIN F # {}
    BY <1>8, <2>1
  <2>3. F # <<>>
    BY ONLY <2>2
  <2>4. ASSUME b[j] = <<"crc", <<>> >> PROVE F = <<>>
    BY ONLY <1>12, <2>4
  <2> QED BY <2>3, <2>4
<1>14. /\ j = Len(b) /\ b[j] = <<"crc", Leading(b, Len(b) - 1)>> /\ Len(b) \in Nat /\ 4 <= Len(b)
       /\ \/ script[k] \in Frames \cup {"unknown"}
          \/ b[3][2] = "mismatch" \/ ~ (b[3][3] <= MaxPayload)
  BY ONLY <1>11, <1>12, <1>13, Zenon DEF ItemSane
<1>15. F = Leading(b, Len(b) - 1)
  BY ONLY <1>12, <1>14
<1>16. N = Len(b) /\ \A i \in 1..(N - 1) : At(buffer, i) = b[i]
  <2>1. DOMAIN F = 1..(Len(b) - 1) /\ \A i \in 1..(Len(b) - 1) : F[i] = b[i]
    BY ONLY <1>15 DEF Leading
  <2>2. N = Len(b)
    <3>1. N - 1 \in 1..(Len(b) - 1) /\ Len(b) - 1 \in 1..(N - 1)
      <4>1. N - 1 \in 1..(N - 1) /\ Len(b) - 1 \in 1..(Len(b) - 1)
        BY ONLY <1>5, <1>14, <1>0
      <4> QED BY ONLY <1>8, <2>1, <4>1
    <3> QED BY ONLY <1>0, <1>5, <1>14, <3>1
  <2> QED BY ONLY <1>8, <2>1, <2>2
<1>17. At(buffer, N) = b[N]
  BY ONLY <1>7, <1>12, <1>14, <1>16
<1>18. \A i \in 1..N : At(buffer, i) = b[i]
  <2>1. \A i \in 1..N : i = N \/ i \in 1..(N - 1)
    BY ONLY <1>0, <1>5
  <2> QED BY ONLY <1>16, <1>17, <2>1
<1>19. b[3] = h
  <2>1. 3 \in 1..N
    BY ONLY <1>0, <1>5
  <2> QED BY <1>18, <2>1 DEF h
<1>20. script[k] \in Frames \cup {"unknown"}
  BY ONLY <1>1, <1>4, <1>14, <1>19
<1>21. h[2] = script[k]
  <2>1. b[3] = Header(script[k], Len(b) - 4, k)
    BY <1>20, IntactItems DEF IntactAt, b, Item
  <2>2. Header(script[k], Len(b) - 4, k)[2] = script[k]
    BY ONLY TRUE DEF Header
  <2> QED BY ONLY <1>19, <2>1, <2>2
<1>22. buffer[3] = Start(k) + 3 /\ input[buffer[3]].item = k
  <2>1. PICK m \in 1..Len(script) : \E i \in 1..Len(Item(m)) :
          /\ buffer[3] = Start(m) + i /\ input[buffer[3]].byte = Item(m)[i]
          /\ input[buffer[3]].item = m /\ ItemSane(Item(m), script[m], m)
    BY <1>9, ByteOf
  <2>2. PICK i \in 1..Len(Item(m)) :
          /\ buffer[3] = Start(m) + i /\ input[buffer[3]].byte = Item(m)[i]
          /\ input[buffer[3]].item = m /\ ItemSane(Item(m), script[m], m)
    BY <2>1
  <2>3. Item(m)[i] = h
    BY <2>2 DEF h, At
  <2>4. i = 3 /\ h[4] = m
    BY ONLY <1>4, <2>2, <2>3, Zenon DEF ItemSane
  <2>5. h[4] = k
    <3>1. 3 \in 1..Len(b)
      BY ONLY <1>14
    <3> QED BY ONLY <1>4, <1>11, <1>19, <3>1, Zenon DEF ItemSane
  <2> QED BY ONLY <2>2, <2>4, <2>5
<1> QED BY <1>5, <1>6, <1>16, <1>18, <1>20, <1>21, <1>22 DEF b, h

\* The bytes of an intact frame that the buffer has follow each other in it.
LEMMA FrameFollows ==
  ASSUME IInv, NEW k \in 1..Len(script), Unbroken(k), NEW j \in 1..Len(buffer),
         buffer[j] = Start(k) + 1
  PROVE  \A i \in 1..Len(Item(k)) : (j - 1) + i <= Len(buffer) =>
           buffer[(j - 1) + i] = Start(k) + i /\ At(buffer, (j - 1) + i) = Item(k)[i]
<1>1. /\ Layout /\ buffer \in Seq(Nat) /\ fed \in Seq(Nat) /\ Sorted(fed) /\ IsSuffix(buffer, fed)
  BY InputLayout, BufferFacts
<1> DEFINE n == Len(Item(k)) - 1
           lo == Start(k) + 1
<1>2. Len(Item(k)) \in Nat \ {0} /\ Start(k) \in Nat
  BY <1>1 DEF Layout
<1>3. n \in Nat /\ lo \in Nat /\ lo..(lo + n) = (Start(k) + 1)..(Start(k) + Len(Item(k)))
  <2>1. n \in Nat /\ lo \in Nat /\ lo + n = Start(k) + Len(Item(k))
    BY ONLY <1>2
  <2> QED BY ONLY <2>1, Zenon
<1>4. AllThere(fed, lo, n)
  <2>1. ToSet(Positions(k)) = lo..(lo + n)
    BY <1>1, <1>3, PositionsAt
  <2> QED BY ONLY <2>1, Unbroken(k), Zenon DEF Unbroken, AllThere
<1> HIDE DEF n, lo
<1>5. \A i \in 0..n : j + i <= Len(buffer) => buffer[j + i] = lo + i
  <2>1. buffer[j] = lo
    BY DEF lo
  <2>2. Follow(buffer, j, lo, n)
    BY ONLY <1>1, <1>3, <1>4, <2>1, j \in 1..Len(buffer), Adjacent
  <2> QED BY ONLY <2>2 DEF Follow
<1> SUFFICES ASSUME NEW i \in 1..Len(Item(k)), (j - 1) + i <= Len(buffer)
             PROVE  buffer[(j - 1) + i] = Start(k) + i /\ At(buffer, (j - 1) + i) = Item(k)[i]
  OBVIOUS
<1>6. /\ i - 1 \in 0..n /\ j + (i - 1) = (j - 1) + i /\ lo + (i - 1) = Start(k) + i
      /\ j + (i - 1) <= Len(buffer)
  <2>1. j \in Nat
    BY <1>1
  <2> QED BY ONLY <1>2, <2>1, i \in 1..Len(Item(k)), (j - 1) + i <= Len(buffer) DEF n, lo
<1>7. buffer[(j - 1) + i] = Start(k) + i
  <2>1. buffer[j + (i - 1)] = lo + (i - 1)
    BY ONLY <1>5, <1>6, Zenon
  <2> QED BY ONLY <1>6, <2>1
<1>8. input[Start(k) + i].byte = Item(k)[i]
  BY <1>1 DEF Layout
<1> QED BY ONLY <1>7, <1>8 DEF At

\* The parser drops the bytes up to n.
LEMMA AdvanceFacts ==
  ASSUME IInv, NEW n \in 0..Len(buffer), Advance(n)
  PROVE  /\ \A x \in ToSet(buffer') : \E j \in (n + 1)..Len(buffer) : x = buffer[j]
         /\ \A j \in 1..Len(buffer) : j <= n \/ buffer[j] \in ToSet(buffer')
<1>1. buffer \in Seq(Index) /\ Len(buffer) \in Nat /\ n \in Nat /\ n <= Len(buffer)
  BY StateFacts
<1>2. buffer' = SubSeq(buffer, n + 1, Len(buffer))
  BY DEF Advance
<1>3. /\ buffer' \in Seq(Index) /\ Len(buffer') = Len(buffer) - n
      /\ \A i \in 1..(Len(buffer) - n) : buffer'[i] = buffer[n + i]
  BY ONLY <1>1, <1>2
<1>4. DOMAIN buffer' = 1..(Len(buffer) - n)
  BY ONLY <1>3
<1>5. ASSUME NEW x \in ToSet(buffer') PROVE \E j \in (n + 1)..Len(buffer) : x = buffer[j]
  <2>1. PICK i \in 1..(Len(buffer) - n) : x = buffer'[i]
    BY ONLY <1>4, <1>5 DEF ToSet
  <2>2. n + i \in (n + 1)..Len(buffer) /\ x = buffer[n + i]
    BY ONLY <1>1, <1>3, <2>1
  <2> QED BY ONLY <2>2
<1>6. ASSUME NEW j \in 1..Len(buffer), ~ (j <= n) PROVE buffer[j] \in ToSet(buffer')
  <2>1. j - n \in 1..(Len(buffer) - n) /\ n + (j - n) = j
    BY ONLY <1>1, <1>6
  <2>2. buffer[j] = buffer'[j - n]
    BY ONLY <1>3, <2>1
  <2> QED BY ONLY <1>4, <2>1, <2>2 DEF ToSet
<1> QED BY <1>5, <1>6

\* What a step of the parser has to show.
LEMMA AdvanceFrames ==
  ASSUME IInv, FrameInv, Parsing, NEW n \in 0..Len(buffer), Advance(n), Past', Ordered',
         \A k : Decoded(k) => Decoded(k)',
         \A k \in 1..Len(script), j \in 1..n :
           script[k] \in Frames /\ Unbroken(k) /\ buffer[j] = Start(k) + 1 => Decoded(k)'
  PROVE  FrameInv'
<1>1. UNCHANGED <<script, input, fed>>
  BY DEF Parsing, inputVars
<1>2. Found'
  <2> SUFFICES ASSUME NEW k \in 1..Len(script), script[k] \in Frames, Start(k) + 1 \in ToSet(fed),
                      Unbroken(k)
               PROVE  Start(k) + 1 \in ToSet(buffer') \/ Decoded(k)'
    <3>1. \A k : Start(k)' = Start(k) /\ Unbroken(k)' = Unbroken(k)
      BY <1>1, SameItems DEF Unbroken
    <3> QED BY <1>1, <3>1 DEF Found
  <2>1. CASE Decoded(k)
    BY <2>1
  <2>2. CASE Start(k) + 1 \in ToSet(buffer)
    <3>1. PICK j \in 1..Len(buffer) : buffer[j] = Start(k) + 1
      <4>1. buffer \in Seq(Index)
        BY StateFacts
      <4> QED BY <2>2, <4>1 DEF ToSet
    <3>2. CASE j <= n
      <4>1. j \in 1..n
        BY <3>1, <3>2
      <4> QED BY <3>1, <4>1
    <3>3. CASE ~ (j <= n)
      <4>1. buffer[j] \in ToSet(buffer')
        BY <3>3, AdvanceFacts
      <4> QED BY <3>1, <4>1
    <3> QED BY <3>2, <3>3
  <2> QED BY <2>1, <2>2 DEF FrameInv
<1> QED BY <1>2, FrameInvPartsNext

\* A step that decodes nothing.
LEMMA SkipFrames ==
  ASSUME IInv, FrameInv, Parsing, NEW n \in 0..Len(buffer), Advance(n), UNCHANGED frames,
         \A k \in 1..Len(script), j \in 1..n :
           ~ (script[k] \in Frames /\ Unbroken(k) /\ buffer[j] = Start(k) + 1)
  PROVE  FrameInv'
<1>1. UNCHANGED <<script, input, fed>>
  BY DEF Parsing, inputVars
<1>2. \A i : IsIntact(i)' = IsIntact(i) /\ FrameHeader(i)' = FrameHeader(i)
  BY <1>1, SameFrames
<1>3. Past'
  <2>1. ToSet(buffer') \subseteq ToSet(buffer)
    <3>1. ASSUME NEW x \in ToSet(buffer') PROVE x \in ToSet(buffer)
      <4>1. PICK j \in (n + 1)..Len(buffer) : x = buffer[j]
        BY AdvanceFacts
      <4>2. DOMAIN buffer = 1..Len(buffer) /\ Len(buffer) \in Nat
        BY StateFacts
      <4>3. j \in 1..Len(buffer)
        BY <4>1, <4>2
      <4> QED BY ONLY <4>1, <4>2, <4>3 DEF ToSet
    <3> QED BY <3>1
  <2>2. \A i \in 1..Len(frames) : /\ IsIntact(i) /\ FrameHeader(i) \in ToSet(fed)
                                  /\ \A p \in ToSet(buffer) : FrameHeader(i) < p
    BY FrameInvParts DEF Past
  <2> QED BY ONLY <1>1, <1>2, <2>1, <2>2, UNCHANGED frames, Zenon DEF Past
<1>4. Ordered'
  BY ONLY <1>2, FrameInvParts, FrameInv, UNCHANGED frames DEF Ordered
<1>5. \A k : Decoded(k) => Decoded(k)'
  BY <1>1, SameItems DEF Decoded, FrameHeader
<1> QED BY <1>3, <1>4, <1>5, AdvanceFrames, Zenon

\* The start of an intact frame is a magic, once its second byte is there.
LEMMA MagicOfFrame ==
  ASSUME IInv, NEW k \in 1..Len(script), script[k] \in Frames, Unbroken(k), NEW j \in 1..Len(buffer),
         buffer[j] = Start(k) + 1, j < Len(buffer)
  PROVE  j \in Magics
<1>1. \A i \in 1..Len(Item(k)) : (j - 1) + i <= Len(buffer) => At(buffer, (j - 1) + i) = Item(k)[i]
  BY FrameFollows
<1>2. Len(Item(k)) \in 4..MaxFrame /\ Item(k)[1] = <<"S">> /\ Item(k)[2] = <<"D">>
  BY IntactItems DEF IntactAt, Item
<1>3. Len(buffer) \in Nat
  BY StateFacts
<1>4. /\ 1 \in 1..Len(Item(k)) /\ 2 \in 1..Len(Item(k)) /\ (j - 1) + 1 = j /\ (j - 1) + 2 = j + 1
      /\ j <= Len(buffer) /\ j + 1 <= Len(buffer)
  BY ONLY <1>2, <1>3, j \in 1..Len(buffer), j < Len(buffer) DEF MaxFrame, HeaderSize, MaxPayload, CrcSize
<1>5. At(buffer, j) = <<"S">> /\ At(buffer, j + 1) = <<"D">>
  BY ONLY <1>1, <1>2, <1>4
<1>6. Magic[1] = <<"S">> /\ Magic[2] = <<"D">>
  BY DEF Magic
<1> QED BY <1>3, <1>4, <1>5, <1>6 DEF Magics, MagicAt

\* An intact frame at the front of the buffer passes the checks.
LEMMA FrontFits ==
  ASSUME IInv, NEW k \in 1..Len(script), script[k] \in Frames, Unbroken(k), Len(buffer) >= HeaderSize,
         buffer[1] = Start(k) + 1
  PROVE  HeaderFit /\ (Whole => CrcFits) /\ buffer[3] = Start(k) + 3 /\ At(buffer, 3)[2] = script[k]
<1> DEFINE b == Item(k)
<1>0. Len(buffer) \in Nat /\ Len(buffer) >= 3 /\ 1 \in 1..Len(buffer) /\ buffer \in Seq(Index)
  <2>1. Len(buffer) \in Nat /\ buffer \in Seq(Index)
    BY StateFacts
  <2> QED BY ONLY <2>1, Len(buffer) >= HeaderSize DEF HeaderSize
<1>1. IntactAt(b, script[k], k)
  BY IntactItems DEF Item
<1>2. \A i \in 1..Len(b) : i <= Len(buffer) => buffer[i] = Start(k) + i /\ At(buffer, i) = b[i]
  <2>1. \A i \in 1..Len(b) : (1 - 1) + i <= Len(buffer) =>
          buffer[(1 - 1) + i] = Start(k) + i /\ At(buffer, (1 - 1) + i) = b[i]
    BY <1>0, FrameFollows, Zenon
  <2>2. \A i \in 1..Len(b) : (1 - 1) + i = i
    OBVIOUS
  <2> HIDE DEF b
  <2> QED BY ONLY <2>1, <2>2
<1> HIDE DEF b
<1>3. /\ Len(b) \in 4..8 /\ b[3] = Header(script[k], Len(b) - 4, k)
      /\ b[Len(b)] = <<"crc", Leading(b, Len(b) - 1)>>
  BY ONLY <1>1 DEF IntactAt, MaxFrame, HeaderSize, MaxPayload, CrcSize
<1> DEFINE h == At(buffer, 3)
<1>4. buffer[3] = Start(k) + 3 /\ h = b[3]
  BY ONLY <1>0, <1>2, <1>3
<1> HIDE DEF h
<1>5. h[1] = "header" /\ h[2] = script[k] /\ h[3] = Len(b) - 4
  <2>1. h = Header(script[k], Len(b) - 4, k)
    BY ONLY <1>3, <1>4
  <2> QED BY ONLY <2>1 DEF Header
<1>6. HeaderFit
  <2>1. h[3] <= 4
    BY ONLY <1>3, <1>5
  <2>2. script[k] # "mismatch"
    BY DEF Frames
  <2> QED BY <1>5, <2>1, <2>2 DEF HeaderFit, LengthsFit, MaxPayload, h
<1>7. FrameSize(h) = Len(b)
  BY ONLY <1>3, <1>5 DEF FrameSize, HeaderSize, CrcSize
<1>8. ASSUME Whole PROVE CrcFits
  <2> DEFINE N == Len(b)
             c == SubSeq(buffer, 1, N)
  <2>1. Candidate = c /\ Len(buffer) >= N
    BY <1>7, <1>8 DEF Candidate, Whole, h
  <2> HIDE DEF N
  <2>2. N \in 4..8 /\ N \in 1..Len(buffer)
    BY ONLY <1>0, <1>3, <2>1 DEF N
  <2>3. Len(c) = N /\ \A i \in 1..N : c[i] = buffer[i]
    BY ONLY <1>0, <2>2
  <2> HIDE DEF c
  <2>4. \A i \in 1..N : At(c, i) = b[i]
    <3>1. \A i \in 1..N : i <= Len(buffer)
      BY ONLY <1>0, <2>2
    <3>2. \A i \in 1..N : At(buffer, i) = b[i]
      BY ONLY <1>2, <3>1, Zenon DEF N
    <3> QED BY ONLY <2>3, <3>2 DEF At
  <2>5. Len(c) - CrcSize = N - 1 /\ (N - 1) + 1 = N /\ N \in 1..N /\ \A i \in 1..(N - 1) : i \in 1..N
    BY ONLY <2>2, <2>3 DEF CrcSize
  <2>6. [i \in 1..(N - 1) |-> At(c, i)] = Leading(b, N - 1)
    BY ONLY <2>4, <2>5 DEF Leading
  <2>7. At(c, (N - 1) + 1) = <<"crc", [i \in 1..(N - 1) |-> At(c, i)]>>
    BY ONLY <1>3, <2>4, <2>5, <2>6, Zenon DEF N
  <2> QED BY ONLY <2>1, <2>5, <2>7 DEF CrcFits
<1> QED BY <1>4, <1>5, <1>6, <1>8 DEF h

LEMMA ParserSkipFrames ==
  ASSUME IInv, FrameInv, ParserSkip \/ ParserNoMagic
  PROVE  FrameInv'
<1>0. Len(buffer) \in Nat
  BY StateFacts
<1>1. Parsing /\ frames' = frames
  BY DEF ParserSkip, ParserNoMagic
<1>2. CASE ParserSkip
  <2> DEFINE m == Min(Magics)
  <2>1. Magics \subseteq 1..Len(buffer) /\ Magics # {} /\ Advance(m - 1)
    BY <1>2 DEF ParserSkip, Magics
  <2>2. m \in Magics /\ \A i \in Magics : m <= i
    <3>1. Magics \in SUBSET Nat
      BY <1>0, <2>1
    <3> QED BY <2>1, <3>1, MinIsMember
  <2> HIDE DEF m
  <2>3. m \in 1..Len(buffer) /\ m - 1 \in 0..Len(buffer)
    <3>1. m \in 1..Len(buffer)
      BY <2>1, <2>2
    <3> QED BY ONLY <1>0, <3>1
  <2>4. ASSUME NEW k \in 1..Len(script), NEW j \in 1..(m - 1), script[k] \in Frames, Unbroken(k),
               buffer[j] = Start(k) + 1
        PROVE  FALSE
    <3>1. j \in 1..Len(buffer) /\ j < Len(buffer) /\ j < m /\ j \in Nat /\ m \in Nat
      BY ONLY <1>0, <2>3, <2>4
    <3>2. j \in Magics
      BY <2>4, <3>1, MagicOfFrame
    <3>3. m <= j
      BY ONLY <2>2, <3>2, Zenon
    <3> QED BY ONLY <3>1, <3>3
  <2> QED BY <1>1, <2>1, <2>3, <2>4, SkipFrames
<1>3. CASE ParserNoMagic
  <2> DEFINE m == Max({0, Len(buffer) - (Len(Magic) - 1)})
  <2>1. Advance(m) /\ Magics = {}
    BY <1>3 DEF ParserNoMagic
  <2>2. m \in 0..Len(buffer) /\ (m = 0 \/ m < Len(buffer))
    <3>1. Len(Magic) = 2
      BY DEF Magic
    <3>2. Len(buffer) - (Len(Magic) - 1) = Len(buffer) - 1
      BY <1>0, <3>1
    <3>3. m = Max({0, Len(buffer) - 1})
      BY <3>2
    <3> HIDE DEF m
    <3>4. m \in {0, Len(buffer) - 1} /\ \A y \in {0, Len(buffer) - 1} : m >= y
      <4>1. \E x \in {0, Len(buffer) - 1} : \A y \in {0, Len(buffer) - 1} : x >= y
        <5>1. CASE Len(buffer) = 0
          BY <5>1
        <5>2. CASE Len(buffer) # 0
          BY <1>0, <5>2
        <5> QED BY <5>1, <5>2
      <4> QED BY <3>3, <4>1 DEF Max
    <3> QED BY ONLY <1>0, <3>4
  <2> HIDE DEF m
  <2>3. ASSUME NEW k \in 1..Len(script), NEW j \in 1..m, script[k] \in Frames, Unbroken(k),
               buffer[j] = Start(k) + 1
        PROVE  FALSE
    <3>1. j \in 1..Len(buffer) /\ j < Len(buffer)
      BY ONLY <1>0, <2>2, <2>3
    <3>2. j \in Magics
      BY <2>3, <3>1, MagicOfFrame
    <3> QED BY ONLY <2>1, <3>2
  <2> QED BY <1>1, <2>1, <2>2, <2>3, SkipFrames
<1> QED BY <1>2, <1>3

LEMMA ParserResyncFrames ==
  ASSUME IInv, FrameInv, ParserInvalid \/ ParserCrcError
  PROVE  FrameInv'
<1>0. Len(buffer) \in Nat
  BY StateFacts
<1>1. /\ Parsing /\ frames' = frames /\ Advance(1) /\ Len(buffer) >= HeaderSize
      /\ ~ (HeaderFit /\ (Whole => CrcFits))
  BY DEF ParserInvalid, ParserCrcError, AtMagic
<1>2. 1 \in 0..Len(buffer)
  BY <1>0, <1>1 DEF HeaderSize
<1>3. ASSUME NEW k \in 1..Len(script), NEW j \in 1..1, script[k] \in Frames, Unbroken(k),
             buffer[j] = Start(k) + 1
      PROVE  FALSE
  <2>1. j = 1
    BY ONLY <1>3
  <2>2. HeaderFit /\ (Whole => CrcFits)
    BY <1>1, <1>3, <2>1, FrontFits
  <2> QED BY ONLY <1>1, <2>2
<1> QED BY <1>1, <1>2, <1>3, SkipFrames

LEMMA ParserWaitFrames ==
  ASSUME IInv, FrameInv, ParserWait
  PROVE  FrameInv'
<1>1. UNCHANGED <<script, input, frames, fed, buffer>>
  BY DEF ParserWait, AtMagic, Parsing, inputVars
<1> QED BY <1>1, QuietFrames

\* A frame that is consumed is intact, and no other frame starts in it.
LEMMA ParserFrameFrames ==
  ASSUME IInv, FrameInv, ParserFrame
  PROVE  FrameInv'
<1>0. /\ buffer \in Seq(Index) /\ Len(buffer) \in Nat /\ frames \in Seq(Seq(Index))
      /\ DOMAIN buffer = 1..Len(buffer)
  BY StateFacts
<1>1. /\ Parsing /\ Len(buffer) >= HeaderSize /\ HeaderFit /\ Whole /\ CrcFits
      /\ Advance(Len(Candidate))
      /\ frames' = IF At(buffer, 3)[2] \in Frames THEN Append(frames, Candidate) ELSE frames
  BY DEF ParserFrame, AtMagic
<1>2. UNCHANGED <<script, input, fed>>
  BY <1>1 DEF Parsing, inputVars
<1>3. PICK k \in 1..Len(script) :
        /\ script[k] \in Frames \cup {"unknown"} /\ At(buffer, 3)[2] = script[k]
        /\ Len(Candidate) = Len(Item(k)) /\ Len(Candidate) \in 4..Len(buffer)
        /\ Candidate \in Seq(Index)
        /\ \A i \in 1..Len(Item(k)) : Candidate[i] = buffer[i] /\ At(buffer, i) = Item(k)[i]
        /\ buffer[3] = Start(k) + 3 /\ input[buffer[3]].item = k
  BY <1>1, CandidateIsItem
<1> DEFINE n == Len(Candidate)
<1>4. n \in 0..Len(buffer) /\ n \in Nat /\ n >= 4 /\ 3 \in 1..n /\ 3 \in 1..Len(buffer)
  BY ONLY <1>0, <1>3
<1>5. Candidate[3] = buffer[3] /\ buffer[3] \in ToSet(buffer)
  <2>1. Candidate[3] = buffer[3]
    BY ONLY <1>3, <1>4
  <2> QED BY ONLY <1>0, <1>4, <2>1 DEF ToSet
<1> HIDE DEF n
<1>6. PICK M \in Nat : M = Len(frames)
  BY <1>0
<1>7. \/ frames' = frames /\ script[k] \notin Frames
      \/ /\ script[k] \in Frames /\ Len(frames') = M + 1 /\ frames'[M + 1] = Candidate
         /\ \A i \in 1..M : frames'[i] = frames[i]
  <2>1. CASE script[k] \in Frames
    <3>1. frames' = Append(frames, Candidate) /\ Candidate \in Seq(Index)
      BY <1>1, <1>3, <2>1
    <3>2. Len(frames') = M + 1 /\ frames'[M + 1] = Candidate /\ \A i \in 1..M : frames'[i] = frames[i]
      BY ONLY <1>0, <1>6, <3>1, AppendAt
    <3> QED BY <2>1, <3>2
  <2>2. CASE script[k] \notin Frames
    BY <1>1, <1>3, <2>2
  <2> QED BY <2>1, <2>2
<1>8. /\ ToSet(buffer') \subseteq ToSet(buffer)
      /\ \A p \in ToSet(buffer') : buffer[3] < p
  <2> SUFFICES ASSUME NEW p \in ToSet(buffer') PROVE p \in ToSet(buffer) /\ buffer[3] < p
    OBVIOUS
  <2>1. PICK j \in (n + 1)..Len(buffer) : p = buffer[j]
    BY <1>1, <1>4, AdvanceFacts DEF n
  <2>2. j \in 1..Len(buffer) /\ 3 < j
    BY ONLY <1>0, <1>4, <2>1
  <2>3. Sorted(buffer)
    BY BufferFacts
  <2>4. buffer[3] < buffer[j]
    BY ONLY <1>4, <2>2, <2>3, Zenon DEF Sorted
  <2>5. p \in ToSet(buffer)
    BY ONLY <1>0, <2>1, <2>2 DEF ToSet
  <2> QED BY <2>1, <2>4, <2>5
<1>9. ASSUME NEW i \in 1..M, frames'[i] = frames[i]
      PROVE  /\ IsIntact(i)' /\ FrameHeader(i)' = FrameHeader(i) /\ FrameHeader(i) \in ToSet(fed')
             /\ \A p \in ToSet(buffer) : FrameHeader(i) < p
  <2>1. IsIntact(i) /\ FrameHeader(i) \in ToSet(fed) /\ \A p \in ToSet(buffer) : FrameHeader(i) < p
    BY <1>6, FrameInvParts DEF Past
  <2> QED BY <1>2, <1>9, <2>1, SameFrames
<1>10. ASSUME script[k] \in Frames, Len(frames') = M + 1, frames'[M + 1] = Candidate
       PROVE  IsIntact(M + 1)' /\ FrameHeader(M + 1)' = buffer[3] /\ buffer[3] \in ToSet(fed')
  <2>1. FrameHeader(M + 1)' = buffer[3]
    BY <1>5, <1>10 DEF FrameHeader, HeaderSize
  <2>2. [j \in 1..Len(Candidate) |-> At(Candidate, j)] = Item(k)
    <3> DEFINE b == Item(k)
    <3>1. \A j \in 1..Len(b) : At(Candidate, j) = b[j]
      BY <1>3 DEF At
    <3>2. b = [j \in 1..Len(b) |-> b[j]]
      <4>1. PICK S : b \in Seq(S)
        <5>1. script[k] \in Items
          BY <1>3 DEF Items, Clean
        <5> QED BY <5>1, ItemShape DEF Item
      <4> HIDE DEF b
      <4> QED BY ONLY <4>1
    <3> HIDE DEF b
    <3>3. Len(Candidate) = Len(b)
      BY <1>3 DEF b
    <3> QED BY ONLY <3>1, <3>2, <3>3 DEF b
  <2>3. input[buffer[3]].item = k
    BY <1>3
  <2>4. IsIntact(M + 1)' <=> LET m == input'[FrameHeader(M + 1)'].item IN
          /\ script'[m] \in Frames
          /\ [j \in 1..Len(frames'[M + 1]) |-> input'[frames'[M + 1][j]].byte] = Bytes(script'[m], m)
    BY DEF IsIntact, At
  <2>5. [j \in 1..Len(frames'[M + 1]) |-> input'[frames'[M + 1][j]].byte] = Item(k)
    <3>1. [j \in 1..Len(Candidate) |-> input'[Candidate[j]].byte] = Item(k)
      BY <1>2, <2>2 DEF At
    <3> QED BY <1>10, <3>1
  <2>6. IsIntact(M + 1)'
    BY ONLY <1>2, <1>10, <2>1, <2>3, <2>4, <2>5 DEF Item
  <2>7. buffer[3] \in ToSet(fed')
    BY <1>2, <1>5, BufferFacts
  <2> QED BY <2>1, <2>6, <2>7
<1>11. Past'
  <2> SUFFICES ASSUME NEW i \in 1..Len(frames')
               PROVE  /\ IsIntact(i)' /\ FrameHeader(i)' \in ToSet(fed')
                      /\ \A p \in ToSet(buffer') : FrameHeader(i)' < p
    BY DEF Past
  <2>1. CASE i \in 1..M /\ frames'[i] = frames[i]
    BY ONLY <1>8, <1>9, <2>1
  <2>2. CASE ~ (i \in 1..M /\ frames'[i] = frames[i])
    <3>1. script[k] \in Frames /\ Len(frames') = M + 1 /\ frames'[M + 1] = Candidate /\ i = M + 1
      <4>1. CASE frames' = frames
        BY <1>6, <2>2, <4>1
      <4>2. CASE script[k] \in Frames /\ Len(frames') = M + 1 /\ frames'[M + 1] = Candidate
                 /\ \A q \in 1..M : frames'[q] = frames[q]
        <5>1. i \in 1..M \/ i = M + 1
          BY ONLY <1>6, <4>2, i \in 1..Len(frames')
        <5> QED BY ONLY <2>2, <4>2, <5>1
      <4> QED BY <1>7, <4>1, <4>2
    <3> QED BY ONLY <1>8, <1>10, <3>1
  <2> QED BY <2>1, <2>2
<1>12. Ordered'
  <2> SUFFICES ASSUME NEW i \in 1..Len(frames'), NEW j \in 1..Len(frames'), i < j
               PROVE  FrameHeader(i)' < FrameHeader(j)'
    BY DEF Ordered
  <2>1. \A p, q \in 1..M : p < q => FrameHeader(p) < FrameHeader(q)
    BY <1>6, FrameInvParts DEF Ordered
  <2>2. CASE frames' = frames
    <3>1. i \in 1..M /\ j \in 1..M /\ frames'[i] = frames[i] /\ frames'[j] = frames[j]
      BY <1>6, <2>2
    <3> QED BY ONLY <1>9, <2>1, <3>1, i < j
  <2>3. CASE script[k] \in Frames /\ Len(frames') = M + 1 /\ frames'[M + 1] = Candidate
             /\ \A q \in 1..M : frames'[q] = frames[q]
    <3>1. i \in 1..M /\ (j \in 1..M \/ j = M + 1)
      BY ONLY <1>6, <2>3, i \in 1..Len(frames'), j \in 1..Len(frames'), i < j
    <3>2. CASE j \in 1..M
      BY ONLY <1>9, <2>1, <2>3, <3>1, <3>2, i < j
    <3>3. CASE j = M + 1
      BY ONLY <1>5, <1>9, <1>10, <2>3, <3>1, <3>3
    <3> QED BY <3>1, <3>2, <3>3
  <2> QED BY <1>7, <2>2, <2>3
<1>13. ASSUME NEW m, Decoded(m) PROVE Decoded(m)'
  <2>1. PICK i \in 1..M : FrameHeader(i) = Positions(m)[HeaderSize]
    BY <1>6, <1>13 DEF Decoded
  <2>2. i \in 1..Len(frames') /\ frames'[i] = frames[i]
    <3>1. CASE frames' = frames
      BY <1>6, <3>1
    <3>2. CASE Len(frames') = M + 1 /\ \A q \in 1..M : frames'[q] = frames[q]
      BY ONLY <1>6, <2>1, <3>2
    <3> QED BY <1>7, <3>1, <3>2
  <2>3. FrameHeader(i)' = Positions(m)'[HeaderSize]
    BY <1>2, <2>1, <2>2, SameFrames, SameItems
  <2> QED BY <2>2, <2>3 DEF Decoded
<1>14. ASSUME NEW m \in 1..Len(script), NEW j \in 1..n, script[m] \in Frames, Unbroken(m),
              buffer[j] = Start(m) + 1
       PROVE  Decoded(m)'
  <2>0. j \in 1..Len(buffer) /\ Len(buffer) \in Nat
    BY ONLY <1>0, <1>4, <1>14
  <2>1. j = 1
    <3>1. At(buffer, j) = <<"S">>
      <4>1. /\ IntactAt(Item(m), script[m], m) /\ Layout
        BY <1>14, IntactItems, InputLayout DEF Item
      <4>2. Item(m)[1] = <<"S">> /\ 1 \in 1..Len(Item(m))
        BY ONLY <4>1 DEF IntactAt, MaxFrame, HeaderSize, MaxPayload, CrcSize
      <4>3. input[Start(m) + 1].byte = Item(m)[1]
        <5>1. \A l \in 1..Len(script) : \A i \in 1..Len(Item(l)) : input[Start(l) + i].byte = Item(l)[i]
          BY ONLY <4>1, Zenon DEF Layout
        <5> QED BY ONLY <4>2, <5>1, Zenon, m \in 1..Len(script)
      <4> QED BY ONLY <1>14, <4>2, <4>3 DEF At
    <3>2. j \in 1..Len(Item(k)) /\ Item(k)[j] = <<"S">>
      BY ONLY <1>3, <1>14, <3>1 DEF n
    <3>3. Item(k)[j][1] = "S"
      BY ONLY <3>2
    <3>4. ItemSane(Item(k), script[k], k)
      BY <1>3, ItemsSane DEF Item, Items, Clean
    <3> QED BY ONLY <3>2, <3>3, <3>4, Zenon DEF ItemSane
  <2>2. buffer[3] = Start(m) + 3 /\ At(buffer, 3)[2] = script[m]
    BY <1>1, <1>14, <2>1, FrontFits
  <2>3. script[k] \in Frames
    BY ONLY <1>3, <1>14, <2>2
  <2>4. Len(frames') = M + 1 /\ frames'[M + 1] = Candidate
    BY <1>7, <2>3
  <2>5. FrameHeader(M + 1)' = Start(m) + 3 /\ M + 1 \in 1..Len(frames')
    BY ONLY <1>6, <1>10, <2>2, <2>3, <2>4
  <2>6. Positions(m)'[HeaderSize] = Start(m) + 3
    <3>1. Layout /\ IntactAt(Item(m), script[m], m)
      BY <1>14, InputLayout, IntactItems DEF Item
    <3>2. 3 \in 1..Len(Item(m))
      BY ONLY <3>1 DEF IntactAt, MaxFrame, HeaderSize, MaxPayload, CrcSize
    <3>3. Positions(m)[3] = Start(m) + 3
      BY <1>14, <3>1, <3>2, PositionsAt
    <3> QED BY <1>2, <3>3, SameItems DEF HeaderSize
  <2> QED BY ONLY <2>5, <2>6 DEF Decoded
<1> QED BY <1>1, <1>4, <1>11, <1>12, <1>13, <1>14, AdvanceFrames DEF n

LEMMA InitFrames == Init => FrameInv
<1> SUFFICES ASSUME Init PROVE FrameInv
  OBVIOUS
<1>1. frames = <<>> /\ fed = <<>> /\ Len(<<>>) = 0 /\ ToSet(<<>>) = {}
  BY DEF Init, ToSet
<1> QED BY <1>1 DEF FrameInv

LEMMA NextFrames == IInv /\ FrameInv /\ [Next]_vars => FrameInv'
<1> SUFFICES ASSUME IInv, FrameInv, [Next]_vars PROVE FrameInv'
  OBVIOUS
<1>1. IInv'
  BY NextIInv
<1>2. CASE UNCHANGED vars \/ StartOta \/ EndOta \/ DemuxFrame \/ DemuxResync \/ DemuxLine
  <2>1. UNCHANGED <<script, input, frames, fed, buffer>>
    BY <1>2 DEF vars, StartOta, EndOta, DemuxFrame, DemuxResync, DemuxLine, Scanning, inputVars,
                parseVars
  <2> QED BY <2>1, QuietFrames
<1>3. ASSUME NEW n \in 1..MaxChunk, ReadReset(n) \/ ReadArmed(n) PROVE FrameInv'
  <2>1. UNCHANGED <<script, input, frames, fed, buffer>>
    BY <1>3 DEF ReadReset, ReadArmed, Read, inputVars, parseVars
  <2> QED BY <2>1, QuietFrames
<1>4. ASSUME NEW n \in 1..MaxChunk, ReadPlain(n) PROVE FrameInv'
  <2> DEFINE new == pending \o Chunk(n)
  <2>1. /\ buffer' = buffer \o new /\ fed' = fed \o new /\ pos + n <= Len(input)
        /\ UNCHANGED <<script, input, frames>>
    BY <1>4 DEF ReadPlain, Read, Feed, inputVars
  <2>2. pending \in Seq(Nat) /\ Chunk(n) \in Seq(Nat)
    BY <2>1, StateFacts, ChunkFacts, StreamAssumption
  <2>3. new \in Seq(Nat)
    BY <2>2
  <2> HIDE DEF new
  <2> QED BY <1>1, <2>1, <2>3, FeedFrames
<1>5. CASE DemuxHold
  <2> DEFINE new == parts \o Residue
  <2>1. /\ buffer' = buffer \o new /\ fed' = fed \o new /\ UNCHANGED <<script, input, frames>>
    BY <1>5 DEF DemuxHold, Feed, inputVars
  <2>2. parts \in Seq(Nat) /\ Residue \in Seq(Nat)
    <3>1. <<>> \in Seq(Nat) /\ (Residue = pending \/ Residue = <<>>)
      BY DEF Residue
    <3> QED BY <3>1, StateFacts
  <2>3. new \in Seq(Nat)
    BY <2>2
  <2> HIDE DEF new
  <2> QED BY <1>1, <2>1, <2>3, FeedFrames
<1>6. CASE Parser
  BY <1>6, ParserSkipFrames, ParserWaitFrames, ParserResyncFrames, ParserFrameFrames DEF Parser
<1> QED BY <1>2, <1>3, <1>4, <1>5, <1>6 DEF Next, Demux

LEMMA FramesDecoded == IInv /\ FrameInv => IntactFramesDecoded
<1> SUFFICES ASSUME IInv, FrameInv PROVE IntactFramesDecoded
  OBVIOUS
<1>1. Past /\ Ordered /\ Found
  BY FrameInvParts
<1>2. \A i \in 1..Len(frames) : IsIntact(i)
  BY <1>1 DEF Past
<1>3. \A i \in 1..(Len(frames) - 1) : FrameHeader(i) < FrameHeader(i + 1)
  <2> TAKE i \in 1..(Len(frames) - 1)
  <2>1. Len(frames) \in Nat
    BY StateFacts
  <2>2. i \in 1..Len(frames) /\ i + 1 \in 1..Len(frames) /\ i < i + 1
    BY ONLY <2>1, i \in 1..(Len(frames) - 1)
  <2> QED BY ONLY <1>1, <2>2, Zenon DEF Ordered
<1>4. ASSUME NEW k \in 1..Len(script), script[k] \in Frames,
             ToSet(Positions(k)) \subseteq ToSet(fed) \ ToSet(buffer)
      PROVE  Decoded(k)
  <2>1. Start(k) + 1 \in ToSet(Positions(k))
    <3>1. Layout
      BY InputLayout
    <3>2. Len(Item(k)) \in Nat \ {0} /\ Start(k) \in Nat
      BY <3>1 DEF Layout
    <3>3. ToSet(Positions(k)) = (Start(k) + 1)..(Start(k) + Len(Item(k)))
      BY <3>1, PositionsAt
    <3> QED BY ONLY <3>2, <3>3
  <2>2. Unbroken(k)
    BY <1>4 DEF Unbroken
  <2>3. Start(k) + 1 \in ToSet(fed) /\ Start(k) + 1 \notin ToSet(buffer)
    BY ONLY <1>4, <2>1
  <2> QED BY ONLY <1>1, <1>4, <2>2, <2>3, Zenon DEF Found
<1> QED BY <1>2, <1>3, <1>4 DEF IntactFramesDecoded

-----------------------------------------------------------------------------
(* The replies.                                                              *)

OnCleanLink == ToSet(script) \subseteq Clean /\ aligned

\* The parts of ReplyInv.
InSession == step = "demux" => armed /\ ~ resetting
Lined == \A i \in 1..Len(lines) : \E k \in 1..Len(script) :
           script[k] \in Replies /\ lines[i] = Positions(k)
AtItem == armed /\ ~ resetting => \E k \in 1..(Len(script) + 1) : HoldsFrom(k)

LEMMA ReplyInvParts == ReplyInv <=> InSession /\ (OnCleanLink => Lined /\ AtItem)
BY Zenon DEF ReplyInv, OnCleanLink, InSession, Lined, AtItem

LEMMA ReplyInvPartsNext == ReplyInv' <=> InSession' /\ (OnCleanLink' => Lined' /\ AtItem')
BY ReplyInvParts, PTL

\* The item the scan is at.
LEMMA ScanItem ==
  ASSUME IInv, OnCleanLink, NEW k \in 1..(Len(script) + 1), HoldsFrom(k), Len(pending) >= 1
  PROVE  /\ k \in 1..Len(script)
         /\ \A i \in 1..Len(Item(k)) : i <= Len(pending) =>
              pending[i] = Start(k) + i /\ At(pending, i) = Item(k)[i]
         /\ \/ script[k] \in Frames \cup {"unknown"} /\ IntactAt(Item(k), script[k], k)
            \/ /\ script[k] \in Replies \cup {"text"} /\ Len(Item(k)) = 2
               /\ Item(k)[1] # <<"S">> /\ Item(k)[1] # <<"newline">> /\ Item(k)[2] = <<"newline">>
               /\ script[k] \in Replies <=> Item(k)[1] = <<"+OTA:">> \/ Item(k)[1] = <<"OK">>
<1>1. Layout /\ Len(pending) \in Nat /\ pos \in Nat /\ pos <= Len(input)
  BY InputLayout, StateFacts
<1>2. Len(script) \in Nat /\ Start(k) \in Nat /\ Start(Len(script) + 1) = Len(input) /\ Len(input) \in Nat
  BY <1>1, StateFacts DEF Layout
<1>3. Start(k) + Len(pending) = pos /\ pending = [i \in 1..Len(pending) |-> Start(k) + i]
  BY DEF HoldsFrom
<1>4. k \in 1..Len(script)
  <2>1. CASE k = Len(script) + 1
    <3>1. Start(k) = Len(input)
      BY <1>2, <2>1
    <3> QED BY ONLY <1>1, <1>2, <1>3, <3>1, Len(pending) >= 1
  <2> QED BY <1>2, <2>1
<1>5. ASSUME NEW i \in 1..Len(Item(k)), i <= Len(pending)
      PROVE  pending[i] = Start(k) + i /\ At(pending, i) = Item(k)[i]
  <2>1. i \in 1..Len(pending)
    <3>1. Len(Item(k)) \in Nat
      BY <1>1, <1>4 DEF Layout
    <3> QED BY ONLY <1>1, <1>5, <3>1
  <2>2. pending[i] = Start(k) + i
    BY ONLY <1>3, <2>1
  <2>3. input[Start(k) + i].byte = Item(k)[i]
    BY <1>1, <1>4, <1>5 DEF Layout
  <2> QED BY ONLY <2>2, <2>3 DEF At
<1>6. script[k] \in Clean
  <2>1. script \in Seq(Items)
    BY StreamAssumption, StateFacts
  <2>2. script[k] \in ToSet(script)
    BY ONLY <1>4, <2>1 DEF ToSet
  <2> QED BY <2>2 DEF OnCleanLink
<1>7. CASE script[k] \in Frames \cup {"unknown"}
  BY <1>4, <1>5, <1>7, IntactItems DEF Item
<1>8. CASE script[k] \in Replies \cup {"text"}
  BY <1>4, <1>5, <1>8, LineItems DEF Item
<1> QED BY <1>6, <1>7, <1>8 DEF Clean

\* The scan takes an item out.
LEMMA TakeItem ==
  ASSUME IInv, NEW k \in 1..Len(script), HoldsFrom(k), NEW n, n = Len(Item(k)), n <= Len(pending),
         pending' = SubSeq(pending, n + 1, Len(pending)), step' = "demux",
         UNCHANGED <<script, input, since, pos>>,
         \A p : Contains(lines, p) => Contains(lines', p),
         script[k] \in Replies => Contains(lines', Positions(k))
  PROVE  k + 1 \in 1..(Len(script) + 1) /\ HoldsFrom(k + 1)'
<1>1. Layout /\ Len(pending) \in Nat /\ pending \in Seq(Index) /\ since \in Nat /\ pos \in Nat
  BY InputLayout, StateFacts
<1>2. /\ Len(script) \in Nat /\ n \in Nat \ {0} /\ Start(k) \in Nat /\ Start(k + 1) = Start(k) + n
  <2>1. Len(script) \in Nat /\ Len(Item(k)) \in Nat \ {0} /\ Start(k + 1) = Start(k) + Len(Item(k))
    BY <1>1 DEF Layout
  <2>2. k \in 1..(Len(script) + 1)
    BY <2>1
  <2> QED BY <1>1, <2>1, <2>2 DEF Layout
<1>3. /\ since <= Start(k) /\ Start(k) + Len(pending) = pos
      /\ pending = [i \in 1..Len(pending) |-> Start(k) + i]
      /\ \A m \in 1..(k - 1) : script[m] \in Replies /\ since <= Start(m) => Contains(lines, Positions(m))
  BY DEF HoldsFrom
<1>4. \A m : Start(m)' = Start(m) /\ Positions(m)' = Positions(m) /\ Item(m)' = Item(m)
  BY SameItems
<1>5. /\ pending' \in Seq(Index) /\ Len(pending') = Len(pending) - n
      /\ \A i \in 1..(Len(pending) - n) : pending'[i] = pending[n + i]
  BY ONLY <1>1, <1>2, n <= Len(pending), pending' = SubSeq(pending, n + 1, Len(pending))
<1>6. \A i \in 1..Len(pending') : pending'[i] = Start(k + 1) + i
  <2> TAKE i \in 1..Len(pending')
  <2>1. i \in 1..(Len(pending) - n) /\ n + i \in 1..Len(pending)
    BY ONLY <1>1, <1>2, <1>5, n <= Len(pending), i \in 1..Len(pending')
  <2>2. pending'[i] = Start(k) + (n + i)
    BY ONLY <1>3, <1>5, <2>1
  <2> QED BY ONLY <1>1, <1>2, <2>1, <2>2
<1>7. pending' = [i \in 1..Len(pending') |-> Start(k + 1) + i]
  <2>1. pending' = [i \in 1..Len(pending') |-> pending'[i]]
    BY ONLY <1>5
  <2> QED BY ONLY <1>6, <2>1
<1>8. since <= Start(k + 1) /\ Start(k + 1) + Len(pending') = pos
  BY ONLY <1>1, <1>2, <1>3, <1>5
<1>9. ASSUME NEW m \in 1..((k + 1) - 1), script[m] \in Replies, since <= Start(m)
      PROVE  Contains(lines', Positions(m))
  <2>1. CASE m = k
    BY <1>9, <2>1
  <2>2. CASE m # k
    <3>1. m \in 1..(k - 1)
      BY <1>2, <2>2
    <3> QED BY <1>3, <1>9, <3>1
  <2> QED BY <2>1, <2>2
<1>10. HoldsFrom(k + 1)'
  <2>1. HoldsFrom(k + 1)' <=>
          /\ since' <= Start(k + 1)' /\ Start(k + 1)' + Len(pending') = pos'
          /\ pending' = [i \in 1..Len(pending') |-> Start(k + 1)' + i]
          /\ step' # "demux" => pending' = <<>> \/ Len(pending') < Len(Item(k + 1)')
          /\ \A m \in 1..((k + 1) - 1) : script'[m] \in Replies /\ since' <= Start(m)'
                                     => Contains(lines', Positions(m)')
    BY Zenon DEF HoldsFrom, Item
  <2> QED BY <1>4, <1>7, <1>8, <1>9, <2>1
<1>11. k + 1 \in 1..(Len(script) + 1)
  BY <1>2
<1> QED BY <1>10, <1>11

\* What the scan holds does not change.
LEMMA HoldsStill ==
  ASSUME UNCHANGED <<script, input, since, pos, pending, lines>>, step = "demux" => step' = "demux",
         NEW k, HoldsFrom(k)
  PROVE  HoldsFrom(k)'
BY DEF HoldsFrom, Start, Positions

LEMMA LinesStill ==
  ASSUME UNCHANGED <<script, input, lines>>
  PROVE  Lined' <=> Lined
BY DEF Lined, Positions, Start

\* A line more.
LEMMA LinesMore ==
  ASSUME IInv, Lined, UNCHANGED <<script, input>>, NEW k \in 1..Len(script), script[k] \in Replies,
         lines' = Append(lines, Positions(k)), Layout
  PROVE  /\ Lined' /\ Contains(lines', Positions(k))
         /\ \A p : Contains(lines, p) => Contains(lines', p)
<1>1. PICK M \in Nat : M = Len(lines)
  BY StateFacts
<1>2. lines \in Seq(Seq(Index)) /\ Positions(k) \in Seq(Index)
  BY StateFacts, PositionsAt
<1>3. Len(lines') = M + 1 /\ lines'[M + 1] = Positions(k) /\ \A i \in 1..M : lines'[i] = lines[i]
  BY ONLY <1>1, <1>2, AppendAt, lines' = Append(lines, Positions(k))
<1>4. \A m : Positions(m)' = Positions(m)
  BY SameItems
<1>5. \A i \in 1..(M + 1) : i \in 1..M \/ i = M + 1
  BY ONLY <1>1
<1>6. M + 1 \in 1..(M + 1) /\ \A i \in 1..M : i \in 1..(M + 1)
  BY ONLY <1>1
<1>7. Lined'
  <2> SUFFICES ASSUME NEW i \in 1..(M + 1)
               PROVE  \E m \in 1..Len(script) : script[m] \in Replies /\ lines'[i] = Positions(m)
    BY <1>3, <1>4 DEF Lined
  <2>1. CASE i = M + 1
    BY <1>3, <2>1
  <2>2. CASE i \in 1..M
    BY <1>1, <1>3, <2>2 DEF Lined
  <2> QED BY <1>5, <2>1, <2>2
<1>8. Contains(lines', Positions(k))
  BY <1>3, <1>6 DEF Contains
<1>9. ASSUME NEW p, Contains(lines, p) PROVE Contains(lines', p)
  <2>1. PICK i \in 1..M : lines[i] = p
    BY <1>1, <1>9 DEF Contains
  <2> QED BY <1>3, <1>6, <2>1 DEF Contains
<1> QED BY <1>7, <1>8, <1>9

\* A session that begins between two items begins at one.
LEMMA ResetReplies ==
  ASSUME IInv, ReplyInv, NEW n \in 1..MaxChunk, ReadReset(n)
  PROVE  ReplyInv'
<1>1. /\ pos + n <= Len(input) /\ pos' = pos + n /\ pending' = Chunk(n) /\ since' = pos
      /\ aligned' = (aligned /\ Boundary) /\ step' = "demux" /\ armed' /\ ~ resetting'
      /\ UNCHANGED <<script, input, lines>>
  BY DEF ReadReset, Read, inputVars
<1>2. InSession'
  BY ONLY <1>1, Zenon DEF InSession
<1>3. ASSUME OnCleanLink' PROVE Lined' /\ AtItem'
  <2>1. OnCleanLink /\ Boundary
    BY ONLY <1>1, <1>3, Zenon DEF OnCleanLink
  <2>2. Lined'
    BY <1>1, <2>1, LinesStill, ReplyInvParts
  <2>3. Layout /\ pos \in Nat /\ Len(input) \in Nat /\ n \in Nat \ {0}
    BY InputLayout, StateFacts, StreamAssumption
  <2>4. pos + 1 \in Index /\ (pos # 0 => pos \in Index)
    BY ONLY <1>1, <2>3 DEF Index
  <2>5. PICK k \in 1..Len(script) : \E j \in 1..Len(Item(k)) : pos + 1 = Start(k) + j
    BY <2>3, <2>4 DEF Layout
  <2>6. PICK j \in 1..Len(Item(k)) : pos + 1 = Start(k) + j
    BY <2>5
  <2>7. /\ Start(k) \in Nat /\ Len(Item(k)) \in Nat /\ Len(script) \in Nat
        /\ \A i \in 1..Len(Item(k)) : input[Start(k) + i].item = k
    <3>1. Len(script) \in Nat /\ k \in 1..(Len(script) + 1)
      BY <2>3 DEF Layout
    <3> QED BY <2>3, <3>1 DEF Layout
  <2>8. pos = Start(k)
    <3>1. CASE j = 1
      BY ONLY <2>3, <2>6, <2>7, <3>1
    <3>2. CASE j # 1
      <4>0. pos \in Nat /\ Start(k) \in Nat /\ Len(Item(k)) \in Nat
        BY <2>3, <2>7
      <4>1. j - 1 \in 1..Len(Item(k)) /\ Start(k) + (j - 1) = pos /\ pos # 0
        BY ONLY <2>6, <3>2, <4>0
      <4>2. input[pos].item = k /\ input[pos + 1].item = k
        BY ONLY <2>6, <2>7, <4>1
      <4> QED BY ONLY <2>1, <4>1, <4>2 DEF Boundary
    <3> QED BY <3>1, <3>2
  <2>9. HoldsFrom(k)'
    <3>1. Start(k)' = Start(k) /\ \A m : Start(m)' = Start(m) /\ Positions(m)' = Positions(m)
      BY <1>1, SameItems
    <3>2. Len(pending') = n /\ pending' = [i \in 1..n |-> Start(k) + i]
      BY ONLY <1>1, <2>3, <2>8 DEF Chunk
    <3>3. pos <= Start(k) /\ Start(k) + n = pos'
      BY ONLY <1>1, <2>3, <2>8
    <3>4. ASSUME NEW m \in 1..(k - 1), script[m] \in Replies, pos <= Start(m) PROVE FALSE
      <4>1. m \in 1..Len(script) /\ m + 1 \in 1..(Len(script) + 1) /\ k \in 1..(Len(script) + 1) /\ m + 1 <= k
        BY ONLY <2>5, <2>7, <3>4
      <4>2. Start(m + 1) = Start(m) + Len(Item(m)) /\ Len(Item(m)) \in Nat \ {0} /\ Start(m + 1) <= Start(k)
        BY <2>3, <4>1 DEF Layout
      <4>3. Start(m) \in Nat
        <5>1. m \in 1..(Len(script) + 1)
          BY ONLY <2>7, <4>1
        <5> QED BY <2>3, <5>1 DEF Layout
      <4> QED BY ONLY <2>3, <2>7, <2>8, <3>4, <4>2, <4>3
    <3>5. HoldsFrom(k)' <=>
            /\ since' <= Start(k)' /\ Start(k)' + Len(pending') = pos'
            /\ pending' = [i \in 1..Len(pending') |-> Start(k)' + i]
            /\ step' # "demux" => pending' = <<>> \/ Len(pending') < Len(Bytes(script'[k], k))
            /\ \A m \in 1..(k - 1) : script'[m] \in Replies /\ since' <= Start(m)'
                                       => Contains(lines', Positions(m)')
      BY Zenon DEF HoldsFrom
    <3> QED BY <1>1, <3>1, <3>2, <3>3, <3>4, <3>5
  <2>10. k \in 1..(Len(script') + 1)
    BY <1>1, <2>5, <2>7
  <2> QED BY <2>2, <2>9, <2>10 DEF AtItem
<1> QED BY <1>2, <1>3, ReplyInvPartsNext

LEMMA ArmedReplies ==
  ASSUME IInv, ReplyInv, NEW n \in 1..MaxChunk, ReadArmed(n)
  PROVE  ReplyInv'
<1>1. /\ pos + n <= Len(input) /\ pos' = pos + n /\ pending' = pending \o Chunk(n) /\ step = "read"
      /\ step' = "demux" /\ armed' = armed /\ resetting' = resetting /\ armed /\ ~ resetting
      /\ UNCHANGED <<script, input, lines, since, aligned>>
  BY DEF ReadArmed, Read, inputVars, otaVars
<1>2. InSession'
  BY ONLY <1>1, Zenon DEF InSession
<1>3. ASSUME OnCleanLink' PROVE Lined' /\ AtItem'
  <2>1. OnCleanLink
    BY ONLY <1>1, <1>3, Zenon DEF OnCleanLink
  <2>2. Lined' /\ AtItem
    BY <1>1, <2>1, LinesStill, ReplyInvParts
  <2>3. PICK k \in 1..(Len(script) + 1) : HoldsFrom(k)
    BY ONLY <1>1, <2>2, Zenon DEF AtItem
  <2>4. /\ Layout /\ pos \in Nat /\ Len(input) \in Nat /\ n \in Nat \ {0} /\ Start(k) \in Nat
        /\ pending \in Seq(Nat) /\ Len(pending) \in Nat
    <3>1. Layout /\ pos \in Nat /\ Len(input) \in Nat /\ pending \in Seq(Nat)
      BY InputLayout, StateFacts
    <3>2. \A i \in 1..(Len(script) + 1) : Start(i) \in Nat
      BY ONLY <3>1, Zenon DEF Layout
    <3>3. Len(pending) \in Nat
      BY ONLY <3>1
    <3>4. n \in Nat \ {0}
      BY StreamAssumption
    <3> QED BY ONLY <3>1, <3>2, <3>3, <3>4, Zenon, k \in 1..(Len(script) + 1)
  <2>5. /\ since <= Start(k) /\ Start(k) + Len(pending) = pos
        /\ pending = [i \in 1..Len(pending) |-> Start(k) + i]
        /\ \A m \in 1..(k - 1) : script[m] \in Replies /\ since <= Start(m) => Contains(lines, Positions(m))
    BY <2>3 DEF HoldsFrom
  <2>6. /\ Chunk(n) \in Seq(Nat) /\ Len(Chunk(n)) = n /\ \A i \in 1..n : Chunk(n)[i] = pos + i
    BY ONLY <2>4 DEF Chunk
  <2>7. /\ Len(pending') = Len(pending) + n
        /\ \A i \in 1..(Len(pending) + n) :
             pending'[i] = IF i <= Len(pending) THEN pending[i] ELSE Chunk(n)[i - Len(pending)]
        /\ pending' \in Seq(Nat)
    <3>1. pending \in Seq(Nat) /\ Chunk(n) \in Seq(Nat)
      BY <2>4, <2>6
    <3> DEFINE c == Chunk(n)
    <3> HIDE DEF c
    <3>2. /\ Len(pending \o c) = Len(pending) + Len(c) /\ pending \o c \in Seq(Nat)
          /\ \A i \in 1..(Len(pending) + Len(c)) :
               (pending \o c)[i] = IF i <= Len(pending) THEN pending[i] ELSE c[i - Len(pending)]
      <4>1. c \in Seq(Nat)
        BY <3>1 DEF c
      <4> QED BY ONLY <3>1, <4>1, ConcatAt, Zenon
    <3>3. Len(c) = n /\ pending' = pending \o c
      BY <1>1, <2>6 DEF c
    <3> QED BY ONLY <3>2, <3>3 DEF c
  <2>8. \A i \in 1..(Len(pending) + n) : pending'[i] = Start(k) + i
    <3> TAKE i \in 1..(Len(pending) + n)
    <3>1. CASE i <= Len(pending)
      <4>1. i \in 1..Len(pending)
        BY ONLY <2>4, <3>1, i \in 1..(Len(pending) + n)
      <4>2. pending[i] = Start(k) + i
        BY ONLY <2>5, <4>1
      <4> QED BY ONLY <2>7, <3>1, <4>2
    <3>2. CASE ~ (i <= Len(pending))
      <4>1. i - Len(pending) \in 1..n /\ pos + (i - Len(pending)) = Start(k) + i
        <5>1. /\ Len(pending) \in Nat /\ n \in Nat /\ pos \in Nat /\ Start(k) \in Nat
              /\ Start(k) + Len(pending) = pos
          BY <2>4, <2>5
        <5> QED BY ONLY <3>2, <5>1, i \in 1..(Len(pending) + n)
      <4> QED BY ONLY <2>6, <2>7, <3>2, <4>1
    <3> QED BY <3>1, <3>2
  <2>9. pending' = [i \in 1..Len(pending') |-> Start(k) + i] /\ Start(k) + Len(pending') = pos'
    <3>1. pending' = [i \in 1..Len(pending') |-> pending'[i]]
      BY ONLY <2>7
    <3>2. pending' = [i \in 1..Len(pending') |-> Start(k) + i]
      BY ONLY <2>7, <2>8, <3>1
    <3>3. /\ Len(pending) \in Nat /\ n \in Nat /\ Start(k) \in Nat /\ pos' = pos + n
          /\ Start(k) + Len(pending) = pos /\ Len(pending') = Len(pending) + n
      BY <1>1, <2>4, <2>5, <2>7
    <3>4. Start(k) + Len(pending') = pos'
      BY ONLY <3>3
    <3> QED BY <3>2, <3>4
  <2>10. HoldsFrom(k)'
    <3>1. Start(k)' = Start(k) /\ \A m : Start(m)' = Start(m) /\ Positions(m)' = Positions(m)
      BY <1>1, SameItems
    <3>2. HoldsFrom(k)' <=>
            /\ since' <= Start(k)' /\ Start(k)' + Len(pending') = pos'
            /\ pending' = [i \in 1..Len(pending') |-> Start(k)' + i]
            /\ step' # "demux" => pending' = <<>> \/ Len(pending') < Len(Bytes(script'[k], k))
            /\ \A m \in 1..(k - 1) : script'[m] \in Replies /\ since' <= Start(m)'
                                       => Contains(lines', Positions(m)')
      BY Zenon DEF HoldsFrom
    <3> QED BY <1>1, <2>5, <2>9, <3>1, <3>2
  <2> QED BY <1>1, <2>2, <2>3, <2>10 DEF AtItem
<1> QED BY <1>2, <1>3, ReplyInvPartsNext

\* The demultiplexer knows a frame by its magic.
LEMMA StartsAtFrame ==
  ASSUME IInv, OnCleanLink, NEW k \in 1..(Len(script) + 1), HoldsFrom(k), StartsFrame
  PROVE  /\ k \in 1..Len(script) /\ script[k] \notin Replies /\ Len(Item(k)) \in 4..8
         /\ Len(pending) >= HeaderSize =>
              LengthsFit(At(pending, 3)) /\ FrameSize(At(pending, 3)) = Len(Item(k))
<1>1. Len(pending) \in Nat /\ Len(pending) > 1 /\ At(pending, 1) = <<"S">>
  BY StateFacts DEF StartsFrame, MagicAt, Magic
<1> DEFINE b == Item(k)
<1>2. /\ k \in 1..Len(script)
      /\ \A i \in 1..Len(b) : i <= Len(pending) => At(pending, i) = b[i]
      /\ \/ script[k] \in Frames \cup {"unknown"} /\ IntactAt(b, script[k], k)
         \/ Len(b) = 2 /\ b[1] # <<"S">>
  BY <1>1, ScanItem
<1> HIDE DEF b
<1>3. script[k] \in Frames \cup {"unknown"} /\ IntactAt(b, script[k], k)
  <2>1. CASE Len(b) = 2 /\ b[1] # <<"S">>
    <3>1. 1 \in 1..Len(b) /\ 1 <= Len(pending)
      BY ONLY <1>1, <2>1
    <3> QED BY ONLY <1>1, <1>2, <2>1, <3>1
  <2> QED BY <1>2, <2>1
<1>4. Len(b) \in 4..8 /\ b[3] = Header(script[k], Len(b) - 4, k)
  BY ONLY <1>3 DEF IntactAt, MaxFrame, HeaderSize, MaxPayload, CrcSize
<1>5. ASSUME Len(pending) >= HeaderSize
      PROVE  LengthsFit(At(pending, 3)) /\ FrameSize(At(pending, 3)) = Len(b)
  <2>1. 3 \in 1..Len(b) /\ 3 <= Len(pending)
    BY ONLY <1>1, <1>4, <1>5 DEF HeaderSize
  <2>2. At(pending, 3) = Header(script[k], Len(b) - 4, k)
    BY ONLY <1>2, <1>4, <2>1
  <2> DEFINE h == At(pending, 3)
  <2> HIDE DEF h
  <2>3. h[1] = "header" /\ h[3] = Len(b) - 4
    <3>1. h = Header(script[k], Len(b) - 4, k)
      BY <2>2 DEF h
    <3> QED BY ONLY <3>1 DEF Header
  <2>4. LengthsFit(h) /\ FrameSize(h) = Len(b)
    <3>1. Len(b) \in 4..8
      BY <1>4
    <3>2. h[3] <= 4
      <4>1. PICK x \in 4..8 : x = Len(b)
        BY ONLY <3>1
      <4>2. h[3] = x - 4
        BY ONLY <2>3, <4>1
      <4>3. x - 4 <= 4
        BY ONLY x \in 4..8
      <4> QED BY ONLY <4>2, <4>3, Zenon
    <3>3. FrameSize(h) = Len(b)
      BY ONLY <2>3, <3>1 DEF FrameSize, HeaderSize, CrcSize
    <3> QED BY ONLY <2>3, <3>2, <3>3 DEF LengthsFit, MaxPayload
  <2> QED BY <2>4 DEF h
<1>6. script[k] \notin Replies
  BY ONLY <1>3 DEF Frames, Replies
<1> QED BY <1>2, <1>4, <1>5, <1>6 DEF b

\* What is no frame is a line, as soon as its newline is there.
LEMMA StartsAtLine ==
  ASSUME IInv, OnCleanLink, NEW k \in 1..(Len(script) + 1), HoldsFrom(k), ~ StartsFrame
  PROVE  \/ pending = <<>>
         \/ /\ k \in 1..Len(script) /\ Len(pending) = 1 /\ Newlines = {}
            /\ Len(Item(k)) > 1
         \/ /\ k \in 1..Len(script) /\ Len(pending) >= 2 /\ Len(Item(k)) = 2
            /\ Newlines # {} /\ Min(Newlines) = 2
            /\ IsReply(2) <=> script[k] \in Replies
            /\ SubSeq(pending, 1, 2) = Positions(k)
<1>0. pending \in Seq(Index) /\ Len(pending) \in Nat
  BY StateFacts
<1>1. CASE Len(pending) = 0
  BY <1>0, <1>1
<1>2. CASE Len(pending) >= 1
  <2> DEFINE b == Item(k)
  <2>1. /\ k \in 1..Len(script)
        /\ \A i \in 1..Len(b) : i <= Len(pending) => pending[i] = Start(k) + i /\ At(pending, i) = b[i]
        /\ \/ IntactAt(b, script[k], k)
           \/ /\ Len(b) = 2 /\ b[1] # <<"S">> /\ b[1] # <<"newline">> /\ b[2] = <<"newline">>
              /\ script[k] \in Replies <=> b[1] = <<"+OTA:">> \/ b[1] = <<"OK">>
    BY <1>2, ScanItem
  <2>2. Layout
    BY InputLayout
  <2>3. Positions(k) = [j \in 1..Len(b) |-> Start(k) + j]
    BY <2>1, <2>2, PositionsAt
  <2> HIDE DEF b
  <2>4. Magic[1] = <<"S">> /\ Magic[2] = <<"D">>
    BY DEF Magic
  <2>5. CASE IntactAt(b, script[k], k)
    <3>1. Len(b) \in 4..8 /\ b[1] = <<"S">> /\ b[2] = <<"D">>
      BY ONLY <2>5 DEF IntactAt, MaxFrame, HeaderSize, MaxPayload, CrcSize
    <3>2. Len(pending) = 1
      <4>1. CASE Len(pending) > 1
        <5>1. 1 \in 1..Len(b) /\ 2 \in 1..Len(b) /\ 1 <= Len(pending) /\ 2 <= Len(pending)
          BY ONLY <1>0, <3>1, <4>1
        <5>2. At(pending, 1) = <<"S">> /\ At(pending, 1 + 1) = <<"D">>
          <6>1. At(pending, 1) = b[1] /\ At(pending, 2) = b[2]
            BY ONLY <2>1, <5>1, Zenon
          <6>2. 1 + 1 = 2
            OBVIOUS
          <6> QED BY ONLY <3>1, <6>1, <6>2, Zenon
        <5>3. StartsFrame
          BY ONLY <2>4, <4>1, <5>2 DEF StartsFrame, MagicAt
        <5> QED BY <5>3
      <4> QED BY ONLY <1>0, <1>2, <4>1
    <3>3. At(pending, 1) = <<"S">>
      <4>1. 1 \in 1..Len(b) /\ 1 <= Len(pending)
        BY ONLY <3>1, <3>2
      <4> QED BY ONLY <2>1, <3>1, <4>1
    <3>4. Newlines = {}
      <4>1. <<"S">> # <<"newline">>
        OBVIOUS
      <4> QED BY ONLY <3>2, <3>3, <4>1 DEF Newlines
    <3>5. Len(b) > 1
      BY ONLY <3>1
    <3> QED BY <2>1, <3>2, <3>4, <3>5 DEF b
  <2>6. CASE /\ Len(b) = 2 /\ b[1] # <<"S">> /\ b[1] # <<"newline">> /\ b[2] = <<"newline">>
             /\ script[k] \in Replies <=> b[1] = <<"+OTA:">> \/ b[1] = <<"OK">>
    <3>1. At(pending, 1) = b[1]
      <4>1. 1 \in 1..Len(b) /\ 1 <= Len(pending)
        BY ONLY <1>0, <1>2, <2>6
      <4> QED BY ONLY <2>1, <4>1
    <3>2. CASE Len(pending) = 1
      <4>1. Newlines = {}
        BY ONLY <2>6, <3>1, <3>2 DEF Newlines
      <4>2. Len(b) > 1
        BY ONLY <2>6
      <4> QED BY <2>1, <3>2, <4>1, <4>2 DEF b
    <3>3. CASE Len(pending) >= 2
      <4>1. 1 \in 1..Len(b) /\ 2 \in 1..Len(b) /\ 1 <= Len(pending) /\ 2 <= Len(pending)
            /\ 2 \in 1..Len(pending)
        BY ONLY <1>0, <2>6, <3>3
      <4>2. At(pending, 2) = <<"newline">> /\ pending[1] = Start(k) + 1 /\ pending[2] = Start(k) + 2
        BY ONLY <2>1, <2>6, <4>1
      <4>3. 2 \in Newlines /\ 1 \notin Newlines /\ Newlines \in SUBSET Nat /\ 0 \notin Newlines
        BY ONLY <1>0, <2>6, <3>1, <4>1, <4>2 DEF Newlines
      <4>4. Min(Newlines) \in Newlines /\ Min(Newlines) <= 2
        BY ONLY <4>3, MinIsMember
      <4>5. Min(Newlines) = 2
        <5> DEFINE m == Min(Newlines)
        <5>1. m \in Nat /\ m <= 2 /\ m # 0 /\ m # 1
          BY ONLY <4>3, <4>4, Zenon
        <5> HIDE DEF m
        <5>2. m = 2
          BY ONLY <5>1
        <5> QED BY <5>2 DEF m
      <4>6. IsReply(2) <=> script[k] \in Replies
        BY ONLY <2>6, <3>1 DEF IsReply
      <4>7. SubSeq(pending, 1, 2) = Positions(k)
        <5>1. SubSeq(pending, 1, 2) = [j \in 1..2 |-> pending[j]]
          BY ONLY <1>0, <4>1
        <5>2. \A j \in 1..2 : pending[j] = Start(k) + j
          BY ONLY <4>2
        <5>3. Positions(k) = [j \in 1..2 |-> Start(k) + j]
          BY ONLY <2>3, <2>6
        <5> QED BY ONLY <5>1, <5>2, <5>3
      <4> QED BY <2>1, <2>6, <3>3, <4>3, <4>5, <4>6, <4>7 DEF b
    <3>4. Len(pending) = 1 \/ Len(pending) >= 2
      <4>1. PICK x \in Nat : x = Len(pending)
        BY ONLY <1>0
      <4>2. x >= 1
        BY ONLY <1>2, <4>1, Zenon
      <4>3. x = 1 \/ x >= 2
        BY ONLY <4>2, x \in Nat
      <4> QED BY ONLY <4>1, <4>3, Zenon
    <3> QED BY ONLY <3>2, <3>3, <3>4, Zenon
  <2> QED BY <2>1, <2>5, <2>6
<1>3. Len(pending) = 0 \/ Len(pending) >= 1
  <2>1. PICK x \in Nat : x = Len(pending)
    BY ONLY <1>0
  <2>2. x = 0 \/ x >= 1
    BY ONLY x \in Nat
  <2> QED BY ONLY <2>1, <2>2, Zenon
<1> QED BY ONLY <1>1, <1>2, <1>3, Zenon

\* A step that leaves the demultiplexer alone.
LEMMA QuietReplies ==
  ASSUME ReplyInv, step # "demux", step' # "demux",
         armed' = armed, resetting' = resetting, aligned' = aligned,
         UNCHANGED <<script, input, since, pos, pending, lines>>
  PROVE  ReplyInv'
<1>1. InSession'
  BY DEF InSession
<1>2. ASSUME OnCleanLink' PROVE Lined' /\ AtItem'
  <2>0. script' = script
    OBVIOUS
  <2>1. OnCleanLink
    BY ONLY <1>2, <2>0, aligned' = aligned, Zenon DEF OnCleanLink
  <2>2. Lined /\ AtItem
    BY <2>1, ReplyInvParts
  <2>3. Lined'
    BY <2>2, LinesStill
  <2>4. ASSUME armed', ~ resetting' PROVE \E k \in 1..(Len(script') + 1) : HoldsFrom(k)'
    <3>1. PICK k \in 1..(Len(script) + 1) : HoldsFrom(k)
      BY ONLY <2>2, <2>4, armed' = armed, resetting' = resetting, Zenon DEF AtItem
    <3>2. HoldsFrom(k)'
      BY <3>1, HoldsStill
    <3> QED BY <2>0, <3>1, <3>2
  <2>5. AtItem'
    BY ONLY <2>4, Zenon DEF AtItem
  <2> QED BY <2>3, <2>5
<1> QED BY <1>1, <1>2, ReplyInvPartsNext

\* A step after which no session is running.
LEMMA IdleReplies ==
  ASSUME ReplyInv, step' # "demux", ~ armed' \/ resetting', aligned' = aligned,
         UNCHANGED <<script, input, lines>>
  PROVE  ReplyInv'
<1>1. InSession' /\ AtItem'
  BY DEF InSession, AtItem
<1>2. ASSUME OnCleanLink' PROVE Lined'
  <2>0. script' = script
    OBVIOUS
  <2>1. OnCleanLink
    BY ONLY <1>2, <2>0, aligned' = aligned, Zenon DEF OnCleanLink
  <2>2. Lined
    BY <2>1, ReplyInvParts
  <2> QED BY <2>2, LinesStill
<1> QED BY <1>1, <1>2, ReplyInvPartsNext

\* What a step of the scan starts from, and what it has to show.
LEMMA ScanReplies ==
  ASSUME ReplyInv, step = "demux", armed' = armed, resetting' = resetting, aligned' = aligned,
         script' = script,
         ASSUME OnCleanLink, Lined, NEW k \in 1..(Len(script) + 1), HoldsFrom(k)
         PROVE  Lined' /\ \E m \in 1..(Len(script) + 1) : HoldsFrom(m)'
  PROVE  ReplyInv'
<1>1. armed /\ ~ resetting
  BY ReplyInvParts DEF InSession
<1>2. InSession'
  <2>1. armed' /\ ~ resetting'
    BY ONLY <1>1, armed' = armed, resetting' = resetting, Zenon
  <2> QED BY ONLY <2>1, Zenon DEF InSession
<1>3. ASSUME OnCleanLink' PROVE Lined' /\ AtItem'
  <2>1. OnCleanLink
    BY ONLY <1>3, script' = script, aligned' = aligned, Zenon DEF OnCleanLink
  <2>2. Lined /\ AtItem
    BY <2>1, ReplyInvParts
  <2>3. PICK k \in 1..(Len(script) + 1) : HoldsFrom(k)
    BY ONLY <1>1, <2>2, Zenon DEF AtItem
  <2>4. Lined' /\ \E m \in 1..(Len(script) + 1) : HoldsFrom(m)'
    BY <2>1, <2>2, <2>3
  <2>5. \E m \in 1..(Len(script') + 1) : HoldsFrom(m)'
    BY <2>4
  <2> QED BY ONLY <2>4, <2>5, Zenon DEF AtItem
<1> QED BY <1>2, <1>3, ReplyInvPartsNext

LEMMA DemuxFrameReplies ==
  ASSUME IInv, ReplyInv, DemuxFrame
  PROVE  ReplyInv'
<1>1. /\ step = "demux" /\ step' = step /\ StartsFrame /\ Len(pending) >= HeaderSize
      /\ armed' = armed /\ resetting' = resetting /\ aligned' = aligned
      /\ UNCHANGED <<script, input, since, pos, lines>>
      /\ Len(pending) >= FrameSize(At(pending, 3))
      /\ pending' = SubSeq(pending, FrameSize(At(pending, 3)) + 1, Len(pending))
  BY DEF DemuxFrame, Scanning, Pass, inputVars, otaVars
<1>2. ASSUME OnCleanLink, Lined, NEW k \in 1..(Len(script) + 1), HoldsFrom(k)
      PROVE  Lined' /\ \E m \in 1..(Len(script) + 1) : HoldsFrom(m)'
  <2>1. /\ k \in 1..Len(script) /\ script[k] \notin Replies
        /\ FrameSize(At(pending, 3)) = Len(Item(k)) /\ Len(Item(k)) \in 4..8
    BY <1>1, <1>2, StartsAtFrame
  <2>2. PICK n \in 4..8 : n = Len(Item(k))
    BY <2>1
  <2>3. n <= Len(pending) /\ pending' = SubSeq(pending, n + 1, Len(pending))
    <3>1. Len(pending) \in Nat
      BY StateFacts
    <3> QED BY <1>1, <2>1, <2>2, <3>1
  <2>4. k + 1 \in 1..(Len(script) + 1) /\ HoldsFrom(k + 1)'
    BY <1>1, <1>2, <2>1, <2>2, <2>3, TakeItem
  <2>5. Lined'
    BY <1>1, <1>2, LinesStill
  <2> QED BY <2>4, <2>5
<1> QED BY <1>1, <1>2, ScanReplies

LEMMA DemuxResyncReplies ==
  ASSUME IInv, ReplyInv, DemuxResync
  PROVE  ReplyInv'
<1>1. /\ step = "demux" /\ StartsFrame /\ Len(pending) >= HeaderSize
      /\ armed' = armed /\ resetting' = resetting /\ aligned' = aligned
      /\ script' = script /\ ~ LengthsFit(At(pending, 3))
  BY DEF DemuxResync, Scanning, Pass, inputVars, otaVars
<1>2. ASSUME OnCleanLink, Lined, NEW k \in 1..(Len(script) + 1), HoldsFrom(k)
      PROVE  Lined' /\ \E m \in 1..(Len(script) + 1) : HoldsFrom(m)'
  <2>1. LengthsFit(At(pending, 3))
    BY <1>1, <1>2, StartsAtFrame
  <2> QED BY <1>1, <2>1
<1> QED BY <1>1, <1>2, ScanReplies

LEMMA DemuxLineReplies ==
  ASSUME IInv, ReplyInv, DemuxLine
  PROVE  ReplyInv'
<1> DEFINE n == Min(Newlines)
<1>1. /\ step = "demux" /\ step' = step /\ ~ StartsFrame /\ Newlines # {}
      /\ armed' = armed /\ resetting' = resetting /\ aligned' = aligned
      /\ UNCHANGED <<script, input, since, pos>>
      /\ pending' = SubSeq(pending, n + 1, Len(pending))
      /\ \/ ~ IsReply(n) /\ lines' = lines
         \/ IsReply(n) /\ lines' = Append(lines, SubSeq(pending, 1, n))
  BY DEF DemuxLine, Scanning, Pass, inputVars, otaVars
<1>2. ASSUME OnCleanLink, Lined, NEW k \in 1..(Len(script) + 1), HoldsFrom(k)
      PROVE  Lined' /\ \E m \in 1..(Len(script) + 1) : HoldsFrom(m)'
  <2>0. pending # <<>>
    <3>1. PICK i \in 1..Len(pending) : TRUE
      BY <1>1 DEF Newlines
    <3>2. Len(<<>>) = 0
      OBVIOUS
    <3> QED BY <3>1, <3>2
  <2>1. /\ k \in 1..Len(script) /\ Len(pending) >= 2 /\ Len(Item(k)) = 2 /\ n = 2
        /\ IsReply(2) <=> script[k] \in Replies
        /\ SubSeq(pending, 1, 2) = Positions(k)
    BY <1>1, <1>2, <2>0, StartsAtLine
  <2>2. pending' = SubSeq(pending, 2 + 1, Len(pending)) /\ 2 <= Len(pending) /\ step' = "demux"
    <3>1. Len(pending) \in Nat
      BY StateFacts
    <3> QED BY <1>1, <2>1, <3>1
  <2>3. Layout
    BY InputLayout
  <2>4. CASE script[k] \in Replies
    <3>1. lines' = Append(lines, Positions(k))
      BY <1>1, <2>1, <2>4
    <3>2. /\ Lined' /\ Contains(lines', Positions(k))
          /\ \A p : Contains(lines, p) => Contains(lines', p)
      BY <1>1, <1>2, <2>1, <2>3, <2>4, <3>1, LinesMore
    <3>3. k + 1 \in 1..(Len(script) + 1) /\ HoldsFrom(k + 1)'
      BY <1>1, <1>2, <2>1, <2>2, <3>2, TakeItem
    <3> QED BY <3>2, <3>3
  <2>5. CASE script[k] \notin Replies
    <3>1. lines' = lines
      BY <1>1, <2>1, <2>5
    <3>2. Lined'
      BY <1>1, <1>2, <3>1, LinesStill
    <3>3. k + 1 \in 1..(Len(script) + 1) /\ HoldsFrom(k + 1)'
      BY <1>1, <1>2, <2>1, <2>2, <2>5, <3>1, TakeItem
    <3> QED BY <3>2, <3>3
  <2> QED BY <2>4, <2>5
<1> HIDE DEF n
<1> QED BY <1>1, <1>2, ScanReplies

\* On a clean link nothing is ever too long to be held.
LEMMA DemuxHoldReplies ==
  ASSUME IInv, ReplyInv, DemuxHold
  PROVE  ReplyInv'
<1>1. /\ step = "demux" /\ step' # "demux"
      /\ armed' = armed /\ resetting' = resetting /\ aligned' = aligned
      /\ UNCHANGED <<script, input, since, pos, lines>>
      /\ \/ /\ StartsFrame
            /\ Len(pending) >= HeaderSize => Len(pending) < FrameSize(At(pending, 3))
         \/ ~ StartsFrame /\ Newlines = {}
      /\ pending' = IF Residue = <<>> THEN pending ELSE <<>>
  BY DEF DemuxHold, inputVars, otaVars
<1>2. ASSUME OnCleanLink, Lined, NEW k \in 1..(Len(script) + 1), HoldsFrom(k)
      PROVE  Lined' /\ \E m \in 1..(Len(script) + 1) : HoldsFrom(m)'
  <2>0. Len(pending) \in Nat /\ MaxLine \in Nat \ {0}
    BY StateFacts
  <2>1. Lined'
    BY <1>1, <1>2, LinesStill
  <2>2. /\ Residue = <<>>
        /\ pending = <<>> \/ Len(pending) < Len(Item(k))
    <3>1. CASE StartsFrame
      <4>1. Residue = <<>>
        BY <3>1 DEF Residue, IsFramePrefix
      <4>2. Len(Item(k)) \in 4..8 /\ (Len(pending) >= 3 => FrameSize(At(pending, 3)) = Len(Item(k)))
        BY <1>2, <3>1, StartsAtFrame DEF HeaderSize
      <4>3. Len(pending) >= 3 => Len(pending) < Len(Item(k))
        BY ONLY <1>1, <3>1, <4>2 DEF HeaderSize
      <4>4. Len(pending) < Len(Item(k))
        <5>1. PICK x \in Nat, y \in 4..8 : x = Len(pending) /\ y = Len(Item(k))
          BY ONLY <2>0, <4>2
        <5>2. x >= 3 => x < y
          BY ONLY <4>3, <5>1, Zenon
        <5>3. x < y
          BY ONLY <5>2, x \in Nat, y \in 4..8
        <5> QED BY ONLY <5>1, <5>3, Zenon
      <4> QED BY <4>1, <4>4
    <3>2. CASE ~ StartsFrame
      <4>1. \/ pending = <<>>
            \/ Len(pending) = 1 /\ Len(Item(k)) > 1
        BY <1>1, <1>2, <3>2, StartsAtLine
      <4>2. Residue = <<>>
        <5>1. ~ (Len(pending) > MaxLine)
          <6>1. Len(<<>>) = 0
            OBVIOUS
          <6>2. Len(pending) = 0 \/ Len(pending) = 1
            BY ONLY <4>1, <6>1
          <6>3. PICK x \in Nat, y \in Nat \ {0} : x = Len(pending) /\ y = MaxLine
            BY ONLY <2>0
          <6>4. x = 0 \/ x = 1
            BY ONLY <6>2, <6>3, Zenon
          <6>5. ~ (x > y)
            BY ONLY <6>4, x \in Nat, y \in Nat \ {0}
          <6> QED BY ONLY <6>3, <6>5, Zenon
        <5> QED BY ONLY <5>1, Zenon DEF Residue
      <4> QED BY <4>1, <4>2
    <3> QED BY <1>1, <3>1, <3>2
  <2>3. pending' = pending
    BY <1>1, <2>2
  <2>4. HoldsFrom(k)'
    <3>1. \A m : Start(m)' = Start(m) /\ Positions(m)' = Positions(m) /\ Item(m)' = Item(m)
      BY <1>1, SameItems
    <3>2. HoldsFrom(k)' <=>
            /\ since' <= Start(k)' /\ Start(k)' + Len(pending') = pos'
            /\ pending' = [i \in 1..Len(pending') |-> Start(k)' + i]
            /\ step' # "demux" => pending' = <<>> \/ Len(pending') < Len(Item(k)')
            /\ \A m \in 1..(k - 1) : script'[m] \in Replies /\ since' <= Start(m)'
                                       => Contains(lines', Positions(m)')
      BY Zenon DEF HoldsFrom, Item
    <3>3. /\ since <= Start(k) /\ Start(k) + Len(pending) = pos
          /\ pending = [i \in 1..Len(pending) |-> Start(k) + i]
          /\ \A m \in 1..(k - 1) : script[m] \in Replies /\ since <= Start(m) => Contains(lines, Positions(m))
      BY <1>2 DEF HoldsFrom
    <3> QED BY <1>1, <2>2, <2>3, <3>1, <3>2, <3>3
  <2> QED BY <1>2, <2>1, <2>4
<1> QED BY <1>1, <1>2, ScanReplies

LEMMA InitReplies == Init => ReplyInv
<1> SUFFICES ASSUME Init PROVE ReplyInv
  OBVIOUS
<1>1. ~ armed /\ step # "demux" /\ lines = <<>>
  BY DEF Init
<1>2. InSession /\ AtItem
  BY ONLY <1>1, Zenon DEF InSession, AtItem
<1>3. Lined
  BY ONLY <1>1 DEF Lined
<1> QED BY <1>2, <1>3, ReplyInvParts

LEMMA NextReplies == IInv /\ ReplyInv /\ [Next]_vars => ReplyInv'
<1> SUFFICES ASSUME IInv, ReplyInv, [Next]_vars PROVE ReplyInv'
  OBVIOUS
<1>1. CASE StartOta
  <2>1. /\ step' # "demux" /\ resetting' /\ aligned' = aligned /\ UNCHANGED <<script, input, lines>>
    BY <1>1 DEF StartOta, inputVars, demuxVars
  <2> QED BY <2>1, IdleReplies
<1>2. CASE EndOta
  <2>1. /\ step' # "demux" /\ ~ armed' /\ aligned' = aligned /\ UNCHANGED <<script, input, lines>>
    BY <1>2 DEF EndOta, inputVars, demuxVars
  <2> QED BY <2>1, IdleReplies
<1>3. CASE \E n \in 1..MaxChunk : ReadReset(n) \/ ReadArmed(n) \/ ReadPlain(n)
  <2>1. PICK n \in 1..MaxChunk : ReadReset(n) \/ ReadArmed(n) \/ ReadPlain(n)
    BY <1>3
  <2>2. CASE ReadReset(n)
    BY <2>2, ResetReplies
  <2>3. CASE ReadArmed(n)
    BY <2>3, ArmedReplies
  <2>4. CASE ReadPlain(n)
    <3>1. /\ step' # "demux" /\ aligned' = aligned /\ UNCHANGED <<script, input, lines>>
          /\ ~ armed /\ armed' = armed
      BY <2>4 DEF ReadPlain, inputVars, otaVars
    <3>2. ~ armed'
      BY ONLY <3>1, Zenon
    <3> QED BY <3>1, <3>2, IdleReplies
  <2> QED BY <2>1, <2>2, <2>3, <2>4
<1>4. CASE Demux
  BY <1>4, DemuxFrameReplies, DemuxResyncReplies, DemuxLineReplies, DemuxHoldReplies DEF Demux
<1>5. CASE Parser
  <2>1. /\ step = "parse" /\ (step' = step \/ step' = "read")
        /\ armed' = armed /\ resetting' = resetting /\ aligned' = aligned
        /\ UNCHANGED <<script, input, since, pos, pending, lines>>
    BY <1>5 DEF Parser, ParserSkip, ParserNoMagic, ParserWait, ParserInvalid, ParserCrcError,
                ParserFrame, AtMagic, Parsing, inputVars, otaVars, demuxVars
  <2>2. step # "demux" /\ step' # "demux"
    BY ONLY <2>1
  <2> QED BY <2>1, <2>2, QuietReplies
<1>6. CASE UNCHANGED vars
  <2>1. UNCHANGED <<script, input, since, pos, step, pending, lines, armed, resetting, aligned>>
    BY <1>6 DEF vars, inputVars, otaVars, demuxVars
  <2>2. CASE step # "demux"
    BY <2>1, <2>2, QuietReplies
  <2>3. CASE step = "demux"
    <3>0. armed' = armed /\ resetting' = resetting /\ aligned' = aligned /\ script' = script
      BY <2>1
    <3>1. ASSUME OnCleanLink, Lined, NEW k \in 1..(Len(script) + 1), HoldsFrom(k)
          PROVE  Lined' /\ \E m \in 1..(Len(script) + 1) : HoldsFrom(m)'
      <4>1. Lined'
        BY <2>1, <3>1, LinesStill
      <4>2. HoldsFrom(k)'
        BY <2>1, <3>1, HoldsStill
      <4> QED BY <4>1, <4>2
    <3> QED BY <2>3, <3>0, <3>1, ScanReplies
  <2> QED BY <2>2, <2>3
<1> QED BY <1>1, <1>2, <1>3, <1>4, <1>5, <1>6 DEF Next

\* After a scan every item that is all in has been dealt with.
LEMMA ItemDone ==
  ASSUME IInv, NEW k \in 1..(Len(script) + 1), HoldsFrom(k), step # "demux",
         NEW m \in 1..Len(script), ToSet(Positions(m)) \subseteq (since + 1)..pos
  PROVE  m \in 1..(k - 1) /\ since <= Start(m)
<1>1. Layout /\ pos \in Nat /\ since \in Nat /\ Len(pending) \in Nat /\ Len(script) \in Nat
  <2>1. Layout
    BY InputLayout
  <2>2. Len(script) \in Nat
    BY <2>1 DEF Layout
  <2>3. /\ pos \in Nat /\ pending \in Seq(Index) /\ since \in 0..Len(input) /\ Len(input) \in Nat
    BY StateFacts
  <2>4. since \in Nat
    BY ONLY <2>3
  <2>5. Len(pending) \in Nat
    BY ONLY <2>3
  <2> QED BY ONLY <2>1, <2>2, <2>3, <2>4, <2>5, Zenon
<1>2. m \in 1..(Len(script) + 1)
  BY <1>1
<1>3. /\ Start(m) \in Nat /\ Start(k) \in Nat /\ Len(Item(m)) \in Nat \ {0}
      /\ k <= m => Start(k) <= Start(m)
      /\ Start(Len(script) + 1) = Len(input)
  BY <1>1, <1>2 DEF Layout
<1>4. ToSet(Positions(m)) = (Start(m) + 1)..(Start(m) + Len(Item(m)))
  BY <1>1, PositionsAt
<1>5. since <= Start(m) /\ Start(m) + Len(Item(m)) <= pos
  <2>1. /\ Start(m) + 1 \in (Start(m) + 1)..(Start(m) + Len(Item(m)))
        /\ Start(m) + Len(Item(m)) \in (Start(m) + 1)..(Start(m) + Len(Item(m)))
    BY ONLY <1>3
  <2>2. Start(m) + 1 \in (since + 1)..pos /\ Start(m) + Len(Item(m)) \in (since + 1)..pos
    BY <1>4, <2>1
  <2>3. PICK s \in Nat, a \in Nat, l \in Nat \ {0} : s = since /\ a = Start(m) /\ l = Len(Item(m))
    BY ONLY <1>1, <1>3
  <2>4. a + 1 \in (s + 1)..pos /\ a + l \in (s + 1)..pos /\ pos \in Nat
    BY ONLY <1>1, <2>2, <2>3, Zenon
  <2>5. s <= a /\ a + l <= pos
    BY ONLY <2>4, s \in Nat, a \in Nat, l \in Nat \ {0}
  <2> QED BY ONLY <2>3, <2>5, Zenon
<1>6. /\ Start(k) + Len(pending) = pos
      /\ pending = <<>> \/ Len(pending) < Len(Item(k))
  BY DEF HoldsFrom, Item
<1>7. CASE k <= m
  <2>1. k \in 1..Len(script)
    BY <1>1, <1>7
  <2>2. Len(Item(k)) \in Nat \ {0} /\ Start(k + 1) = Start(k) + Len(Item(k))
    BY <1>1, <2>1 DEF Layout
  <2>3. Len(pending) < Len(Item(k))
    <3>1. Len(<<>>) = 0
      OBVIOUS
    <3>2. pending = <<>> => Len(pending) = 0
      BY ONLY <3>1, Zenon
    <3>3. Len(pending) = 0 => Len(pending) < Len(Item(k))
      BY ONLY <2>2
    <3> QED BY ONLY <1>6, <3>2, <3>3, Zenon
  <2>4. k = m \/ k + 1 <= m
    BY ONLY <1>1, <1>7
  <2>5. CASE k = m
    <3>1. Start(k) + Len(Item(k)) <= pos
      BY <1>5, <2>5
    <3> QED BY ONLY <1>1, <1>3, <1>6, <2>2, <2>3, <3>1
  <2>6. CASE k + 1 <= m
    <3>1. k + 1 \in 1..(Len(script) + 1)
      BY ONLY <1>1, <2>1
    <3>2. Start(k + 1) <= Start(m)
      BY <1>1, <1>2, <2>6, <3>1 DEF Layout
    <3>3. PICK a \in Nat, c \in Nat, x \in Nat, y \in Nat \ {0}, l \in Nat \ {0} :
            a = Start(k) /\ c = Start(m) /\ x = Len(pending) /\ y = Len(Item(k)) /\ l = Len(Item(m))
      BY ONLY <1>1, <1>3, <2>2
    <3>4. a + y <= c /\ c + l <= pos /\ a + x = pos /\ x < y
      BY ONLY <1>5, <1>6, <2>2, <2>3, <3>2, <3>3, Zenon
    <3>5. FALSE
      BY ONLY <3>4, a \in Nat, c \in Nat, x \in Nat, y \in Nat \ {0}, l \in Nat \ {0}
    <3> QED BY <3>5
  <2> QED BY <2>4, <2>5, <2>6
<1>8. CASE ~ (k <= m)
  <2>1. m \in 1..(k - 1)
    BY ONLY <1>1, <1>8
  <2> QED BY <1>5, <2>1
<1> QED BY <1>7, <1>8

LEMMA RepliesTaken == IInv /\ ReplyInv => RepliesSeparated
<1> SUFFICES ASSUME IInv, ReplyInv, OnCleanLink
             PROVE  /\ \A i \in 1..Len(lines) : LET k == input[lines[i][1]].item IN
                         script[k] \in Replies /\ lines[i] = Positions(k)
                    /\ armed /\ ~ resetting /\ step = "read" =>
                         \A k \in 1..Len(script) :
                           script[k] \in Replies /\ ToSet(Positions(k)) \subseteq (since + 1)..pos
                             => Contains(lines, Positions(k))
  BY DEF RepliesSeparated, OnCleanLink
<1>1. Lined /\ AtItem
  BY ReplyInvParts
<1>2. Layout
  BY InputLayout
<1>3. ASSUME NEW i \in 1..Len(lines)
      PROVE  script[input[lines[i][1]].item] \in Replies
             /\ lines[i] = Positions(input[lines[i][1]].item)
  <2>1. PICK k \in 1..Len(script) : script[k] \in Replies /\ lines[i] = Positions(k)
    BY <1>1, <1>3 DEF Lined
  <2>2. 1 \in 1..Len(Item(k))
    BY <1>2 DEF Layout
  <2>3. Positions(k)[1] = Start(k) + 1
    BY <1>2, <2>2, PositionsAt
  <2>4. input[Start(k) + 1].item = k
    BY <1>2, <2>2 DEF Layout
  <2>5. input[lines[i][1]].item = k
    BY <2>1, <2>3, <2>4
  <2> QED BY <2>1, <2>5
<1>4. ASSUME armed, ~ resetting, step = "read", NEW m \in 1..Len(script), script[m] \in Replies,
             ToSet(Positions(m)) \subseteq (since + 1)..pos
      PROVE  Contains(lines, Positions(m))
  <2>1. PICK k \in 1..(Len(script) + 1) : HoldsFrom(k)
    BY ONLY <1>1, <1>4, Zenon DEF AtItem
  <2>2. step # "demux"
    BY ONLY <1>4
  <2>3. m \in 1..(k - 1) /\ since <= Start(m)
    BY <1>4, <2>1, <2>2, ItemDone
  <2> QED BY <1>4, <2>1, <2>3 DEF HoldsFrom
<1> QED BY <1>3, <1>4

-----------------------------------------------------------------------------
(* The theorems.                                                             *)

\* The inductive invariant holds in every reachable state.
THEOREM Inductive == Spec => []IInv
BY InitIInv, NextIInv, PTL DEF Spec

\* Between two reads StreamParser holds less than a frame and StreamDemultiplexer less
\* than a frame or a line, whatever the device sends and however it is cut into chunks.
THEOREM TypeCorrect == Spec => []TypeOK
<1>1. IInv => TypeOK
  BY DEF IInv
<1> QED BY <1>1, Inductive, PTL

\* Every byte read is fed to the parser once and in order, is part of one reply line, is
\* held by the demultiplexer, or was in it when a new OTA session reset it.
THEOREM NoByteLost == Spec => []BytesConserved
<1>1. IInv => BytesConserved
  <2> SUFFICES ASSUME IInv PROVE Increasing(Passing)
    BY DEF IInv, ByteInv, BytesConserved
  <2>1. Sorted(Passing) /\ Len(Passing) \in Nat
    BY StateFacts, PassingFacts DEF IInv, ByteInv, Passing
  <2> QED BY <2>1 DEF Increasing, Sorted
<1> QED BY <1>1, Inductive, PTL

\* StreamParser decodes the intact frames of what it is fed, byte for byte, each once and
\* in order, whatever lies between them: resynchronisation after a false magic, a wrong
\* length or a wrong CRC never runs past the start of a frame.
THEOREM FramesIntact == Spec => []IntactFramesDecoded
<1>1. Init => IInv /\ FrameInv
  BY InitIInv, InitFrames
<1>2. IInv /\ FrameInv /\ [Next]_vars => (IInv /\ FrameInv)'
  BY NextIInv, NextFrames
<1>3. IInv /\ FrameInv => IntactFramesDecoded
  BY FramesDecoded
<1> QED BY <1>1, <1>2, <1>3, PTL DEF Spec

\* StreamDemultiplexer takes exactly the device's replies out of a clean stream, however
\* it is cut into chunks: no line comes from the payload of a frame, and no reply read in
\* the session is missing.
THEOREM RepliesApart == Spec => []RepliesSeparated
<1>1. Init => IInv /\ ReplyInv
  BY InitIInv, InitReplies
<1>2. IInv /\ ReplyInv /\ [Next]_vars => (IInv /\ ReplyInv)'
  BY NextIInv, NextReplies
<1>3. IInv /\ ReplyInv => RepliesSeparated
  BY RepliesTaken
<1> QED BY <1>1, <1>2, <1>3, PTL DEF Spec
=============================================================================
