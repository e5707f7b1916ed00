--------------------------- MODULE PlaybackProofs ---------------------------
(***************************************************************************)
(* For every set of archive files, whatever they hold, and every number of *)
(* operations: the live views belong to the acquisition or to one file,    *)
(* the envelope keeps the peaks of a snapshot, and what playback shows is  *)
(* the record (DisplayInv, by induction over the steps; in a step, by      *)
(* induction over the frames that are applied).                            *)
(***************************************************************************)
EXTENDS Playback, SequenceTheorems, FiniteSetTheorems, WellFoundedInduction, TLAPS

\* Removing one of a sequence's elements.
LEMMA RemoveAtType ==
  ASSUME NEW S, NEW s \in Seq(S), NEW k \in 1..Len(s)
  PROVE  RemoveAt(s, k) \in Seq(S)
<1>1. SubSeq(s, 1, k - 1) \in Seq(S) /\ SubSeq(s, k + 1, Len(s)) \in Seq(S)
  OBVIOUS
<1> QED
  BY <1>1 DEF RemoveAt

\* The views' owners have names of their own.
LEMMA Owners == None \notin Paths /\ "live" \notin Paths /\ None # "live"
BY PlaybackAssumption

LEMMA InitViewInv == Init => ViewInv
<1> SUFFICES ASSUME Init PROVE ViewInv
  OBVIOUS
<1>1. jobs = <<>> /\ file = None /\ view = None /\ playing = FALSE /\ paused = FALSE /\ active = FALSE
  BY DEF Init
<1>2. ViewsNeverMix
  BY <1>1 DEF ViewsNeverMix
<1>3. jobs \in Seq(Paths)
  BY <1>1
<1> QED
  BY <1>1, <1>2, <1>3 DEF ViewInv

\* The snapshot of a file that an active playback shows.
LEMMA FillShowsFile ==
  ASSUME ViewInv, active, active' = active, NEW d, NEW c, NEW t, Fill(d, c, t)
  PROVE  ViewsNeverMix'
BY Owners DEF ViewInv, ViewsNeverMix, Fill, UpdateSnapshot, SetCurves

LEMMA UserViewInv == ViewInv /\ User => ViewInv'
<1> SUFFICES ASSUME ViewInv, User PROVE ViewInv'
  OBVIOUS
<1> USE Owners DEF ViewInv
<1>1. ASSUME NEW p \in Paths, OpenForPlayback(p) PROVE ViewInv'
  BY <1>1, AppendProperties DEF OpenForPlayback, controlVars, ViewsNeverMix
<1>2. ASSUME NEW t \in 0..MaxTime, SeekRequested(t) PROVE ViewInv'
  <2>1. active /\ active' = active
    BY <1>2 DEF SeekRequested
  <2>2. ViewsNeverMix'
    BY <1>2, <2>1, FillShowsFile DEF SeekRequested, Seek
  <2> QED
    BY <1>2, <2>2 DEF SeekRequested
<1>3. CASE Play
  <2>1. active /\ active' = active
    BY <1>3 DEF Play
  <2>2. ASSUME Seek(0) PROVE ViewsNeverMix'
    BY <2>1, <2>2, FillShowsFile DEF Seek
  <2>3. ASSUME UNCHANGED view PROVE ViewsNeverMix'
    BY <2>1, <2>3 DEF ViewsNeverMix
  <2>4. ViewsNeverMix'
    BY <1>3, <2>2, <2>3 DEF Play
  <2> QED
    BY <1>3, <2>4 DEF Play
<1>4. CASE Pause
  BY <1>4 DEF Pause, ViewsNeverMix
<1>5. CASE Stop
  BY <1>5 DEF Stop, ViewsNeverMix
<1>6. CASE SetDisplayPaused
  BY <1>6 DEF SetDisplayPaused, controlVars, ViewsNeverMix
<1>7. ASSUME NEW w \in Windows, SetWindow(w) PROVE ViewInv'
  BY <1>7 DEF SetWindow, controlVars, ViewsNeverMix
<1> QED
  BY <1>1, <1>2, <1>3, <1>4, <1>5, <1>6, <1>7 DEF User

LEMMA NextViewInv == ViewInv /\ [Next]_vars => ViewInv'
<1> SUFFICES ASSUME ViewInv, [Next]_vars PROVE ViewInv'
  OBVIOUS
<1> USE Owners DEF ViewInv
<1>1. CASE LiveSnapshot
  BY <1>1 DEF LiveSnapshot, UpdateSnapshot, SetCurves, controlVars, ViewsNeverMix
<1>2. CASE ClearLiveViews
  BY <1>2 DEF ClearLiveViews, controlVars, ViewsNeverMix
<1>3. ASSUME NEW k \in DOMAIN jobs, Load(k) PROVE ViewInv'
  <2>1. jobs[k] \in Paths /\ jobs' \in Seq(Paths)
    BY <1>3, RemoveAtType DEF Load
  <2> QED
    BY <1>3, <2>1 DEF Load, ShowPlayback, ViewsNeverMix
<1>4. ASSUME NEW k \in DOMAIN jobs, IndexFails(k) PROVE ViewInv'
  BY <1>4, RemoveAtType DEF IndexFails, controlVars, ViewsNeverMix
<1>5. ASSUME NEW n \in 1..MaxStep, Tick(n) PROVE ViewInv'
  <2>1. active /\ active' = active
    BY <1>5 DEF Tick
  <2>2. ViewsNeverMix'
    BY <1>5, <2>1, FillShowsFile DEF Tick
  <2> QED
    BY <1>5, <2>1, <2>2 DEF Tick
<1>6. CASE UNCHANGED vars
  BY <1>6 DEF vars, controlVars, ViewsNeverMix
<1> QED
  BY <1>1, <1>2, <1>3, <1>4, <1>5, <1>6, UserViewInv DEF Next

\* Live samples and a file's never share the views, whatever files are opened and
\* whenever their index is ready (clear_live_views, set_playback_active,
\* update_live_snapshot, exit_playback).
THEOREM ViewsSeparated == Spec => []ViewsNeverMix
<1>1. Init => ViewInv
  BY InitViewInv
<1>2. ViewInv /\ [Next]_vars => ViewInv'
  BY NextViewInv
<1>3. ViewInv => ViewsNeverMix
  BY DEF ViewInv
<1> QED
  BY <1>1, <1>2, <1>3, PTL DEF Spec

-----------------------------------------------------------------------------
(* Numbers and sets.                                                         *)

LEMMA LeastNatural ==
  ASSUME NEW T \in SUBSET Nat, T # {}
  PROVE  \E n \in T : \A m \in T : n <= m
<1> DEFINE B == {0..(n - 1) : n \in T}
<1>1. IsWellFoundedOn(StrictSubsetOrdering(Nat), FiniteSubsetsOf(Nat))
  BY FS_StrictSubsetOrderingWellFounded
<1>2. B \subseteq FiniteSubsetsOf(Nat) /\ B # {}
  <2>1. ASSUME NEW n \in T PROVE 0..(n - 1) \in FiniteSubsetsOf(Nat)
    <3>1. n \in Nat /\ 0..(n - 1) \subseteq Nat
      OBVIOUS
    <3>2. IsFiniteSet(0..(n - 1))
      BY <3>1, FS_Interval
    <3> QED BY <3>1, <3>2 DEF FiniteSubsetsOf
  <2> QED BY <2>1
<1>3. \E b \in B : \A c \in B : ~ (<<c, b>> \in StrictSubsetOrdering(Nat))
  <2> HIDE DEF B
  <2> QED BY <1>1, <1>2, WFMin
<1>4. PICK n \in T : \A m \in T : ~ (<<0..(m - 1), 0..(n - 1)>> \in StrictSubsetOrdering(Nat))
  BY <1>3
<1>5. ASSUME NEW m \in T, m < n PROVE FALSE
  <2>1. /\ 0..(m - 1) \subseteq 0..(n - 1) /\ m \in 0..(n - 1) /\ m \notin 0..(m - 1)
        /\ 0..(m - 1) \subseteq Nat /\ 0..(n - 1) \subseteq Nat
    BY <1>5
  <2> QED BY <1>4, <2>1 DEF StrictSubsetOrdering
<1> QED BY <1>5

LEMMA MinIsMember ==
  ASSUME NEW T \in SUBSET Nat, T # {}
  PROVE  Min(T) \in T /\ \A m \in T : Min(T) <= m
BY LeastNatural DEF Min

LEMMA MaxIsMember ==
  ASSUME NEW T \in SUBSET Nat, T # {}, NEW n \in Nat, \A m \in T : m <= n
  PROVE  Max(T) \in T /\ \A m \in T : m <= Max(T)
<1> DEFINE U == {n - m : m \in T}
<1>1. U \in SUBSET Nat /\ U # {}
  <2>1. ASSUME NEW m \in T PROVE n - m \in Nat
    <3>1. m \in Nat /\ m <= n
      OBVIOUS
    <3> QED BY <3>1
  <2>2. PICK m \in T : TRUE
    OBVIOUS
  <2> QED BY <2>1, <2>2
<1>2. PICK u \in U : \A v \in U : u <= v
  <2> HIDE DEF U
  <2> QED BY <1>1, LeastNatural
<1>3. PICK x \in T : u = n - x
  BY <1>2
<1>4. \A m \in T : m <= x
  <2> TAKE m \in T
  <2>1. n - m \in U
    OBVIOUS
  <2>2. n - x <= n - m
    BY <1>2, <1>3, <2>1
  <2> QED BY <2>2
<1>5. \E y \in T : \A m \in T : m <= y
  BY <1>4
<1> QED BY <1>5 DEF Max

\* The edges of the envelope's buckets.
LEMMA EdgeFacts ==
  ASSUME NEW n \in Nat, n >= 2, NEW b \in Nat \ {0}
  PROVE  /\ Edge(n, b, 0) = 2 /\ Edge(n, b, b) = n
         /\ \A k \in 0..b : Edge(n, b, k) \in 2..n
<1>1. ASSUME NEW k \in 0..b PROVE Edge(n, b, k) \in 2..n
  <2>1. PICK m \in Nat : m = n - 2
    OBVIOUS
  <2> DEFINE q == (k * m) \div b
  <2>2. k * m <= b * m /\ k * m \in Nat /\ b * m \in Nat
    OBVIOUS
  <2>3. q \in Int /\ b * q <= k * m /\ k * m < b * q + b
    OBVIOUS
  <2>4. q <= m /\ q >= 0
    <3> HIDE DEF q
    <3> QED BY <2>2, <2>3
  <2> QED BY <2>1, <2>4 DEF Edge
<1>2. Edge(n, b, 0) = 2
  <2>1. (0 * (n - 2)) \div b = 0
    OBVIOUS
  <2> QED BY <2>1 DEF Edge
<1>3. Edge(n, b, b) = n
  <2>1. (b * (n - 2)) \div b = n - 2
    OBVIOUS
  <2> QED BY <2>1 DEF Edge
<1> QED BY <1>1, <1>2, <1>3

-----------------------------------------------------------------------------
(* The envelope.                                                             *)

\* A finite set of positions of a curve.
Curve(samples, S) == IsFiniteSet(S) /\ S \subseteq Nat /\ \A i \in S : samples[i].mag \in Nat

\* The positions that come before i when the strongest is first.
Above(samples, S, i) == {j \in S : \/ samples[j].mag > samples[i].mag
                                   \/ samples[j].mag = samples[i].mag /\ j < i}
Rank(samples, S, i) == Cardinality(Above(samples, S, i))

LEMMA RankFacts ==
  ASSUME NEW samples, NEW S, Curve(samples, S)
  PROVE  /\ \A i \in S : Rank(samples, S, i) \in Nat /\ IsFiniteSet(Above(samples, S, i))
         /\ \A i, j \in S : i \in Above(samples, S, j) => Rank(samples, S, i) < Rank(samples, S, j)
         /\ \A i, j \in S : i = j \/ i \in Above(samples, S, j) \/ j \in Above(samples, S, i)
<1>1. ASSUME NEW i \in S PROVE Rank(samples, S, i) \in Nat /\ IsFiniteSet(Above(samples, S, i))
  <2>1. Above(samples, S, i) \in SUBSET S
    BY DEF Above
  <2>2. IsFiniteSet(S)
    BY DEF Curve
  <2>3. IsFiniteSet(Above(samples, S, i))
    BY ONLY <2>1, <2>2, FS_Subset
  <2> QED BY ONLY <2>3, FS_CardinalityType DEF Rank
<1>2. ASSUME NEW i \in S, NEW j \in S, i \in Above(samples, S, j)
      PROVE  Rank(samples, S, i) < Rank(samples, S, j)
  <2> DEFINE A == Above(samples, S, i)
             B == Above(samples, S, j)
  <2>1. A \in SUBSET B /\ i \in B /\ i \notin A
    <3>1. /\ i \in Nat /\ j \in Nat /\ samples[i].mag \in Nat /\ samples[j].mag \in Nat
          /\ \/ samples[i].mag > samples[j].mag
             \/ samples[i].mag = samples[j].mag /\ i < j
      BY <1>2 DEF Above, Curve
    <3>2. ASSUME NEW k \in A PROVE k \in B
      <4>1. /\ k \in S /\ k \in Nat /\ samples[k].mag \in Nat
            /\ \/ samples[k].mag > samples[i].mag
               \/ samples[k].mag = samples[i].mag /\ k < i
        BY DEF Above, Curve
      <4>2. \/ samples[k].mag > samples[j].mag
            \/ samples[k].mag = samples[j].mag /\ k < j
        BY ONLY <3>1, <4>1
      <4> QED BY <4>1, <4>2 DEF Above
    <3>3. i \notin A
      BY <3>1 DEF Above
    <3> QED BY <1>2, <3>2, <3>3
  <2>2. IsFiniteSet(B) /\ Cardinality(A) \in Nat /\ Cardinality(B) \in Nat
    BY <1>1 DEF Rank
  <2> HIDE DEF A, B
  <2>3. Cardinality(A) <= Cardinality(B) /\ Cardinality(B) # Cardinality(A)
    BY ONLY <2>1, <2>2, FS_Subset
  <2>4. Cardinality(A) < Cardinality(B)
    BY ONLY <2>2, <2>3
  <2> QED BY <2>4 DEF Rank, A, B
<1>3. ASSUME NEW i \in S, NEW j \in S
      PROVE  i = j \/ i \in Above(samples, S, j) \/ j \in Above(samples, S, i)
  <2>1. i \in Nat /\ j \in Nat /\ samples[i].mag \in Nat /\ samples[j].mag \in Nat
    BY DEF Curve
  <2> QED BY <2>1 DEF Above
<1> QED BY <1>1, <1>2, <1>3

\* There is a strongest position.
LEMMA TopRank ==
  ASSUME NEW samples, NEW S, Curve(samples, S), S # {}
  PROVE  \E i \in S : Above(samples, S, i) = {}
<1> DEFINE R == {Rank(samples, S, i) : i \in S}
<1>1. R \in SUBSET Nat /\ R # {}
  BY RankFacts
<1>2. PICK r \in R : \A q \in R : r <= q
  <2> HIDE DEF R
  <2> QED BY <1>1, LeastNatural
<1>3. PICK i \in S : r = Rank(samples, S, i)
  BY <1>2
<1>4. ASSUME NEW j \in Above(samples, S, i) PROVE FALSE
  <2>1. j \in S
    BY DEF Above
  <2>2. Rank(samples, S, j) < Rank(samples, S, i) /\ Rank(samples, S, j) \in R
    BY <2>1, RankFacts
  <2>3. Rank(samples, S, i) <= Rank(samples, S, j)
    BY <1>2, <1>3, <2>2
  <2>4. Rank(samples, S, j) \in Nat /\ Rank(samples, S, i) \in Nat
    BY <2>1, RankFacts
  <2> QED BY ONLY <2>2, <2>3, <2>4
<1> QED BY <1>4

LEMMA StrongestFacts ==
  ASSUME NEW samples, NEW S, Curve(samples, S), S # {}
  PROVE  /\ Strongest(samples, S) \in S
         /\ \A j \in S : samples[Strongest(samples, S)].mag >= samples[j].mag
<1>1. PICK i \in S : Above(samples, S, i) = {}
  BY TopRank
<1>2. \A j \in S : \/ samples[i].mag > samples[j].mag
                   \/ samples[i].mag = samples[j].mag /\ i <= j
  <2> TAKE j \in S
  <2>1. i \in Nat /\ j \in Nat /\ samples[i].mag \in Nat /\ samples[j].mag \in Nat
    BY DEF Curve
  <2>2. ~ (samples[j].mag > samples[i].mag) /\ ~ (samples[j].mag = samples[i].mag /\ j < i)
    BY <1>1 DEF Above
  <2> QED BY ONLY <2>1, <2>2
<1> DEFINE s == Strongest(samples, S)
<1>3. /\ s \in S
      /\ \A j \in S : \/ samples[s].mag > samples[j].mag
                      \/ samples[s].mag = samples[j].mag /\ s <= j
  BY <1>2 DEF Strongest
<1> HIDE DEF s
<1>4. \A j \in S : samples[s].mag >= samples[j].mag
  <2> TAKE j \in S
  <2>1. samples[s].mag \in Nat /\ samples[j].mag \in Nat
    BY <1>3 DEF Curve
  <2> QED BY <1>3, <2>1
<1> QED BY <1>3, <1>4 DEF s

LEMMA WeakestFacts ==
  ASSUME NEW samples, NEW S, Curve(samples, S), S # {}
  PROVE  Weakest(samples, S) \in S
<1> DEFINE M == {samples[i].mag : i \in S}
<1>1. M \in SUBSET Nat /\ M # {}
  BY DEF Curve
<1>2. PICK m \in M : \A q \in M : m <= q
  <2> HIDE DEF M
  <2> QED BY <1>1, LeastNatural
<1> DEFINE W == {i \in S : samples[i].mag = m}
<1>3. W \in SUBSET Nat /\ W # {}
  BY <1>2 DEF Curve
<1>4. PICK w \in W : \A i \in W : w <= i
  <2> HIDE DEF W
  <2> QED BY <1>3, LeastNatural
<1>5. w \in S /\ samples[w].mag = m
  BY <1>4
<1>6. \A j \in S : \/ samples[w].mag < samples[j].mag
                   \/ samples[w].mag = samples[j].mag /\ w <= j
  <2> TAKE j \in S
  <2>1. samples[j].mag \in M /\ samples[j].mag \in Nat /\ m \in Nat
    BY <1>1, <1>2
  <2>2. CASE samples[j].mag = m
    <3>1. j \in W
      BY <2>2
    <3>2. w <= j
      <4> HIDE DEF W
      <4> QED BY <1>4, <3>1
    <3> QED BY <1>5, <2>2, <3>2
  <2>3. CASE samples[j].mag # m
    <3>1. m <= samples[j].mag
      <4> HIDE DEF M
      <4> QED BY <1>2, <2>1
    <3>2. m < samples[j].mag
      BY ONLY <2>1, <2>3, <3>1
    <3> QED BY <1>5, <3>2
  <2> QED BY <2>2, <2>3
<1> QED BY <1>5, <1>6 DEF Weakest

\* No more than the budget are kept, and the strongest is.
LEMMA BestFacts ==
  ASSUME NEW samples, NEW S, Curve(samples, S), NEW budget \in Nat
  PROVE  /\ Best(samples, S, budget) \subseteq S /\ IsFiniteSet(Best(samples, S, budget))
         /\ Cardinality(Best(samples, S, budget)) \in Nat
         /\ Cardinality(Best(samples, S, budget)) <= budget
         /\ budget > 0 => \A i \in S : \E j \in Best(samples, S, budget) :
                            samples[j].mag >= samples[i].mag
<1> DEFINE B == Best(samples, S, budget)
<1>1. B = {i \in S : Rank(samples, S, i) < budget}
  BY DEF Best, Rank, Above
<1> HIDE DEF B
<1>2. B \subseteq S /\ IsFiniteSet(B) /\ Cardinality(B) \in Nat
  <2>1. B \in SUBSET S /\ IsFiniteSet(S)
    BY <1>1 DEF Curve
  <2> QED BY ONLY <2>1, FS_Subset, FS_CardinalityType
<1>3. Cardinality(B) <= budget
  <2> DEFINE f == [i \in B |-> Rank(samples, S, i)]
  <2>1. ASSUME NEW i \in B PROVE Rank(samples, S, i) \in 0..(budget - 1)
    <3>1. Rank(samples, S, i) \in Nat /\ Rank(samples, S, i) < budget
      BY <1>1, RankFacts
    <3> QED BY ONLY <3>1, budget \in Nat
  <2>2. ASSUME NEW i \in B, NEW j \in B, Rank(samples, S, i) = Rank(samples, S, j) PROVE i = j
    <3>1. i \in S /\ j \in S /\ Rank(samples, S, i) \in Nat
      BY <1>1, RankFacts
    <3>2. \/ i = j \/ Rank(samples, S, i) < Rank(samples, S, j)
          \/ Rank(samples, S, j) < Rank(samples, S, i)
      BY <3>1, RankFacts
    <3> QED BY ONLY <2>2, <3>1, <3>2
  <2>3. f \in Injection(B, 0..(budget - 1))
    BY <2>1, <2>2 DEF Injection, IsInjective
  <2>4. IsFiniteSet(0..(budget - 1)) /\ Cardinality(0..(budget - 1)) = budget
    <3>1. 0 \in Int /\ budget - 1 \in Int
      OBVIOUS
    <3> QED BY <3>1, FS_Interval
  <2> HIDE DEF f
  <2> QED BY ONLY <2>3, <2>4, FS_Injection
<1>4. ASSUME budget > 0, NEW i \in S PROVE \E j \in B : samples[j].mag >= samples[i].mag
  <2>1. PICK j \in S : Above(samples, S, j) = {}
    BY TopRank
  <2>2. Rank(samples, S, j) = 0
    BY <2>1, FS_EmptySet DEF Rank
  <2>3. j \in B
    BY <1>1, <1>4, <2>2
  <2>4. samples[j].mag \in Nat /\ samples[i].mag \in Nat /\ ~ (samples[i].mag > samples[j].mag)
    BY <2>1 DEF Above, Curve
  <2>5. samples[j].mag >= samples[i].mag
    BY ONLY <2>4
  <2> QED BY <2>3, <2>5
<1> QED BY <1>2, <1>3, <1>4 DEF B

\* The buckets cover the inner positions, and nothing else.
LEMMA BucketOf ==
  ASSUME NEW n \in Nat, n >= 2, NEW b \in Nat \ {0}, NEW i \in 2..(n - 1)
  PROVE  \E k \in 0..(b - 1) : i \in Edge(n, b, k)..(Edge(n, b, k + 1) - 1)
<1> DEFINE T == {k \in 0..b : i < Edge(n, b, k)}
<1>1. b \in T /\ T \in SUBSET Nat
  BY EdgeFacts
<1>2. PICK k \in T : \A m \in T : k <= m
  <2> HIDE DEF T
  <2> QED BY <1>1, LeastNatural
<1>3. k \in 0..b /\ i < Edge(n, b, k) /\ k # 0
  BY <1>2, EdgeFacts
<1>4. k - 1 \in 0..(b - 1) /\ k - 1 \in 0..b /\ ~ (k <= k - 1) /\ (k - 1) + 1 = k
  BY <1>3
<1>5. k - 1 \notin T
  <2> HIDE DEF T
  <2> QED BY <1>2, <1>4
<1>6. ~ (i < Edge(n, b, k - 1)) /\ Edge(n, b, k - 1) \in Nat /\ Edge(n, b, k) \in Nat
  <2>1. ~ (i < Edge(n, b, k - 1))
    BY <1>4, <1>5
  <2>2. Edge(n, b, k - 1) \in 2..n /\ Edge(n, b, k) \in 2..n
    BY <1>3, <1>4, EdgeFacts
  <2> QED BY ONLY <2>1, <2>2, n \in Nat
<1>7. i \in Edge(n, b, k - 1)..(Edge(n, b, k) - 1)
  BY ONLY <1>3, <1>6, i \in 2..(n - 1)
<1> QED BY <1>4, <1>7

LEMMA CandidateFacts ==
  ASSUME NEW samples, NEW n \in Nat, n = Len(samples), n >= 2, NEW b \in Nat \ {0},
         Curve(samples, 1..n)
  PROVE  /\ Candidates(samples, b) \subseteq 2..(n - 1)
         /\ \A i \in 2..(n - 1) : \E j \in Candidates(samples, b) : samples[j].mag >= samples[i].mag
<1> DEFINE bucket(k) == Edge(n, b, k)..(Edge(n, b, k + 1) - 1)
           picked(k) == IF bucket(k) = {} THEN {}
                        ELSE {Weakest(samples, bucket(k)), Strongest(samples, bucket(k))}
<1>1. Candidates(samples, b) = UNION {picked(k) : k \in 0..(b - 1)}
  BY DEF Candidates
<1>2. ASSUME NEW k \in 0..(b - 1) PROVE bucket(k) \subseteq 2..(n - 1) /\ Curve(samples, bucket(k))
  <2>1. k \in 0..b /\ k + 1 \in 0..b
    OBVIOUS
  <2>2. Edge(n, b, k) \in 2..n /\ Edge(n, b, k + 1) \in 2..n
    BY <2>1, EdgeFacts
  <2>3. bucket(k) \subseteq 2..(n - 1) /\ bucket(k) \subseteq 1..n
    BY ONLY <2>2, n \in Nat
  <2>4. IsFiniteSet(bucket(k))
    <3>1. Edge(n, b, k) \in Int /\ Edge(n, b, k + 1) - 1 \in Int
      BY ONLY <2>2
    <3> QED BY ONLY <3>1, FS_Interval
  <2> HIDE DEF bucket
  <2> QED BY <2>3, <2>4 DEF Curve
<1> HIDE DEF bucket
<1>3. ASSUME NEW k \in 0..(b - 1), NEW x \in picked(k) PROVE x \in 2..(n - 1)
  <2>1. bucket(k) # {} /\ (x = Weakest(samples, bucket(k)) \/ x = Strongest(samples, bucket(k)))
    BY <1>3
  <2>2. x \in bucket(k)
    BY <1>2, <2>1, WeakestFacts, StrongestFacts
  <2> QED BY <1>2, <2>2
<1>4. ASSUME NEW i \in 2..(n - 1)
      PROVE  \E j \in Candidates(samples, b) : samples[j].mag >= samples[i].mag
  <2>1. PICK k \in 0..(b - 1) : i \in bucket(k)
    BY BucketOf DEF bucket
  <2>2. /\ Strongest(samples, bucket(k)) \in picked(k)
        /\ samples[Strongest(samples, bucket(k))].mag >= samples[i].mag
    BY <1>2, <2>1, StrongestFacts
  <2> HIDE DEF picked
  <2> QED BY <1>1, <2>2
<1> HIDE DEF picked
<1> QED BY <1>1, <1>3, <1>4

\* The two ends and the best of the rest.
LEMMA EnvelopeShape ==
  ASSUME NEW samples, NEW n \in Nat, n = Len(samples), n > MaxPoints
  PROVE  \E b \in Nat \ {0} :
           Envelope(samples) =
             {1, n} \cup IF MaxPoints - 2 = 0 THEN {}
                         ELSE Best(samples, Candidates(samples, b) \ {1, n}, MaxPoints - 2)
<1> DEFINE b == Max({1, ((MaxPoints - 2) + 1) \div 2})
<1>1. MaxPoints \in Nat /\ MaxPoints >= 2
  BY SampleStoreAssumption
<1>2. b \in Nat \ {0}
  <2>1. PICK h \in Nat : h = ((MaxPoints - 2) + 1) \div 2
    BY <1>1
  <2>2. {1, h} \in SUBSET Nat /\ {1, h} # {} /\ \A m \in {1, h} : m <= 1 + h
    OBVIOUS
  <2>3. Max({1, h}) \in {1, h} /\ 1 <= Max({1, h})
    <3>1. 1 + h \in Nat
      OBVIOUS
    <3> QED BY ONLY <2>2, <3>1, MaxIsMember
  <2> QED BY ONLY <2>1, <2>3, h \in Nat
<1>3. ~ (Len(samples) <= MaxPoints)
  BY <1>1
<1> QED BY <1>2, <1>3 DEF Envelope

LEMMA PairSize ==
  ASSUME NEW n \in Nat, n # 1
  PROVE  IsFiniteSet({1, n}) /\ Cardinality({1, n}) = 2
<1>1. IsFiniteSet({1}) /\ Cardinality({1}) = 1
  BY FS_Singleton
<1>2. {1, n} = {1} \cup {n} /\ n \notin {1}
  OBVIOUS
<1> QED BY <1>1, <1>2, FS_AddElement

\* The point budget never hides a peak: however many samples a snapshot has, the envelope
\* stays within max_points, keeps the first and the last sample and, between them, one
\* that is as strong as the strongest (envelope_indices).
THEOREM PeaksKept ==
  ASSUME NEW samples \in Seq(SampleRecords)
  PROVE  KeepsPeaks(samples)
<1> DEFINE n == Len(samples)
           points == Envelope(samples)
           interior == 2..(n - 1)
<1>1. /\ n \in Nat /\ DOMAIN samples = 1..n /\ (samples # <<>> => n >= 1)
      /\ MaxPoints \in Nat /\ MaxPoints >= 2
  BY SampleStoreAssumption
<1>2. Curve(samples, 1..n)
  <2>1. IsFiniteSet(1..n)
    <3>1. 1 \in Int /\ n \in Int
      BY ONLY <1>1
    <3> QED BY ONLY <3>1, FS_Interval
  <2>2. \A i \in 1..n : samples[i].mag \in Nat
    <3>1. \A i \in 1..n : samples[i] \in SampleRecords
      OBVIOUS
    <3> QED BY ONLY <3>1 DEF SampleRecords
  <2> QED BY <1>1, <2>1, <2>2 DEF Curve
<1> SUFFICES /\ Cardinality(points) <= MaxPoints
             /\ samples # <<>> => {1, n} \subseteq points
             /\ MaxPoints > 2 =>
                  \A i \in interior : \E j \in points \cap interior : samples[j].mag >= samples[i].mag
  BY DEF KeepsPeaks
<1> HIDE DEF n
<1>3. CASE n <= MaxPoints
  <2>1. points = 1..n
    BY <1>1, <1>3 DEF Envelope, n
  <2>2. Cardinality(1..n) <= MaxPoints
    <3>1. Cardinality(1..n) = IF 1 > n THEN 0 ELSE n - 1 + 1
      BY <1>1, FS_Interval
    <3> QED BY <1>1, <1>3, <3>1
  <2>3. ASSUME NEW i \in interior PROVE i \in points \cap interior /\ samples[i].mag >= samples[i].mag
    <3>1. i \in 1..n
      BY <1>1
    <3>2. samples[i].mag \in Nat
      BY <1>2, <3>1 DEF Curve
    <3> QED BY <2>1, <3>1, <3>2
  <2>4. samples # <<>> => {1, n} \subseteq 1..n
    BY <1>1
  <2> HIDE DEF points, interior
  <2> QED BY <2>1, <2>2, <2>3, <2>4
<1>4. CASE n > MaxPoints
  <2>1. PICK b \in Nat \ {0} : points =
          {1, n} \cup IF MaxPoints - 2 = 0 THEN {}
                      ELSE Best(samples, Candidates(samples, b) \ {1, n}, MaxPoints - 2)
    BY <1>1, <1>4, EnvelopeShape DEF n
  <2>2. n # 1 /\ n >= 2
    BY <1>1, <1>4
  <2>3. IsFiniteSet({1, n}) /\ Cardinality({1, n}) = 2
    BY <1>1, <2>2, PairSize
  <2>4. CASE MaxPoints = 2
    <3>1. points = {1, n}
      BY <2>1, <2>4
    <3> HIDE DEF points
    <3>2. ~ (MaxPoints > 2)
      BY <2>4
    <3> QED BY <2>3, <2>4, <3>1, <3>2
  <2>5. CASE MaxPoints > 2
    <3> DEFINE S == Candidates(samples, b) \ {1, n}
               B == Best(samples, S, MaxPoints - 2)
    <3>1. /\ Candidates(samples, b) \subseteq interior
          /\ \A i \in interior : \E j \in Candidates(samples, b) : samples[j].mag >= samples[i].mag
      BY <1>1, <1>2, <2>2, CandidateFacts DEF n
    <3>2. S = Candidates(samples, b)
      BY <1>1, <3>1
    <3>3. Curve(samples, S)
      <4>1. interior \subseteq 1..n
        BY <1>1
      <4>2. S \in SUBSET (1..n)
        <5> HIDE DEF interior
        <5> QED BY <3>1, <4>1
      <4>3. IsFiniteSet(S)
        BY <1>2, <4>2, FS_Subset DEF Curve
      <4> QED BY <1>2, <4>2, <4>3 DEF Curve
    <3>4. MaxPoints - 2 \in Nat /\ MaxPoints - 2 > 0 /\ MaxPoints - 2 # 0
      BY <1>1, <2>5
    <3> HIDE DEF S
    <3>5. /\ B \subseteq S /\ IsFiniteSet(B) /\ Cardinality(B) \in Nat /\ Cardinality(B) <= MaxPoints - 2
          /\ \A i \in S : \E j \in B : samples[j].mag >= samples[i].mag
      BY <3>3, <3>4, BestFacts
    <3>6. points = {1, n} \cup B
      BY <2>1, <3>4 DEF S
    <3> HIDE DEF B, points
    <3>7. Cardinality(points) <= MaxPoints
      <4>1. /\ Cardinality({1, n} \cup B) =
                 Cardinality({1, n}) + Cardinality(B) - Cardinality({1, n} \cap B)
            /\ IsFiniteSet({1, n} \cap B)
        BY <2>3, <3>5, FS_Union, FS_Intersection
      <4>2. Cardinality({1, n} \cap B) \in Nat
        BY <4>1, FS_CardinalityType
      <4> QED BY ONLY <1>1, <2>3, <3>5, <3>6, <4>1, <4>2
    <3>8. ASSUME NEW i \in interior
          PROVE  \E j \in points \cap interior : samples[j].mag >= samples[i].mag
      <4> HIDE DEF interior
      <4>1. PICK x \in S : samples[x].mag >= samples[i].mag
        BY <3>1, <3>2
      <4>2. PICK j \in B : samples[j].mag >= samples[x].mag
        BY <3>5
      <4>3. j \in points \cap interior /\ x \in interior
        BY <3>1, <3>2, <3>5, <3>6
      <4>4. i \in 1..n /\ x \in 1..n /\ j \in 1..n
        BY <1>1, <4>3 DEF interior
      <4>5. samples[i].mag \in Nat /\ samples[x].mag \in Nat /\ samples[j].mag \in Nat
        BY <1>2, <4>4 DEF Curve
      <4>6. samples[j].mag >= samples[i].mag
        BY ONLY <4>1, <4>2, <4>5
      <4> QED BY <4>3, <4>6
    <3> HIDE DEF interior
    <3> QED BY <3>6, <3>7, <3>8
  <2> QED BY <1>1, <2>4, <2>5
<1> QED BY <1>1, <1>3, <1>4

-----------------------------------------------------------------------------
(* The store's chunks.                                                       *)

\* Where a chunk ends in the file.
End(x) == Place(Last(x))

\* The chunk of a frame, or what trimming left of it.
IsChunk(x) ==
  /\ x \in Seq(SampleRecords)
  /\ Len(x) = 1 \/ (Len(x) = 2 /\ Place(x[1]) < End(x))

LEMMA ChunkFacts ==
  ASSUME NEW x, IsChunk(x)
  PROVE  /\ Len(x) \in 1..2 /\ Last(x) = x[Len(x)] /\ Latest(x) = x[Len(x)].t
         /\ \A i \in 1..Len(x) : /\ x[i] \in SampleRecords /\ Place(x[i]) \in Int
                                 /\ Place(x[i]) <= End(x) /\ Place(x[1]) <= Place(x[i])
         /\ Last(x) \in SampleRecords /\ Latest(x) \in Int /\ End(x) \in Int
         /\ Place(x[1]) \in Int /\ Place(x[1]) <= End(x)
<1>1. x \in Seq(SampleRecords) /\ (Len(x) = 1 \/ Len(x) = 2)
  BY DEF IsChunk
<1>2. Len(x) \in 1..2 /\ 1 \in 1..Len(x) /\ Len(x) \in 1..Len(x)
  BY ONLY <1>1
<1>3. Last(x) = x[Len(x)] /\ Latest(x) = x[Len(x)].t /\ End(x) = Place(x[Len(x)])
  BY DEF Last, Latest, End
<1>4. \A i \in 1..Len(x) : x[i] \in SampleRecords
  BY ONLY <1>1
<1>5. \A s \in SampleRecords : s.t \in Int /\ Place(s) \in Int
  BY DEF SampleRecords, Place
<1>6. \A i \in 1..Len(x) : x[i].t \in Int /\ Place(x[i]) \in Int
  BY ONLY <1>4, <1>5
<1>7. \A i \in 1..Len(x) : Place(x[i]) <= End(x) /\ Place(x[1]) <= Place(x[i])
  <2>1. CASE Len(x) = 1
    <3>1. \A i \in 1..Len(x) : i = 1
      BY ONLY <2>1
    <3> QED BY ONLY <1>2, <1>3, <1>6, <2>1, <3>1
  <2>2. CASE Len(x) = 2
    <3>1. \A i \in 1..Len(x) : i = 1 \/ i = 2
      BY ONLY <2>2
    <3>2. Place(x[1]) < Place(x[2]) /\ End(x) = Place(x[2])
      BY <1>3, <2>2 DEF IsChunk
    <3>3. Place(x[1]) \in Int /\ Place(x[2]) \in Int
      BY ONLY <1>2, <1>6, <2>2
    <3> QED BY ONLY <3>1, <3>2, <3>3
  <2> QED BY <1>1, <2>1, <2>2
<1> QED BY ONLY <1>2, <1>3, <1>4, <1>6, <1>7, Zenon

\* What is left of a chunk.
Trimmed(y, x) == y = x \/ y = <<Last(x)>>

LEMMA TrimFacts ==
  ASSUME NEW x, IsChunk(x), NEW y, Trimmed(y, x)
  PROVE  /\ IsChunk(y) /\ Last(y) = Last(x) /\ Latest(y) = Latest(x) /\ End(y) = End(x) /\ Place(x[1]) <= Place(y[1])
         /\ \A i \in 1..Len(y) : \E j \in 1..Len(x) : y[i] = x[j]
<1>1. CASE y = x
  <2>1. Place(x[1]) \in Int
    BY ChunkFacts
  <2>2. Place(x[1]) <= Place(x[1])
    BY ONLY <2>1
  <2> QED BY <1>1, <2>2
<1>2. CASE y = <<Last(x)>>
  <2> DEFINE s == Last(x)
  <2>1. /\ s \in SampleRecords /\ Place(x[1]) <= Place(s) /\ Latest(x) = s.t
        /\ s = x[Len(x)] /\ Len(x) \in 1..Len(x)
    BY ChunkFacts DEF Latest, End
  <2> HIDE DEF s
  <2>2. y = <<s>>
    BY <1>2 DEF s
  <2>3. y \in Seq(SampleRecords) /\ Len(y) = 1 /\ y[1] = s
    BY ONLY <2>1, <2>2
  <2>4. Last(y) = s
    BY ONLY <2>3 DEF Last
  <2>5. IsChunk(y)
    BY ONLY <2>3 DEF IsChunk
  <2>6. Latest(y) = Latest(x) /\ Place(x[1]) <= Place(y[1])
    BY ONLY <2>1, <2>3, <2>4 DEF Latest
  <2>7. \A i \in 1..Len(y) : \E j \in 1..Len(x) : y[i] = x[j]
    <3>1. \A i \in 1..Len(y) : i = 1
      BY ONLY <2>3
    <3> QED BY ONLY <2>1, <2>3, <3>1, Zenon
  <2> QED BY <2>4, <2>5, <2>6, <2>7 DEF s, End
<1> QED BY <1>1, <1>2 DEF Trimmed

LEMMA FromTrims ==
  ASSUME NEW x, IsChunk(x), NEW cutoff \in Int, Latest(x) >= cutoff
  PROVE  Trimmed(From(x, cutoff), x)
<1> DEFINE E == {i \in DOMAIN x : x[i].t < cutoff}
<1>1. From(x, cutoff) = SubSeq(x, 1 + Cardinality(E), Len(x))
  BY DEF From
<1>2. x \in Seq(SampleRecords) /\ DOMAIN x = 1..Len(x)
  BY DEF IsChunk
<1>3. /\ (Len(x) = 1 \/ Len(x) = 2)
      /\ Last(x) = x[Len(x)] /\ Latest(x) = x[Len(x)].t /\ Latest(x) \in Int
  <2>1. Len(x) = 1 \/ Len(x) = 2
    BY DEF IsChunk
  <2> QED BY <2>1, ChunkFacts
<1>4. Len(x) \notin E
  <2>1. ~ (x[Len(x)].t < cutoff)
    BY ONLY <1>3, Latest(x) >= cutoff, cutoff \in Int
  <2> QED BY <2>1
<1>5. CASE E = {}
  <2>1. Cardinality(E) = 0
    BY <1>5, FS_EmptySet
  <2>2. From(x, cutoff) = SubSeq(x, 1, Len(x))
    <3>1. From(x, cutoff) = SubSeq(x, 1 + 0, Len(x))
      BY ONLY <1>1, <2>1, Zenon
    <3>2. 1 + 0 = 1
      OBVIOUS
    <3> QED BY ONLY <3>1, <3>2, Zenon
  <2>3. From(x, cutoff) = x
    BY ONLY <1>2, <2>2
  <2> QED BY <2>3 DEF Trimmed
<1>6. CASE E # {}
  <2>1. PICK i \in E : TRUE
    BY <1>6
  <2>2. i \in 1..Len(x) /\ i # Len(x)
    BY <1>2, <1>4
  <2>3. Len(x) = 2 /\ E = {1}
    <3>1. Len(x) = 2 /\ i = 1
      BY ONLY <1>3, <2>2
    <3>2. \A j \in E : j = 1
      BY ONLY <1>2, <1>4, <3>1
    <3> QED BY <3>1, <3>2
  <2>4. Cardinality(E) = 1
    BY <2>3, FS_Singleton
  <2>5. From(x, cutoff) = SubSeq(x, 2, 2)
    <3>1. From(x, cutoff) = SubSeq(x, 1 + 1, 2)
      BY ONLY <1>1, <2>3, <2>4, Zenon
    <3>2. 1 + 1 = 2
      OBVIOUS
    <3> QED BY ONLY <3>1, <3>2, Zenon
  <2>6. SubSeq(x, 2, 2) = <<x[2]>>
    <3> HIDE DEF E
    <3>0. Len(x) = 2
      BY ONLY <2>3, Zenon
    <3>t. x \in Seq(SampleRecords)
      BY ONLY <1>2, Zenon
    <3>1. x[2] \in SampleRecords /\ 2 \in 1..Len(x)
      BY ONLY <3>0, <3>t
    <3> DEFINE y == SubSeq(x, 2, 2)
    <3>2. y \in Seq(SampleRecords) /\ Len(y) = 1 /\ y[1] = x[2]
      BY ONLY <1>2, <3>1
    <3> HIDE DEF y
    <3>3. y = <<x[2]>>
      BY ONLY <3>1, <3>2
    <3> QED BY <3>3 DEF y
  <2>7. Last(x) = x[2]
    BY <2>3, ChunkFacts
  <2> QED BY <2>5, <2>6, <2>7 DEF Trimmed
<1> QED BY <1>5, <1>6

LEMMA ChainFacts ==
  ASSUME NEW c
  PROVE  Chained(c) <=> /\ c \in Seq(Seq(SampleRecords))
                        /\ \A j \in 1..Len(c) : IsChunk(c[j])
                        /\ \A j, k \in 1..Len(c) : j < k => End(c[j]) < Place(c[k][1])
<1>1. c \in Seq(Seq(SampleRecords)) => DOMAIN c = 1..Len(c) /\ \A j \in 1..Len(c) : c[j] \in Seq(SampleRecords)
  OBVIOUS
<1> QED BY <1>1, Zenon DEF Chained, IsChunk, End

\* The last chunk.
LEMMA ChainOrder ==
  ASSUME NEW c, Chained(c)
  PROVE  \A j, k \in 1..Len(c) : j <= k => End(c[j]) <= End(c[k])
<1> SUFFICES ASSUME NEW j \in 1..Len(c), NEW k \in 1..Len(c), j <= k
             PROVE  End(c[j]) <= End(c[k])
  OBVIOUS
<1>1. End(c[j]) \in Int /\ End(c[k]) \in Int /\ Place(c[k][1]) \in Int /\ Place(c[k][1]) <= End(c[k])
  BY ChainFacts, ChunkFacts
<1>2. CASE j = k
  BY <1>1, <1>2
<1>3. CASE j < k
  <2>1. End(c[j]) < Place(c[k][1])
    BY <1>3, ChainFacts
  <2> QED BY ONLY <1>1, <2>1
<1> QED BY <1>2, <1>3

\* Pruning drops the chunks that are too old, and may trim the first of the others.
LEMMA PrunedShape ==
  ASSUME NEW c, Chained(c), Len(c) >= 1, NEW r, r = Pruned(c)
  PROVE  \E f \in 1..Len(c) :
           /\ r \in Seq(Seq(SampleRecords)) /\ Len(r) = Len(c) - f + 1
           /\ \A j \in 1..Len(r) : f + (j - 1) \in 1..Len(c) /\ Trimmed(r[j], c[f + (j - 1)])
           /\ \A j \in 1..Len(c) : j < f => Latest(c[j]) < Latest(c[Len(c)]) - Retention
<1> DEFINE cutoff == Latest(Last(c)) - Retention
           T == {i \in DOMAIN c : Latest(c[i]) >= cutoff}
           f == Min(T)
<1>1. PICK n \in Nat \ {0} : n = Len(c)
  BY ChainFacts
<1>2. /\ c \in Seq(Seq(SampleRecords)) /\ DOMAIN c = 1..n
      /\ \A j \in 1..n : IsChunk(c[j]) /\ Latest(c[j]) \in Int
  <2>1. c \in Seq(Seq(SampleRecords)) /\ \A j \in 1..n : IsChunk(c[j])
    BY <1>1, ChainFacts
  <2>2. DOMAIN c = 1..n
    BY <1>1, <2>1
  <2>3. \A j \in 1..n : Latest(c[j]) \in Int
    BY <2>1, ChunkFacts
  <2> QED BY ONLY <2>1, <2>2, <2>3, Zenon
<1>3. Last(c) = c[n] /\ n \in 1..n
  BY <1>1 DEF Last
<1>4. Retention \in Nat
  BY SampleStoreAssumption
<1>5. cutoff \in Int /\ cutoff = Latest(c[n]) - Retention /\ Latest(c[n]) >= cutoff
  BY <1>2, <1>3, <1>4
<1> HIDE DEF cutoff
<1>6. T \in SUBSET Nat /\ T # {} /\ T \subseteq 1..n
  <2>1. T \subseteq 1..n
    BY <1>2
  <2>2. n \in T
    BY <1>2, <1>3, <1>5
  <2> HIDE DEF T
  <2> QED BY <2>1, <2>2
<1>7. f \in T /\ \A i \in T : f <= i
  <2> HIDE DEF T
  <2> QED BY <1>6, MinIsMember
<1> HIDE DEF f
<1>8. f \in 1..n /\ Latest(c[f]) >= cutoff
  BY <1>2, <1>7
<1>9. \A j \in 1..n : j < f => Latest(c[j]) < cutoff
  <2> TAKE j \in 1..n
  <2>1. j \in T => ~ (j < f)
    <3>1. j \in T => f <= j
      BY <1>7
    <3> QED BY ONLY <1>8, <3>1, j \in 1..n
  <2>2. j \notin T => ~ (Latest(c[j]) >= cutoff)
    BY <1>2
  <2>3. Latest(c[j]) \in Int
    BY <1>2
  <2> QED BY ONLY <1>5, <2>1, <2>2, <2>3
<1> DEFINE x == From(c[f], cutoff)
           t == SubSeq(c, f + 1, n)
<1>10. Trimmed(x, c[f]) /\ IsChunk(c[f])
  BY <1>2, <1>5, <1>8, FromTrims
<1>11. x \in Seq(SampleRecords)
  BY <1>10, TrimFacts DEF IsChunk
<1>12. r = <<x>> \o t
  BY <1>1 DEF Pruned, f, T, cutoff
<1>13. t \in Seq(Seq(SampleRecords)) /\ Len(t) = n - f /\ \A j \in 1..(n - f) : t[j] = c[f + j]
  BY ONLY <1>1, <1>2, <1>8
<1> HIDE DEF x, t
<1>14. <<x>> \in Seq(Seq(SampleRecords)) /\ Len(<<x>>) = 1 /\ <<x>>[1] = x
  BY ONLY <1>11
<1>15. /\ r \in Seq(Seq(SampleRecords)) /\ Len(r) = 1 + (n - f)
       /\ \A j \in 1..(1 + (n - f)) : r[j] = IF j <= 1 THEN <<x>>[j] ELSE t[j - 1]
  BY ONLY <1>12, <1>13, <1>14, <1>8, n \in Nat \ {0}
<1>16. ASSUME NEW j \in 1..(1 + (n - f))
       PROVE  f + (j - 1) \in 1..n /\ Trimmed(r[j], c[f + (j - 1)])
  <2>1. f + (j - 1) \in 1..n
    BY ONLY <1>8, <1>16, n \in Nat \ {0}
  <2>2. CASE j = 1
    <3>1. f + (j - 1) = f /\ r[j] = x
      BY ONLY <1>8, <1>14, <1>15, <1>16, <2>2
    <3> QED BY <1>10, <2>1, <3>1
  <2>3. CASE j # 1
    <3>1. j - 1 \in 1..(n - f) /\ ~ (j <= 1)
      BY ONLY <1>8, <1>16, <2>3, n \in Nat \ {0}
    <3>2. r[j] = c[f + (j - 1)]
      BY ONLY <1>13, <1>15, <1>16, <3>1
    <3> QED BY <2>1, <3>2 DEF Trimmed
  <2> QED BY <2>2, <2>3
<1>17. Len(r) = n - f + 1 /\ 1..Len(r) = 1..(1 + (n - f))
  BY ONLY <1>8, <1>15, n \in Nat \ {0}
<1> QED BY ONLY <1>1, <1>5, <1>8, <1>9, <1>15, <1>16, <1>17, Zenon

\* What trimming and dropping leave is still in order.
LEMMA TrimChained ==
  ASSUME NEW c, Chained(c), NEW r \in Seq(Seq(SampleRecords)), NEW f \in Nat,
         \A j \in 1..Len(r) : f + (j - 1) \in 1..Len(c) /\ Trimmed(r[j], c[f + (j - 1)])
  PROVE  Chained(r)
<1>1. ASSUME NEW j \in 1..Len(r)
      PROVE  /\ f + (j - 1) \in 1..Len(c) /\ IsChunk(c[f + (j - 1)]) /\ IsChunk(r[j])
             /\ End(r[j]) = End(c[f + (j - 1)]) /\ Place(c[f + (j - 1)][1]) <= Place(r[j][1])
             /\ End(r[j]) \in Int /\ Place(r[j][1]) \in Int /\ Place(c[f + (j - 1)][1]) \in Int
  BY ChainFacts, TrimFacts, ChunkFacts
<1>2. ASSUME NEW j \in 1..Len(r), NEW k \in 1..Len(r), j < k PROVE End(r[j]) < Place(r[k][1])
  <2>1. f + (j - 1) < f + (k - 1)
    BY <1>2
  <2>2. End(c[f + (j - 1)]) < Place(c[f + (k - 1)][1])
    BY <1>1, <2>1, ChainFacts
  <2>3. /\ End(r[j]) = End(c[f + (j - 1)]) /\ Place(c[f + (k - 1)][1]) <= Place(r[k][1])
        /\ End(r[j]) \in Int /\ Place(r[k][1]) \in Int /\ Place(c[f + (k - 1)][1]) \in Int
    BY <1>1
  <2>4. PICK a \in Int, b \in Int, d \in Int :
          a = End(r[j]) /\ b = Place(c[f + (k - 1)][1]) /\ d = Place(r[k][1])
    BY ONLY <2>3, Zenon
  <2>5. a < b /\ b <= d
    BY ONLY <2>2, <2>3, <2>4, Zenon
  <2>6. a < d
    BY ONLY <2>5, a \in Int, b \in Int, d \in Int
  <2> QED BY ONLY <2>4, <2>6, Zenon
<1> QED BY <1>1, <1>2, ChainFacts

-----------------------------------------------------------------------------
(* The window.                                                               *)

\* What chunk k adds to the window.
Gather(c, cutoff, s, k) == IF Latest(c[k]) < cutoff THEN s ELSE s \o From(c[k], cutoff)

\* g has the window of the first chunks of c.
Gathers(c, cutoff, n, g) ==
  g = [k \in 0..n |-> IF k = 0 THEN <<>> ELSE Gather(c, cutoff, g[k - 1], k)]

LEMMA GathersStep ==
  ASSUME NEW c, NEW cutoff, NEW n, n \in Nat, NEW g
  PROVE  Gathers(c, cutoff, n, g) <=> /\ g = [k \in 0..n |-> g[k]] /\ g[0] = <<>>
           /\ \A k \in 1..n : g[k] = Gather(c, cutoff, g[k - 1], k)
<1> DEFINE E(k) == IF k = 0 THEN <<>> ELSE Gather(c, cutoff, g[k - 1], k)
<1>0. 0 \in 0..n /\ \A k \in 1..n : k \in 0..n /\ k # 0
  OBVIOUS
<1>1. Gathers(c, cutoff, n, g) <=> g = [k \in 0..n |-> E(k)]
  BY DEF Gathers
<1>2. ASSUME g = [k \in 0..n |-> E(k)]
      PROVE  /\ g = [k \in 0..n |-> g[k]] /\ g[0] = <<>>
             /\ \A k \in 1..n : g[k] = Gather(c, cutoff, g[k - 1], k)
  <2>1. g = [k \in 0..n |-> g[k]] /\ \A k \in 0..n : g[k] = E(k)
    <3> HIDE DEF E
    <3> QED BY <1>2
  <2> QED BY <1>0, <2>1
<1>3. ASSUME g = [k \in 0..n |-> g[k]], g[0] = <<>>,
             \A k \in 1..n : g[k] = Gather(c, cutoff, g[k - 1], k)
      PROVE  g = [k \in 0..n |-> E(k)]
  <2>1. ASSUME NEW k \in 0..n PROVE g[k] = E(k)
    <3>1. CASE k = 0
      BY <1>3, <3>1
    <3>2. CASE k # 0
      <4>1. k \in 1..n
        BY <3>2
      <4> QED BY <1>3, <3>2, <4>1
    <3> QED BY <3>1, <3>2
  <2> HIDE DEF E
  <2> QED BY <1>3, <2>1
<1> HIDE DEF E
<1> QED BY <1>1, <1>2, <1>3

LEMMA GathersExists ==
  ASSUME NEW c, NEW cutoff, NEW n, n \in Nat
  PROVE  \E g : Gathers(c, cutoff, n, g)
<1> DEFINE Reached(m) == \E g : /\ g = [k \in 0..m |-> g[k]] /\ g[0] = <<>>
                                /\ \A k \in 1..m : g[k] = Gather(c, cutoff, g[k - 1], k)
           T == {m \in 0..n : ~ Reached(m)}
<1>1. ASSUME T # {} PROVE FALSE
  <2>1. PICK m \in T : \A k \in T : m <= k
    <3>1. T \in SUBSET Nat
      OBVIOUS
    <3> HIDE DEF T
    <3> QED BY <1>1, <3>1, LeastNatural
  <2>2. m \in 0..n /\ ~ Reached(m)
    <3> HIDE DEF Reached
    <3> QED OBVIOUS
  <2>3. m # 0
    <3> DEFINE h == [k \in 0..0 |-> <<>>]
    <3>1. h = [k \in 0..0 |-> h[k]] /\ h[0] = <<>> /\ 1..0 = {}
      OBVIOUS
    <3> HIDE DEF h
    <3>2. Reached(0)
      BY <3>1
    <3> HIDE DEF Reached
    <3> QED BY <2>2, <3>2
  <2>4. m - 1 \in 0..n /\ m \in 1..n /\ ~ (m <= m - 1) /\ m \in Nat
    BY ONLY <2>2, <2>3, n \in Nat
  <2>5. Reached(m - 1)
    <3>1. m - 1 \notin T
      <4> HIDE DEF T
      <4> QED BY <2>1, <2>4
    <3> HIDE DEF Reached
    <3> QED BY <2>4, <3>1
  <2>6. PICK g : /\ g = [k \in 0..(m - 1) |-> g[k]] /\ g[0] = <<>>
                 /\ \A k \in 1..(m - 1) : g[k] = Gather(c, cutoff, g[k - 1], k)
    BY <2>5
  <2> DEFINE v == Gather(c, cutoff, g[m - 1], m)
             h == [k \in 0..m |-> IF k = m THEN v ELSE g[k]]
  <2>7. /\ h = [k \in 0..m |-> h[k]] /\ h[m] = v
        /\ \A k \in 0..(m - 1) : h[k] = g[k]
    <3>1. m \in 0..m /\ \A k \in 0..(m - 1) : k \in 0..m /\ k # m
      BY ONLY <2>4, n \in Nat
    <3> HIDE DEF v
    <3> QED BY <3>1
  <2> HIDE DEF h
  <2>8. \A k \in 1..m : h[k] = Gather(c, cutoff, h[k - 1], k)
    <3> TAKE k \in 1..m
    <3>1. k - 1 \in 0..(m - 1) /\ (k # m => k \in 1..(m - 1) /\ k \in 0..(m - 1))
      BY ONLY <2>4, n \in Nat, k \in 1..m
    <3>2. h[k - 1] = g[k - 1]
      BY <2>7, <3>1
    <3>3. CASE k = m
      BY <2>7, <3>2, <3>3
    <3>4. CASE k # m
      BY <2>6, <2>7, <3>1, <3>2, <3>4
    <3> QED BY <3>3, <3>4
  <2>9. h[0] = <<>>
    <3>1. 0 \in 0..(m - 1)
      BY ONLY <2>4, n \in Nat
    <3> QED BY <2>6, <2>7, <3>1
  <2>10. Reached(m)
    BY <2>7, <2>8, <2>9
  <2> HIDE DEF Reached
  <2> QED BY <2>2, <2>10
<1>2. Reached(n)
  <2>1. n \in 0..n
    OBVIOUS
  <2> HIDE DEF Reached
  <2> QED BY <1>1, <2>1
<1> QED BY <1>2, GathersStep

LEMMA WindowGathers ==
  ASSUME NEW c, c # <<>>, Len(c) \in Nat, NEW w
  PROVE  \E g : Gathers(c, Latest(Last(c)) - w, Len(c), g) /\ WindowArrays(c, w) = g[Len(c)]
<1> DEFINE upTo == CHOOSE g : Gathers(c, Latest(Last(c)) - w, Len(c), g)
<1>1. Gathers(c, Latest(Last(c)) - w, Len(c), upTo)
  BY GathersExists
<1>2. WindowArrays(c, w) = upTo[Len(c)]
  BY DEF WindowArrays, Gathers, Gather
<1> HIDE DEF upTo
<1> QED BY <1>1, <1>2

\* z is a followed by b.
Joined(z, a, b, S) ==
  /\ z \in Seq(S) /\ Len(z) = Len(a) + Len(b) /\ Len(a) \in Nat /\ Len(b) \in Nat
  /\ \A i \in 1..Len(a) : i \in 1..Len(z) /\ z[i] = a[i]
  /\ \A i \in 1..Len(b) : Len(a) + i \in 1..Len(z) /\ z[Len(a) + i] = b[i]
  /\ \A i \in 1..Len(z) : i \in 1..Len(a) \/ \E m \in 1..Len(b) : i = Len(a) + m

LEMMA JoinAt ==
  ASSUME NEW S, NEW a \in Seq(S), NEW b \in Seq(S)
  PROVE  Joined(a \o b, a, b, S)
<1>1. /\ a \o b \in Seq(S) /\ Len(a \o b) = Len(a) + Len(b) /\ Len(a) \in Nat /\ Len(b) \in Nat
      /\ \A i \in 1..Len(a) : i \in 1..Len(a \o b) /\ (a \o b)[i] = a[i]
      /\ \A i \in 1..Len(b) : Len(a) + i \in 1..Len(a \o b) /\ (a \o b)[Len(a) + i] = b[i]
  OBVIOUS
<1>2. PICK l \in Nat, m \in Nat : l = Len(a) /\ m = Len(b)
  BY <1>1
<1>3. ASSUME NEW i \in 1..(l + m) PROVE i \in 1..l \/ \E k \in 1..m : i = l + k
  <2>1. CASE i > l
    <3>1. i - l \in 1..m /\ i = l + (i - l)
      BY <2>1
    <3> QED BY <3>1
  <2>2. CASE ~ (i > l)
    BY <2>2
  <2> QED BY <2>1, <2>2
<1>4. \A i \in 1..Len(a \o b) : i \in 1..Len(a) \/ \E k \in 1..Len(b) : i = Len(a) + k
  <2>1. Len(a \o b) = l + m
    BY ONLY <1>1, <1>2, Zenon
  <2>2. \A i \in 1..Len(a \o b) : i \in 1..l \/ \E k \in 1..m : i = l + k
    BY ONLY <1>3, <2>1
  <2> QED BY ONLY <1>2, <2>2, Zenon
<1> QED BY ONLY <1>1, <1>4, Zenon DEF Joined

InOrder(s) == \A i, j \in 1..Len(s) : i < j => Place(s[i]) < Place(s[j])

\* A sample of the first k chunks.
Sampled(c, k, v) == \E j \in 1..k : \E m \in 1..Len(c[j]) : v = c[j][m]

\* s is what the window takes of the first k chunks.
Window(c, cutoff, k, s) ==
  /\ s \in Seq(SampleRecords) /\ InOrder(s)
  /\ \A i \in 1..Len(s) : Sampled(c, k, s[i])
  /\ \A j \in 1..k : Latest(c[j]) >= cutoff => \E i \in 1..Len(s) : s[i] = Last(c[j])

LEMMA WindowGrows ==
  ASSUME NEW c, Chained(c), NEW cutoff \in Int, NEW k \in 1..Len(c), NEW s,
         Window(c, cutoff, k - 1, s)
  PROVE  Window(c, cutoff, k, Gather(c, cutoff, s, k))
<1>0. Len(c) \in Nat /\ k \in Nat /\ (\A j \in 1..(k - 1) : j \in 1..k /\ j \in 1..Len(c) /\ j < k)
      /\ (\A j \in 1..k : j = k \/ j \in 1..(k - 1)) /\ k \in 1..k
  <2>1. Len(c) \in Nat
    BY ChainFacts
  <2> QED BY ONLY <2>1, k \in 1..Len(c)
<1>1. IsChunk(c[k]) /\ Latest(c[k]) \in Int
  BY ChainFacts, ChunkFacts
<1>2. /\ s \in Seq(SampleRecords) /\ InOrder(s)
      /\ \A i \in 1..Len(s) : Sampled(c, k - 1, s[i])
      /\ \A j \in 1..(k - 1) : Latest(c[j]) >= cutoff => \E i \in 1..Len(s) : s[i] = Last(c[j])
  BY DEF Window
<1>3. CASE Latest(c[k]) < cutoff
  <2>1. Gather(c, cutoff, s, k) = s
    BY <1>3 DEF Gather
  <2>2. ~ (Latest(c[k]) >= cutoff)
    BY ONLY <1>1, <1>3, cutoff \in Int
  <2>3. \A i \in 1..Len(s) : Sampled(c, k, s[i])
    BY ONLY <1>0, <1>2, Zenon DEF Sampled
  <2>4. \A j \in 1..k : Latest(c[j]) >= cutoff => \E i \in 1..Len(s) : s[i] = Last(c[j])
    BY ONLY <1>0, <1>2, <2>2, Zenon
  <2> QED BY <1>2, <2>1, <2>3, <2>4 DEF Window
<1>4. CASE ~ (Latest(c[k]) < cutoff)
  <2> DEFINE y == From(c[k], cutoff)
             z == s \o y
  <2>1. Gather(c, cutoff, s, k) = z
    BY <1>4 DEF Gather
  <2>2. /\ IsChunk(y) /\ Last(y) = Last(c[k]) /\ Place(c[k][1]) <= Place(y[1])
        /\ \A i \in 1..Len(y) : \E m \in 1..Len(c[k]) : y[i] = c[k][m]
    <3>1. Latest(c[k]) >= cutoff
      BY ONLY <1>1, <1>4, cutoff \in Int
    <3> QED BY <1>1, <3>1, FromTrims, TrimFacts
  <2> HIDE DEF y
  <2>3. /\ y \in Seq(SampleRecords) /\ Len(y) \in Nat /\ Len(y) \in 1..Len(y) /\ Last(y) = y[Len(y)]
        /\ \A i \in 1..Len(y) : Place(y[i]) \in Int /\ Place(y[1]) <= Place(y[i])
        /\ Place(y[1]) \in Int /\ Place(c[k][1]) \in Int
    <3>1. y \in Seq(SampleRecords)
      BY <2>2 DEF IsChunk
    <3>2. Len(y) \in 1..2 /\ Last(y) = y[Len(y)] /\ Place(y[1]) \in Int /\ Place(c[k][1]) \in Int
      BY <1>1, <2>2, ChunkFacts
    <3>3. Len(y) \in Nat /\ Len(y) \in 1..Len(y)
      BY ONLY <3>2
    <3>4. \A i \in 1..Len(y) : Place(y[i]) \in Int /\ Place(y[1]) <= Place(y[i])
      BY <2>2, ChunkFacts
    <3> QED BY <3>1, <3>2, <3>3, <3>4
  <2>4. /\ z \in Seq(SampleRecords) /\ Len(z) = Len(s) + Len(y) /\ Len(s) \in Nat
        /\ \A i \in 1..Len(s) : i \in 1..Len(z) /\ z[i] = s[i]
        /\ \A i \in 1..Len(y) : Len(s) + i \in 1..Len(z) /\ z[Len(s) + i] = y[i]
        /\ \A i \in 1..Len(z) : i \in 1..Len(s) \/ \E m \in 1..Len(y) : i = Len(s) + m
    <3>1. s \in Seq(SampleRecords) /\ y \in Seq(SampleRecords)
      BY <1>2, <2>3
    <3>2. Joined(s \o y, s, y, SampleRecords)
      BY ONLY <3>1, JoinAt, Zenon
    <3> QED BY ONLY <3>2 DEF Joined
  <2> HIDE DEF z
  <2>5. ASSUME NEW i \in 1..Len(s), NEW m \in 1..Len(y) PROVE Place(s[i]) < Place(y[m])
    <3>0. PICK j \in 1..(k - 1) : \E l \in 1..Len(c[j]) : s[i] = c[j][l]
      BY <1>2 DEF Sampled
    <3>2. IsChunk(c[j]) /\ End(c[j]) < Place(c[k][1]) /\ End(c[j]) \in Int
      BY <1>0, ChainFacts, ChunkFacts
    <3>1. Place(s[i]) \in Int /\ Place(s[i]) <= End(c[j])
      BY <3>0, <3>2, ChunkFacts
    <3>4. PICK a \in Int, b \in Int, d \in Int, e \in Int, f \in Int :
            /\ a = Place(s[i]) /\ b = End(c[j]) /\ d = Place(c[k][1])
            /\ e = Place(y[1]) /\ f = Place(y[m])
      BY ONLY <2>3, <3>1, <3>2, m \in 1..Len(y), Zenon
    <3>5. a <= b /\ b < d /\ d <= e /\ e <= f
      BY ONLY <2>2, <2>3, <3>1, <3>2, <3>4, m \in 1..Len(y), Zenon
    <3>6. a < f
      BY ONLY <3>5, a \in Int, b \in Int, d \in Int, e \in Int, f \in Int
    <3> QED BY ONLY <3>4, <3>6, Zenon
  <2>6. InOrder(z)
    <3> SUFFICES ASSUME NEW i \in 1..Len(z), NEW j \in 1..Len(z), i < j PROVE Place(z[i]) < Place(z[j])
      BY DEF InOrder
    <3>1. CASE i \in 1..Len(s) /\ j \in 1..Len(s)
      BY <1>2, <2>4, <3>1 DEF InOrder
    <3>2. ASSUME i \in 1..Len(s), NEW m \in 1..Len(y), j = Len(s) + m PROVE Place(z[i]) < Place(z[j])
      BY <2>4, <2>5, <3>2
    <3>3. ASSUME NEW l \in 1..Len(y), i = Len(s) + l, NEW m \in 1..Len(y), j = Len(s) + m
          PROVE  Place(z[i]) < Place(z[j])
      <4>1. l < m
        BY ONLY <2>3, <2>4, <3>3, i < j
      <4>2. Len(y) = 1 \/ (Len(y) = 2 /\ Place(y[1]) < End(y))
        BY <2>2 DEF IsChunk
      <4>3. l = 1 /\ m = 2 /\ Len(y) = 2
        <5>1. Len(y) = 1 \/ Len(y) = 2
          BY ONLY <4>2, Zenon
        <5>2. l \in 1..Len(y) /\ m \in 1..Len(y)
          BY ONLY <3>3
        <5>3. PICK x \in Nat : x = Len(y)
          BY ONLY <2>3
        <5>4. (x = 1 \/ x = 2) /\ l \in 1..x /\ m \in 1..x
          BY ONLY <5>1, <5>2, <5>3, Zenon
        <5>5. l = 1 /\ m = 2 /\ x = 2
          BY ONLY <4>1, <5>4
        <5> QED BY ONLY <5>3, <5>5, Zenon
      <4>4. Place(y[l]) < Place(y[m])
        <5>1. End(y) = Place(y[2])
          BY ONLY <2>3, <4>3, Zenon DEF End
        <5>2. Place(y[1]) < Place(y[2])
          <6>1. Len(y) # 1
            BY ONLY <4>3
          <6> QED BY ONLY <4>2, <5>1, <6>1, Zenon
        <5> QED BY ONLY <4>3, <5>2, Zenon
      <4> QED BY <2>4, <3>3, <4>4
    <3>4. ASSUME j \in 1..Len(s), NEW l \in 1..Len(y), i = Len(s) + l PROVE FALSE
      BY ONLY <2>3, <2>4, <3>4, i < j
    <3> QED BY <2>4, <3>1, <3>2, <3>3, <3>4
  <2>7. ASSUME NEW i \in 1..Len(z) PROVE Sampled(c, k, z[i])
    <3>1. CASE i \in 1..Len(s)
      <4>1. z[i] = s[i] /\ Sampled(c, k - 1, s[i])
        BY ONLY <1>2, <2>4, <3>1, Zenon
      <4>2. Sampled(c, k, s[i])
        BY ONLY <1>0, <4>1, Zenon DEF Sampled
      <4> QED BY ONLY <4>1, <4>2, Zenon
    <3>2. ASSUME NEW m \in 1..Len(y), i = Len(s) + m PROVE Sampled(c, k, z[i])
      <4>1. z[i] = y[m] /\ \E l \in 1..Len(c[k]) : y[m] = c[k][l]
        BY ONLY <2>2, <2>4, <3>2, Zenon
      <4>2. Sampled(c, k, y[m])
        BY ONLY <1>0, <4>1, Zenon DEF Sampled
      <4> QED BY ONLY <4>1, <4>2, Zenon
    <3> QED BY ONLY <2>4, <3>1, <3>2, Zenon, i \in 1..Len(z)
  <2>8. ASSUME NEW j \in 1..k, Latest(c[j]) >= cutoff PROVE \E i \in 1..Len(z) : z[i] = Last(c[j])
    <3>1. CASE j = k
      BY ONLY <2>2, <2>3, <2>4, <3>1, Zenon
    <3>2. CASE j \in 1..(k - 1)
      BY ONLY <1>2, <2>4, <2>8, <3>2, Zenon
    <3> QED BY ONLY <1>0, <2>8, <3>1, <3>2, Zenon
  <2> QED BY <2>1, <2>4, <2>6, <2>7, <2>8 DEF Window
<1> QED BY <1>3, <1>4

LEMMA WindowFacts ==
  ASSUME NEW c, Chained(c), c # <<>>, NEW w \in Nat
  PROVE  Window(c, Latest(Last(c)) - w, Len(c), WindowArrays(c, w))
<1> DEFINE cutoff == Latest(Last(c)) - w
<1>1. PICK n \in Nat : n = Len(c)
  <2>1. c \in Seq(Seq(SampleRecords))
    BY ChainFacts
  <2>2. Len(c) \in Nat
    BY ONLY <2>1
  <2> QED BY ONLY <2>2
<1>2. cutoff \in Int
  <2>1. n \in 1..n
    <3>1. c \in Seq(Seq(SampleRecords))
      BY ChainFacts
    <3> QED BY <1>1, <3>1
  <2>2. Last(c) = c[n]
    BY <1>1 DEF Last
  <2>3. Latest(c[n]) \in Int
    BY <1>1, <2>1, ChainFacts, ChunkFacts
  <2> QED BY <2>2, <2>3
<1>3. PICK g : Gathers(c, cutoff, n, g) /\ WindowArrays(c, w) = g[n]
  BY <1>1, WindowGathers
<1> HIDE DEF cutoff
<1>4. g[0] = <<>> /\ \A k \in 1..n : g[k] = Gather(c, cutoff, g[k - 1], k)
  BY <1>3, GathersStep
<1> DEFINE T == {k \in 0..n : ~ Window(c, cutoff, k, g[k])}
<1>5. ASSUME T # {} PROVE FALSE
  <2>1. PICK m \in T : \A k \in T : m <= k
    <3>1. T \in SUBSET Nat
      OBVIOUS
    <3> HIDE DEF T
    <3> QED BY <1>5, <3>1, LeastNatural
  <2>2. m \in 0..n /\ ~ Window(c, cutoff, m, g[m])
    OBVIOUS
  <2>3. m # 0
    <3>1. Window(c, cutoff, 0, <<>>)
      BY DEF Window, InOrder
    <3> QED BY <1>4, <2>2, <3>1
  <2>4. m - 1 \in 0..n /\ m \in 1..n /\ ~ (m <= m - 1)
    BY ONLY <2>2, <2>3, n \in Nat
  <2>5. m - 1 \notin T
    <3> HIDE DEF T
    <3> QED BY <2>1, <2>4
  <2>6. Window(c, cutoff, m - 1, g[m - 1])
    BY <2>4, <2>5
  <2>7. Window(c, cutoff, m, Gather(c, cutoff, g[m - 1], m))
    BY <1>1, <1>2, <2>4, <2>6, WindowGrows
  <2> QED BY <1>4, <2>2, <2>4, <2>7
<1>6. Window(c, cutoff, n, g[n])
  <2>1. n \in 0..n
    OBVIOUS
  <2> QED BY <1>5, <2>1
<1> QED BY <1>1, <1>3, <1>6 DEF cutoff

-----------------------------------------------------------------------------
(* A file and its index.                                                     *)

\* What is known of a file's frames.
Record(p) ==
  /\ Len(Frames(p)) \in Nat /\ DOMAIN Frames(p) = 1..Len(Frames(p)) /\ MaxTime \in Nat
  /\ \A i \in 1..Len(Frames(p)) : /\ Frames(p)[i].ts \in Nat /\ Frames(p)[i].ts <= MaxTime
                                  /\ Frames(p)[i].peak \in Nat

LEMMA FileRecord ==
  ASSUME content \in Archives, NEW p \in Paths
  PROVE  Record(p)
<1> DEFINE f == Frames(p)
<1>1. f \in Seq(FrameRecords) /\ MaxTime \in Nat
  BY PlaybackAssumption DEF Frames
<1> HIDE DEF f
<1>2. Len(f) \in Nat /\ DOMAIN f = 1..Len(f)
  BY <1>1
<1>3. \A i \in 1..Len(f) : f[i].ts \in 0..MaxTime /\ f[i].peak \in Nat
  <2>1. \A i \in 1..Len(f) : f[i] \in FrameRecords
    BY ONLY <1>1
  <2> QED BY ONLY <2>1 DEF FrameRecords
<1>4. \A i \in 1..Len(f) : f[i].ts \in Nat /\ f[i].ts <= MaxTime
  BY ONLY <1>1, <1>3
<1> QED BY ONLY <1>1, <1>2, <1>3, <1>4, Zenon DEF Record, f

LEMMA IndexFacts ==
  ASSUME content \in Archives, NEW p \in Paths
  PROVE  /\ Len(Indexed(p)) \in Nat /\ Len(Indexed(p)) <= Len(Frames(p))
         /\ DOMAIN Indexed(p) = 1..Len(Indexed(p))
         /\ \A i \in 1..Len(Indexed(p)) : Indexed(p)[i] = Frames(p)[i]
<1> DEFINE f == Frames(p)
           bad == {i \in DOMAIN f : f[i].health = "header"}
<1>1. f \in Seq(FrameRecords) /\ Len(f) \in Nat /\ DOMAIN f = 1..Len(f)
  <2>1. f \in Seq(FrameRecords)
    BY PlaybackAssumption DEF Frames
  <2> HIDE DEF f
  <2> QED BY <2>1
<1>2. Indexed(p) = IF bad = {} THEN f ELSE SubSeq(f, 1, Min(bad) - 1)
  BY DEF Indexed
<1> HIDE DEF f
<1>3. CASE bad = {}
  <2>1. Indexed(p) = f
    BY <1>2, <1>3
  <2> QED BY <1>1, <2>1 DEF f
<1>4. CASE bad # {}
  <2>1. bad \in SUBSET Nat /\ bad \subseteq 1..Len(f)
    BY <1>1
  <2>2. Min(bad) \in bad
    BY <1>4, <2>1, MinIsMember
  <2>3. PICK m \in 1..Len(f) : m = Min(bad)
    BY <2>1, <2>2
  <2>4. Indexed(p) = SubSeq(f, 1, m - 1)
    BY <1>2, <1>4, <2>3
  <2>5. /\ Len(SubSeq(f, 1, m - 1)) = m - 1 /\ DOMAIN SubSeq(f, 1, m - 1) = 1..(m - 1)
        /\ \A i \in 1..(m - 1) : SubSeq(f, 1, m - 1)[i] = f[i]
    BY ONLY <1>1, m \in 1..Len(f)
  <2>6. m - 1 \in Nat /\ m - 1 <= Len(f)
    BY ONLY <1>1, m \in 1..Len(f)
  <2> QED BY ONLY <2>4, <2>5, <2>6, Zenon DEF f
<1> QED BY <1>3, <1>4

LEMMA TimeFacts ==
  ASSUME content \in Archives, NEW p \in Paths
  PROVE  FirstTimestamp(p) \in Nat /\ Duration(p) \in Nat
<1>1. Record(p)
  BY FileRecord
<1>2. Vibration(p) \in SUBSET Nat /\ Vibration(p) \subseteq 1..Len(Indexed(p)) /\ Len(Indexed(p)) \in Nat
  BY IndexFacts DEF Vibration
<1>3. \A i \in 1..Len(Indexed(p)) : Indexed(p)[i].ts \in Nat
  <2> TAKE i \in 1..Len(Indexed(p))
  <2>1. i \in 1..Len(Frames(p)) /\ Indexed(p)[i] = Frames(p)[i]
    <3>1. Len(Indexed(p)) \in Nat /\ Len(Indexed(p)) <= Len(Frames(p)) /\ Len(Frames(p)) \in Nat
      BY <1>1, IndexFacts DEF Record
    <3>2. i \in 1..Len(Frames(p))
      BY ONLY <3>1, i \in 1..Len(Indexed(p))
    <3> QED BY <3>2, IndexFacts
  <2> QED BY <1>1, <2>1 DEF Record
<1>4. FirstTimestamp(p) \in Nat
  <2>1. CASE Vibration(p) = {}
    BY <2>1 DEF FirstTimestamp
  <2>2. CASE Vibration(p) # {}
    <3>1. Min(Vibration(p)) \in 1..Len(Indexed(p))
      BY <1>2, <2>2, MinIsMember
    <3> QED BY <1>3, <2>2, <3>1 DEF FirstTimestamp
  <2> QED BY <2>1, <2>2
<1>5. LastTimestamp(p) \in Nat
  <2>1. CASE Vibration(p) = {}
    BY <2>1 DEF LastTimestamp
  <2>2. CASE Vibration(p) # {}
    <3>0. \A m \in Vibration(p) : m <= Len(Indexed(p))
      BY ONLY <1>2
    <3>1. Max(Vibration(p)) \in 1..Len(Indexed(p))
      BY <1>2, <2>2, <3>0, MaxIsMember
    <3> QED BY <1>3, <2>2, <3>1 DEF LastTimestamp
  <2> QED BY <2>1, <2>2
<1>6. Duration(p) \in Nat
  <2>1. PICK x \in Int : x = LastTimestamp(p) - FirstTimestamp(p)
    BY <1>4, <1>5
  <2>2. \E y \in {0, x} : \A z \in {0, x} : y >= z
    <3>1. CASE x >= 0
      BY <3>1
    <3>2. CASE ~ (x >= 0)
      BY <3>2
    <3> QED BY <3>1, <3>2
  <2>3. Max({0, x}) \in {0, x} /\ Max({0, x}) >= 0
    BY <2>2 DEF Max
  <2>4. Max({0, x}) \in Nat
    BY ONLY <2>3, x \in Int
  <2> QED BY <2>1, <2>4 DEF Duration
<1> QED BY <1>4, <1>6

\* Wherever the search in the index ends.
LEMMA OffsetFacts ==
  ASSUME content \in Archives, NEW p \in Paths, NEW t \in Nat, NEW o \in OffsetsForTime(p, t)
  PROVE  /\ o \in Nat \ {0} /\ o - 1 <= Len(Frames(p))
         /\ o = 1 \/ (o \in 1..Len(Frames(p)) /\ Frames(p)[o].ts <= Cutoff(p, t))
<1>1. PICK n \in Nat, m \in Nat : n = Len(Frames(p)) /\ m = Len(Indexed(p)) /\ m <= n
  BY FileRecord, IndexFacts DEF Record
<1>2. \A i \in 1..m : Indexed(p)[i] = Frames(p)[i]
  BY <1>1, IndexFacts
<1>3. PICK k \in 0..m : o = Max({1, k}) /\ Crosses(p, k, FirstTimestamp(p) + t)
  BY <1>1 DEF OffsetsForTime
<1>4. {1, k} \in SUBSET Nat /\ {1, k} # {} /\ \A i \in {1, k} : i <= m + 1
  OBVIOUS
<1>5. Max({1, k}) \in {1, k}
  BY <1>4, MaxIsMember
<1>6. CASE o = 1
  <2>1. o \in Nat \ {0} /\ o - 1 <= n
    BY ONLY <1>6, n \in Nat
  <2> QED BY <1>1, <1>6, <2>1
<1>7. CASE o = k /\ k > 0
  <2>1. k \in 1..m /\ k \in 1..n /\ o \in Nat \ {0} /\ o - 1 <= n
    BY ONLY <1>1, <1>7, k \in 0..m, n \in Nat, m \in Nat
  <2>2. Frames(p)[o].ts <= Cutoff(p, t)
    BY <1>2, <1>3, <1>7, <2>1 DEF Crosses, Cutoff
  <2> QED BY <1>1, <1>7, <2>1, <2>2
<1>8. o = 1 \/ (o = k /\ k > 0)
  <2>1. ~ (k > 0) => k = 0
    BY ONLY k \in 0..m, m \in Nat
  <2>2. k = 0 => o = 1
    <3>1. Max({1, 0}) >= 1 /\ Max({1, 0}) \in {1, 0}
      BY DEF Max
    <3> QED BY <1>3, <3>1
  <2> QED BY <1>3, <1>5, <2>1, <2>2
<1> QED BY <1>6, <1>7, <1>8

-----------------------------------------------------------------------------
(* Decoding.                                                                 *)

Decoders == [first : Nat \ {0}, read : Nat, done : Nat, eof : BOOLEAN]

\* A decoder within the file.
InFile(p, d) ==
  /\ d \in Decoders /\ d.first - 1 <= d.done /\ d.done <= d.read /\ d.read <= Len(Frames(p))

LEMMA InFileFacts ==
  ASSUME NEW p, NEW d, InFile(p, d)
  PROVE  /\ d.first \in Nat \ {0} /\ d.read \in Nat /\ d.done \in Nat /\ d.eof \in BOOLEAN
         /\ d.first - 1 <= d.done /\ d.done <= d.read /\ d.read <= Len(Frames(p))
         /\ \A n : Pending(p, [d EXCEPT !.read = n]) = Sensor(p) \cap ((d.done + 1)..n)
<1>1. d \in Decoders
  BY DEF InFile
<1>2. d.first \in Nat \ {0} /\ d.read \in Nat /\ d.done \in Nat /\ d.eof \in BOOLEAN
  BY ONLY <1>1 DEF Decoders
<1>3. \A n : [d EXCEPT !.read = n].done = d.done /\ [d EXCEPT !.read = n].read = n
  BY ONLY <1>1 DEF Decoders
<1>4. \A n : Pending(p, [d EXCEPT !.read = n]) = Sensor(p) \cap ((d.done + 1)..n)
  BY ONLY <1>3 DEF Pending
<1>5. d.first - 1 <= d.done /\ d.done <= d.read /\ d.read <= Len(Frames(p))
  BY DEF InFile
<1> QED BY <1>2, <1>4, <1>5

\* Reading goes on until a frame waits or the file ends.
LEMMA ReadFacts ==
  ASSUME content \in Archives, NEW p \in Paths, NEW d, InFile(p, d), NEW t \in Nat
  PROVE  /\ FramesRead(p, d, t) \in d.read..Len(Frames(p))
         /\ \/ FramesRead(p, d, t) = Len(Frames(p))
            \/ \E i \in Sensor(p) \cap ((d.done + 1)..FramesRead(p, d, t)) : ~ Due(p, i, t)
<1>1. PICK N \in Nat, r \in Nat : N = Len(Frames(p)) /\ r = d.read /\ r <= N
  BY FileRecord, InFileFacts DEF Record
<1>2. ChunkFrames \in Nat \ {0}
  BY PlaybackAssumption
<1> DEFINE upTo(k) == Min({Len(Frames(p)), d.read + k * ChunkFrames})
           late(n) == \E i \in Pending(p, [d EXCEPT !.read = n]) : ~ Due(p, i, t)
           enough(n) == n = Len(Frames(p)) \/ late(n)
           T == {n \in {upTo(k) : k \in 0..Len(Frames(p))} : enough(n)}
<1>3. FramesRead(p, d, t) = Min(T)
  BY DEF FramesRead
<1>4. ASSUME NEW k \in 0..N
      PROVE  upTo(k) \in r..N /\ (k = N => upTo(k) = N)
  <2>1. PICK x \in Nat : x = k * ChunkFrames /\ x >= k
    <3>1. k * ChunkFrames \in Nat /\ k * ChunkFrames >= k
      BY <1>2
    <3> QED BY <3>1
  <2>2. upTo(k) = Min({N, r + x})
    BY <1>1, <2>1
  <2>3. {N, r + x} \in SUBSET Nat /\ {N, r + x} # {}
    OBVIOUS
  <2>4. Min({N, r + x}) \in {N, r + x} /\ Min({N, r + x}) <= N /\ Min({N, r + x}) <= r + x
    BY ONLY <2>3, MinIsMember
  <2> DEFINE y == Min({N, r + x})
  <2> HIDE DEF y
  <2>5. y \in {N, r + x} /\ y <= N /\ y <= r + x
    BY <2>4 DEF y
  <2>6. y \in r..N /\ (k = N => y = N)
    BY ONLY <1>1, <2>1, <2>5, k \in 0..N, N \in Nat, r \in Nat, x \in Nat
  <2> QED BY <2>2, <2>6 DEF y
<1> HIDE DEF upTo, late
<1>5. T \in SUBSET Nat /\ T \subseteq r..N
  <2>1. ASSUME NEW n \in T PROVE n \in r..N
    <3>1. PICK k \in 0..N : n = upTo(k)
      BY <1>1
    <3> QED BY <1>4, <3>1
  <2>2. T \subseteq r..N
    BY <2>1
  <2> HIDE DEF T
  <2> QED BY <2>2
<1>6. N \in T
  <2>1. upTo(N) = N /\ N \in 0..N
    BY <1>4
  <2> QED BY <1>1, <2>1
<1>7. Min(T) \in T
  <2> HIDE DEF T
  <2> QED BY <1>5, <1>6, MinIsMember
<1> DEFINE m == FramesRead(p, d, t)
<1>8. m \in r..N /\ enough(m)
  BY <1>3, <1>5, <1>7
<1>9. late(m) => \E i \in Sensor(p) \cap ((d.done + 1)..m) : ~ Due(p, i, t)
  BY InFileFacts DEF late
<1> HIDE DEF m
<1> QED BY <1>1, <1>8, <1>9 DEF m

\* Decoder e has applied what follows in the file up to a frame that is not due.
Fills(p, d, t, e) ==
  /\ InFile(p, e) /\ e.first = d.first /\ d.done <= e.done
  /\ \A i \in Sensor(p) : d.done < i /\ i <= e.done => Due(p, i, t)
  /\ e.done = Len(Frames(p)) \/ (e.done + 1 \in Sensor(p) /\ ~ Due(p, e.done + 1, t))

\* _fill_until.
LEMMA FillFacts ==
  ASSUME content \in Archives, NEW p \in Paths, NEW d, InFile(p, d), NEW t \in Nat,
         NEW e, e = FillUntil(p, d, t)
  PROVE  Fills(p, d, t, e)
<1> USE DEF Fills
<1> DEFINE n == FramesRead(p, d, t)
           late == {i \in Pending(p, [d EXCEPT !.read = n]) : ~ Due(p, i, t)}
           P == Sensor(p) \cap ((d.done + 1)..n)
<1>1. PICK N \in Nat, r \in Nat, o \in Nat, f \in Nat \ {0} :
        /\ N = Len(Frames(p)) /\ r = d.read /\ o = d.done /\ f = d.first
        /\ f - 1 <= o /\ o <= r /\ r <= N
  BY FileRecord, InFileFacts DEF Record
<1>2. n \in r..N /\ (n = N \/ \E i \in P : ~ Due(p, i, t))
  BY <1>1, ReadFacts
<1>3. late = {i \in P : ~ Due(p, i, t)}
  BY InFileFacts
<1>4. e = [d EXCEPT !.read = n, !.done = IF late = {} THEN n ELSE Min(late) - 1,
                    !.eof = @ \/ late = {}]
  BY DEF FillUntil
<1> HIDE DEF n, late
<1>5. d \in Decoders
  BY DEF InFile
<1>6. /\ e.first = f /\ e.read = n /\ e.done = IF late = {} THEN n ELSE Min(late) - 1
      /\ e.done \in Nat => e \in Decoders
  <2>1. n \in Nat
    BY ONLY <1>2, r \in Nat
  <2>2. DOMAIN d = {"first", "read", "done", "eof"} /\ d.eof \in BOOLEAN /\ d.first \in Nat \ {0}
    BY ONLY <1>5 DEF Decoders
  <2> DEFINE v == IF late = {} THEN n ELSE Min(late) - 1
             b == d.eof \/ late = {}
  <2>3. b \in BOOLEAN
    BY DEF b
  <2> HIDE DEF v, b
  <2>4. e = [d EXCEPT !.read = n, !.done = v, !.eof = b]
    BY <1>4 DEF v, b
  <2>5. /\ e.first = d.first /\ e.read = n /\ e.done = v
        /\ v \in Nat => e \in Decoders
    BY ONLY <1>5, <2>1, <2>3, <2>4 DEF Decoders
  <2> QED BY <1>1, <2>5 DEF v
<1>7. \A i \in Sensor(p) : i \in 1..N /\ Frames(p)[i].ts \in Nat
  BY <1>1, FileRecord DEF Sensor, Intact, Record
<1>8. CASE late = {}
  <2>1. n = N
    BY <1>2, <1>3, <1>8
  <2>2. e.done = N
    BY <1>6, <1>8, <2>1
  <2>3. InFile(p, e) /\ d.done <= e.done /\ e.first = d.first
    <3>1. e \in Decoders
      BY <1>6, <2>2
    <3>2. f - 1 <= N /\ o <= N /\ N <= N
      BY ONLY <1>1, N \in Nat, o \in Nat, r \in Nat, f \in Nat \ {0}
    <3> QED BY <1>1, <1>6, <2>1, <2>2, <3>1, <3>2 DEF InFile
  <2>4. ASSUME NEW i \in Sensor(p), d.done < i PROVE Due(p, i, t)
    <3>1. i \in (o + 1)..N
      BY <1>1, <1>7, <2>4
    <3>2. i \in P
      BY <1>1, <2>1, <3>1
    <3> QED BY <1>3, <1>8, <3>2
  <2> QED BY <1>1, <2>2, <2>3, <2>4
<1>9. CASE late # {}
  <2>1. late \in SUBSET Nat
    <3>1. \A i \in late : i \in Sensor(p)
      BY <1>3
    <3> QED BY <1>7, <3>1
  <2>2. Min(late) \in late /\ \A i \in late : Min(late) <= i
    BY <1>9, <2>1, MinIsMember
  <2>3. PICK l \in Nat : l = Min(late)
    BY <2>1, <2>2
  <2>4. l \in P /\ ~ Due(p, l, t) /\ l \in Sensor(p) /\ l \in (o + 1)..n
    BY <1>1, <1>3, <2>2, <2>3
  <2>5. e.done = l - 1 /\ n \in Nat /\ n <= N
    <3>1. e.done = l - 1
      BY <1>6, <1>9, <2>3
    <3> QED BY ONLY <1>2, <3>1, r \in Nat, N \in Nat
  <2>6. l - 1 \in Nat /\ o <= l - 1 /\ l - 1 <= n /\ f - 1 <= l - 1
    <3>1. f - 1 <= o /\ l \in (o + 1)..n /\ n \in Nat
      BY ONLY <1>1, <2>4, <2>5, Zenon
    <3> QED BY ONLY <3>1, o \in Nat, l \in Nat, f \in Nat \ {0}
  <2>7. InFile(p, e) /\ d.done <= e.done /\ e.first = d.first
    BY <1>1, <1>6, <2>5, <2>6 DEF InFile
  <2>8. ASSUME NEW i \in Sensor(p), d.done < i, i <= e.done PROVE Due(p, i, t)
    <3>1. i \in (o + 1)..n /\ ~ (l <= i)
      <4>1. i \in Nat /\ o < i /\ i <= l - 1
        BY <1>1, <1>7, <2>5, <2>8
      <4> QED BY ONLY <2>5, <2>6, <4>1, o \in Nat, l \in Nat
    <3>2. i \in P /\ i \notin late
      BY <1>1, <2>2, <2>3, <3>1
    <3> QED BY <1>3, <3>2
  <2>9. e.done + 1 = l
    BY ONLY <2>5, l \in Nat
  <2> QED BY <2>4, <2>7, <2>8, <2>9
<1> QED BY <1>8, <1>9

LEMMA MaxUnique ==
  ASSUME NEW T \in SUBSET Nat, NEW n \in Nat, \A m \in T : m <= n, NEW x \in T, \A m \in T : m <= x
  PROVE  Max(T) = x
<1>1. Max(T) \in T /\ \A m \in T : m <= Max(T)
  BY MaxIsMember
<1>2. Max(T) <= x /\ x <= Max(T) /\ Max(T) \in Nat /\ x \in Nat
  BY <1>1
<1> QED BY ONLY <1>2

-----------------------------------------------------------------------------
(* Filling the store.                                                        *)

\* The vibration frames from o to k.
Taken(p, o, k) == Intact(p, "iis") \cap (o..k)

\* The samples of frame k, when o was the first frame.
Chunk(p, o, k) == SamplesOf(p, Fresh(o), k)

LEMMA SamplesAre ==
  ASSUME NEW p, NEW d, NEW k
  PROVE  SamplesOf(p, d, k) = Chunk(p, d.first, k)
<1>1. Fresh(d.first).first = d.first
  BY DEF Fresh
<1> QED BY ONLY <1>1 DEF SamplesOf, Chunk

\* v is a sample of one of the vibration frames from o to k.
Genuine(p, o, k, v) == v.of \in Taken(p, o, k) /\ v = Chunk(p, o, v.of)[v.nth]

\* c has a chunk for each of them, but for those that are older than the retention.
Kept(p, o, k, c) ==
  /\ Chained(c)
  /\ \A j \in 1..Len(c) : \A m \in 1..Len(c[j]) : Genuine(p, o, k, c[j][m])
  /\ \A j \in 1..Len(c) : Last(c[j]).nth = 2
  /\ c # <<>> => Last(Last(c)).of = Max(Taken(p, o, k))
  /\ \A i \in Taken(p, o, k) :
       (\A m \in Taken(p, o, k) : m > i => Frames(p)[m].ts - Retention <= Frames(p)[i].ts)
         => \E j \in 1..Len(c) : Last(c[j]).of = i

LEMMA StoredIsKept ==
  ASSUME NEW p, NEW d, NEW c
  PROVE  Stored(p, d, c) <=> Kept(p, d.first, d.done, c)
<1>1. Chained(c) => DOMAIN c = 1..Len(c) /\ \A j \in 1..Len(c) : DOMAIN c[j] = 1..Len(c[j])
  <2> SUFFICES ASSUME Chained(c)
               PROVE  DOMAIN c = 1..Len(c) /\ \A j \in 1..Len(c) : DOMAIN c[j] = 1..Len(c[j])
    OBVIOUS
  <2>1. c \in Seq(Seq(SampleRecords))
    BY ChainFacts
  <2>2. DOMAIN c = 1..Len(c) /\ \A j \in 1..Len(c) : c[j] \in Seq(SampleRecords)
    BY ONLY <2>1
  <2> QED BY ONLY <2>2
<1>2. Applied(p, d, "iis") = Taken(p, d.first, d.done)
  BY DEF Applied, Taken
<1>3. \A k : SamplesOf(p, d, k) = Chunk(p, d.first, k)
  BY SamplesAre
<1>4. ASSUME Chained(c)
      PROVE  (\A j \in DOMAIN c : \A m \in DOMAIN c[j] :
                /\ c[j][m].of \in Applied(p, d, "iis")
                /\ c[j][m] = SamplesOf(p, d, c[j][m].of)[c[j][m].nth])
             <=> \A j \in 1..Len(c) : \A m \in 1..Len(c[j]) : Genuine(p, d.first, d.done, c[j][m])
  <2>1. \A v : v.of \in Applied(p, d, "iis") /\ v = SamplesOf(p, d, v.of)[v.nth]
               <=> Genuine(p, d.first, d.done, v)
    BY ONLY <1>2, <1>3, Zenon DEF Genuine
  <2>2. DOMAIN c = 1..Len(c) /\ \A j \in 1..Len(c) : DOMAIN c[j] = 1..Len(c[j])
    BY <1>1, <1>4
  <2> QED BY ONLY <2>1, <2>2, Zenon
<1>5. ASSUME Chained(c) PROVE DOMAIN c = 1..Len(c)
  BY <1>1, <1>5
<1> QED BY ONLY <1>2, <1>4, <1>5, Zenon DEF Stored, Kept

\* What is known of the chunk x that frame k brings, when o was the first frame.
FitsOn(p, o, k, x) ==
  /\ x = Chunk(p, o, k) /\ IsChunk(x) /\ x # <<>> /\ Len(x) = 2
  /\ \A m \in 1..2 : x[m].of = k /\ x[m].nth = m
  /\ Last(x) = x[2] /\ Latest(x) = Frames(p)[k].ts

LEMMA TakenFacts ==
  ASSUME NEW p, Record(p), NEW o \in Nat \ {0}, NEW k \in Nat
  PROVE  /\ Taken(p, o, k) \in SUBSET Nat /\ \A i \in Taken(p, o, k) : i <= k
         /\ \A i \in Taken(p, o, k) : i \in Intact(p, "iis") /\ Frames(p)[i].ts \in Nat
<1>1. \A i \in Taken(p, o, k) : i \in o..k /\ i \in Intact(p, "iis")
  BY DEF Taken
<1>2. \A i \in Intact(p, "iis") : Frames(p)[i].ts \in Nat
  BY DEF Record, Intact
<1>3. \A i \in o..k : i \in Nat /\ i <= k
  OBVIOUS
<1> QED BY <1>1, <1>2, <1>3

LEMMA SampleChunk ==
  ASSUME NEW p, Record(p), NEW o \in Nat \ {0}, NEW k \in Nat \ {0}, k \in Intact(p, "iis")
  PROVE  /\ FitsOn(p, o, k, Chunk(p, o, k))
         /\ Chunk(p, o, k)[1].t = IF Taken(p, o, k - 1) = {} THEN Frames(p)[k].ts - 1
                                  ELSE Frames(p)[Max(Taken(p, o, k - 1))].ts + 1
<1> DEFINE before == Taken(p, o, k - 1)
           f == Frames(p)
           a == IF before = {} THEN f[k].ts - 1 ELSE f[Max(before)].ts + 1
           x == Chunk(p, o, k)
<1>1. x = <<[t |-> a, mag |-> 0, of |-> k, nth |-> 1], [t |-> f[k].ts, mag |-> f[k].peak, of |-> k, nth |-> 2]>>
  <2>1. Fresh(o).first = o
    BY DEF Fresh
  <2> QED BY <2>1 DEF Chunk, SamplesOf, Taken
<1>2. f[k].ts \in Nat /\ f[k].peak \in Nat
  BY DEF Record, Intact
<1>3. \A i \in before : i \in Nat /\ i <= k - 1 /\ f[i].ts \in Nat
  BY TakenFacts
<1> HIDE DEF before, f, x
<1>4. a \in Int
  <2>1. CASE before = {}
    BY <1>2, <2>1
  <2>2. CASE before # {}
    <3>1. before \in SUBSET Nat /\ k - 1 \in Nat
      BY <1>3
    <3>2. Max(before) \in before
      BY <1>3, <2>2, <3>1, MaxIsMember
    <3> QED BY <1>3, <2>2, <3>2
  <2> QED BY <2>1, <2>2
<1>4a. a = IF before = {} THEN f[k].ts - 1 ELSE f[Max(before)].ts + 1
  OBVIOUS
<1> HIDE DEF a
<1>5. PICK b \in Nat, h \in Nat : b = f[k].ts /\ h = f[k].peak
  BY <1>2
<1> DEFINE s1 == [t |-> a, mag |-> 0, of |-> k, nth |-> 1]
           s2 == [t |-> b, mag |-> h, of |-> k, nth |-> 2]
<1>6. x = <<s1, s2>>
  BY <1>1, <1>5
<1>7. /\ s1 \in SampleRecords /\ s2 \in SampleRecords /\ s1.t = a /\ s2.t = b
      /\ s1.of = k /\ s1.nth = 1 /\ s2.of = k /\ s2.nth = 2
  BY <1>4 DEF SampleRecords
<1> HIDE DEF s1, s2
<1>8. Place(s1) = 2 * k + 1 /\ Place(s2) = 2 * k + 2
  BY <1>7 DEF Place
<1>9. x \in Seq(SampleRecords) /\ Len(x) = 2 /\ x[1] = s1 /\ x[2] = s2 /\ x # <<>>
  BY ONLY <1>6, <1>7
<1>10. Last(x) = s2
  BY ONLY <1>9 DEF Last
<1>11. Place(x[1]) < End(x)
  BY ONLY <1>8, <1>9, <1>10, k \in Nat \ {0} DEF End
<1>12. IsChunk(x)
  BY ONLY <1>9, <1>11 DEF IsChunk
<1>13. \A m \in 1..2 : x[m].of = k /\ x[m].nth = m
  <2>1. \A m \in 1..2 : m = 1 \/ m = 2
    OBVIOUS
  <2> QED BY ONLY <1>7, <1>9, <2>1, Zenon
<1>14. Latest(x) = f[k].ts
  BY ONLY <1>5, <1>7, <1>10, Zenon DEF Latest
<1>15. FitsOn(p, o, k, x)
  <2>1. Last(x) = x[2]
    BY ONLY <1>9, <1>10, Zenon
  <2>2. x = Chunk(p, o, k)
    BY DEF x
  <2> QED BY ONLY <1>9, <1>12, <1>13, <1>14, <2>1, <2>2, Zenon DEF FitsOn, f
<1>16. x[1].t = a
  BY ONLY <1>7, <1>9, Zenon
<1> QED BY ONLY <1>4a, <1>15, <1>16, Zenon DEF x, before, f

\* A chunk ends with the frame's own time.
LEMMA ChunkEnds ==
  ASSUME NEW p, Record(p), NEW o \in Nat \ {0}, NEW k \in Nat, NEW c, Kept(p, o, k, c),
         NEW j \in 1..Len(c)
  PROVE  Last(c[j]).of \in Taken(p, o, k) /\ Latest(c[j]) = Frames(p)[Last(c[j]).of].ts
<1>1. IsChunk(c[j]) /\ Last(c[j]).nth = 2
  BY ChainFacts DEF Kept
<1>2. Last(c[j]) = c[j][Len(c[j])] /\ Len(c[j]) \in 1..Len(c[j])
  BY <1>1, ChunkFacts
<1>3. Genuine(p, o, k, Last(c[j]))
  BY <1>2 DEF Kept
<1>4. PICK i : i = Last(c[j]).of /\ i \in Taken(p, o, k) /\ Last(c[j]) = Chunk(p, o, i)[2]
  BY <1>1, <1>3 DEF Genuine
<1>5. i \in Nat \ {0} /\ i \in Intact(p, "iis")
  <2>1. i \in o..k /\ i \in Intact(p, "iis")
    BY <1>4 DEF Taken
  <2> QED BY ONLY <2>1, o \in Nat \ {0}
<1>6. FitsOn(p, o, i, Chunk(p, o, i))
  BY <1>5, SampleChunk
<1>7. Chunk(p, o, i)[2].t = Frames(p)[i].ts
  BY ONLY <1>6, Zenon DEF FitsOn, Latest
<1> QED BY ONLY <1>4, <1>7, Zenon DEF Latest

Grown(C, c, x) ==
  /\ Len(C) = Len(c) + 1 /\ Len(c) \in Nat
  /\ C[Len(c) + 1] = x /\ \A j \in 1..Len(c) : C[j] = c[j]

\* A chunk that fits on the others.
LEMMA ChainGrows ==
  ASSUME NEW p, Record(p), NEW o \in Nat \ {0}, NEW k \in Nat \ {0}, NEW c, Kept(p, o, k - 1, c),
         NEW x, FitsOn(p, o, k, x), NEW C, C = Append(c, x)
  PROVE  Chained(C) /\ Grown(C, c, x)
<1>1. c \in Seq(Seq(SampleRecords)) /\ \A j \in 1..Len(c) : IsChunk(c[j])
  BY ChainFacts DEF Kept
<1>2. x \in Seq(SampleRecords) /\ IsChunk(x)
  BY DEF FitsOn, IsChunk
<1>3. PICK n \in Nat : n = Len(c)
  BY <1>1
<1>4. C \in Seq(Seq(SampleRecords)) /\ Len(C) = n + 1 /\ C[n + 1] = x /\ \A j \in 1..n : C[j] = c[j]
  BY ONLY <1>1, <1>2, <1>3, C = Append(c, x), AppendProperties
<1>5. \A j \in 1..(n + 1) : j = n + 1 \/ j \in 1..n
  OBVIOUS
<1>6. \A j \in 1..(n + 1) : IsChunk(C[j])
  BY <1>1, <1>2, <1>3, <1>4, <1>5
<1>7. ASSUME NEW i \in 1..(n + 1), NEW j \in 1..(n + 1), i < j PROVE End(C[i]) < Place(C[j][1])
  <2>1. i \in 1..n
    BY ONLY <1>7, n \in Nat
  <2>2. CASE j = n + 1
    <3>1. k - 1 \in Nat /\ i \in 1..Len(c)
      BY <1>3, <2>1
    <3>2. PICK l : l = Last(c[i]).of /\ l \in Taken(p, o, k - 1) /\ Last(c[i]).nth = 2
      BY <3>1, ChunkEnds DEF Kept
    <3>3. l \in Nat /\ l <= k - 1
      BY <3>1, <3>2, TakenFacts
    <3>4. End(c[i]) = 2 * l + 2
      BY <3>2 DEF End, Place
    <3>5. x[1].of = k /\ x[1].nth = 1
      <4>1. 1 \in 1..2
        OBVIOUS
      <4> QED BY ONLY <4>1, FitsOn(p, o, k, x), Zenon DEF FitsOn
    <3>6. Place(x[1]) = 2 * k + 1
      BY <3>5 DEF Place
    <3>7. 2 * l + 2 < 2 * k + 1
      BY ONLY <3>3, k \in Nat \ {0}
    <3> QED BY ONLY <1>4, <2>1, <2>2, <3>4, <3>6, <3>7, Zenon
  <2>3. CASE j \in 1..n
    <3>1. End(c[i]) < Place(c[j][1])
      <4>1. Chained(c)
        BY DEF Kept
      <4> QED BY <1>3, <1>7, <2>1, <2>3, <4>1, ChainFacts
    <3> QED BY <1>4, <2>1, <2>3, <3>1
  <2> QED BY <1>5, <2>2, <2>3
<1>8. Chained(C)
  BY <1>4, <1>6, <1>7, ChainFacts
<1> QED BY <1>3, <1>4, <1>8 DEF Grown

\* _apply_frame for frame k.
Apply(p, d, s, k) == IF k \in Intact(p, "iis") THEN AppendIis(s, SamplesOf(p, d, k)) ELSE s

\* Pruning c, of n chunks, leaves r, which starts with chunk f.
Leaves(c, n, r, f) ==
  /\ r \in Seq(Seq(SampleRecords)) /\ Len(r) = n - f + 1
  /\ \A j \in 1..Len(r) : f + (j - 1) \in 1..n /\ Trimmed(r[j], c[f + (j - 1)])
  /\ \A j \in 1..n : j < f => Latest(c[j]) < Latest(c[n]) - Retention

LEMMA StoreGrows ==
  ASSUME NEW p, Record(p), NEW d, NEW o \in Nat \ {0}, d.first = o, NEW k \in Nat, o <= k,
         NEW c, Kept(p, o, k - 1, c)
  PROVE  Kept(p, o, k, Apply(p, d, c, k))
<1>1. CASE k \notin Intact(p, "iis")
  <2>1. Taken(p, o, k) = Taken(p, o, k - 1)
    <3>1. \A i : i \in o..k <=> i \in o..(k - 1) \/ i = k
      OBVIOUS
    <3> QED BY <1>1, <3>1 DEF Taken
  <2>2. Apply(p, d, c, k) = c
    BY <1>1 DEF Apply
  <2>3. \A v : Genuine(p, o, k - 1, v) <=> Genuine(p, o, k, v)
    BY ONLY <2>1, Zenon DEF Genuine
  <2> QED BY ONLY <2>1, <2>2, <2>3, Kept(p, o, k - 1, c), Zenon DEF Kept
<1>2. CASE k \in Intact(p, "iis")
  <2> DEFINE x == SamplesOf(p, d, k)
             C == Append(c, x)
             r == Pruned(C)
             f == Frames(p)
             A == Taken(p, o, k)
             B == Taken(p, o, k - 1)
  <2>0. k \in Nat \ {0} /\ k - 1 \in Nat
    OBVIOUS
  <2>1. FitsOn(p, o, k, x)
    <3>1. k \in Nat \ {0}
      OBVIOUS
    <3> QED BY <1>2, <3>1, SampleChunk, SamplesAre
  <2>2. Apply(p, d, c, k) = r
    <3>1. x # <<>>
      BY <2>1 DEF FitsOn
    <3> QED BY <1>2, <3>1 DEF Apply, AppendIis
  <2> HIDE DEF x
  <2>3. /\ Chained(C) /\ Len(C) = Len(c) + 1 /\ Len(c) \in Nat
        /\ C[Len(c) + 1] = x /\ \A j \in 1..Len(c) : C[j] = c[j]
    <3>1. Kept(p, o, k - 1, c)
      OBVIOUS
    <3>2. C = Append(c, x)
      BY DEF C
    <3> HIDE DEF C
    <3>3. Chained(C) /\ Grown(C, c, x)
      BY ONLY <2>1, <3>1, <3>2, ChainGrows, k \in Nat \ {0}, Record(p), o \in Nat \ {0}
    <3> QED BY ONLY <3>3 DEF Grown
  <2> HIDE DEF C
  <2>4. PICK n \in Nat : n = Len(c) /\ Len(C) = n + 1 /\ n + 1 >= 1
    BY <2>3
  <2> HIDE DEF r
  <2>4a. PICK s \in 1..(n + 1) : Leaves(C, n + 1, r, s)
    <3>1. r = Pruned(C)
      BY DEF r
    <3>2. Len(C) >= 1 /\ Chained(C)
      BY <2>3, <2>4
    <3>3. \E s \in 1..Len(C) : Leaves(C, Len(C), r, s)
      BY ONLY <3>1, <3>2, PrunedShape, Zenon DEF Leaves
    <3>4. Len(C) = n + 1
      BY <2>4
    <3> QED BY ONLY <3>3, <3>4
  <2>5. /\ r \in Seq(Seq(SampleRecords)) /\ Len(r) = n + 1 - s + 1
        /\ \A j \in 1..Len(r) : s + (j - 1) \in 1..(n + 1) /\ Trimmed(r[j], C[s + (j - 1)])
        /\ \A j \in 1..(n + 1) : j < s => Latest(C[j]) < Latest(C[n + 1]) - Retention
    BY ONLY <2>4a DEF Leaves
  <2>6. Chained(r)
    <3>1. s \in Nat
      BY ONLY s \in 1..(n + 1)
    <3> QED BY <2>3, <2>4, <2>5, <3>1, TrimChained
  <2>7. \A j \in 1..Len(r) : /\ s + (j - 1) \in 1..(n + 1) /\ Last(r[j]) = Last(C[s + (j - 1)])
                              /\ \A m \in 1..Len(r[j]) : \E l \in 1..Len(C[s + (j - 1)]) :
                                   r[j][m] = C[s + (j - 1)][l]
    <3> TAKE j \in 1..Len(r)
    <3> DEFINE q == s + (j - 1)
    <3>1. q \in 1..(n + 1) /\ Trimmed(r[j], C[q])
      BY <2>5
    <3>2. IsChunk(C[q])
      BY <2>3, <2>4, <3>1, ChainFacts
    <3> HIDE DEF q
    <3> DEFINE u == C[q]
               v == r[j]
    <3>4. IsChunk(u) /\ Trimmed(v, u)
      BY ONLY <3>1, <3>2, Zenon
    <3> HIDE DEF u, v
    <3>5. Last(v) = Last(u) /\ \A m \in 1..Len(v) : \E l \in 1..Len(u) : v[m] = u[l]
      BY <3>4, TrimFacts
    <3>3. Last(r[j]) = Last(C[q]) /\ \A m \in 1..Len(r[j]) : \E l \in 1..Len(C[q]) : r[j][m] = C[q][l]
      BY ONLY <3>5, Zenon DEF u, v
    <3> QED BY ONLY <3>1, <3>3, Zenon DEF q
  <2>8. /\ k \in A /\ A = B \cup {k} /\ Retention \in Nat
        /\ \A i \in A : f[i].ts \in Nat /\ i \in Nat /\ i <= k
        /\ \A i \in B : k > i
    <3>1. \A i : i \in o..k <=> i \in o..(k - 1) \/ i = k
      OBVIOUS
    <3>2. \A i \in B : i \in Nat /\ i <= k - 1
      BY <2>0, TakenFacts
    <3>3. \A i \in B : k > i
      BY ONLY <3>2, k \in Nat
    <3>4. \A i \in A : f[i].ts \in Nat /\ i \in Nat /\ i <= k
      BY TakenFacts
    <3>5. k \in A /\ A = B \cup {k}
      BY <1>2, <3>1 DEF Taken
    <3> QED BY <3>3, <3>4, <3>5, SampleStoreAssumption
  <2>9. /\ \A j \in 1..n : \A m \in 1..Len(c[j]) : Genuine(p, o, k - 1, c[j][m])
        /\ \A j \in 1..n : Last(c[j]).nth = 2
        /\ \A i \in B : (\A m \in B : m > i => f[m].ts - Retention <= f[i].ts) =>
             \E j \in 1..n : Last(c[j]).of = i
    BY <2>4 DEF Kept
  <2>10. \A j \in 1..n : Latest(c[j]) = f[Last(c[j]).of].ts
    <3> TAKE j \in 1..n
    <3>1. k - 1 \in Nat /\ j \in 1..Len(c) /\ Kept(p, o, k - 1, c)
      BY <2>0, <2>4
    <3>2. Latest(c[j]) = Frames(p)[Last(c[j]).of].ts
      BY ONLY <3>1, Record(p), o \in Nat \ {0}, ChunkEnds
    <3> QED BY ONLY <3>2, Zenon DEF f
  <2>11. /\ Len(x) = 2 /\ Last(x).of = k /\ Last(x).nth = 2 /\ Latest(x) = f[k].ts
         /\ \A m \in 1..2 : Genuine(p, o, k, x[m])
    <3>1. x = Chunk(p, o, k) /\ Len(x) = 2 /\ Last(x) = x[2] /\ Latest(x) = f[k].ts
      BY <2>1 DEF FitsOn
    <3>2. \A m \in 1..2 : x[m].of = k /\ x[m].nth = m
      BY ONLY <2>1, Zenon DEF FitsOn
    <3>3. ASSUME NEW m \in 1..2 PROVE Genuine(p, o, k, x[m])
      <4>1. x[m].of = k /\ x[m].nth = m
        BY <3>2
      <4>2. x[m] = Chunk(p, o, k)[m]
        BY ONLY <3>1, Zenon
      <4>3. k \in Taken(p, o, k)
        BY <2>8 DEF A
      <4> QED BY ONLY <4>1, <4>2, <4>3, Zenon DEF Genuine
    <3>4. 2 \in 1..2
      OBVIOUS
    <3> QED BY ONLY <3>1, <3>2, <3>3, <3>4, Zenon
  <2>12. \A v : Genuine(p, o, k - 1, v) => Genuine(p, o, k, v)
    BY ONLY <2>8, Zenon DEF Genuine, A, B
  <2> HIDE DEF A, B, f
  <2>13. \A j \in 1..(n + 1) : /\ \A m \in 1..Len(C[j]) : Genuine(p, o, k, C[j][m])
                               /\ Last(C[j]).nth = 2
    <3> TAKE j \in 1..(n + 1)
    <3>1. CASE j \in 1..n
      <4>1. C[j] = c[j]
        BY <2>3, <2>4, <3>1
      <4> QED BY ONLY <2>9, <2>12, <3>1, <4>1, Zenon
    <3>2. CASE j = n + 1
      <4>1. C[j] = x
        BY <2>3, <2>4, <3>2
      <4> QED BY ONLY <2>11, <4>1, Zenon
    <3>3. j \in 1..n \/ j = n + 1
      OBVIOUS
    <3> QED BY <3>1, <3>2, <3>3
  <2>14. \A j \in 1..Len(r) : \A m \in 1..Len(r[j]) : Genuine(p, o, k, r[j][m])
    <3> SUFFICES ASSUME NEW j \in 1..Len(r), NEW m \in 1..Len(r[j]) PROVE Genuine(p, o, k, r[j][m])
      OBVIOUS
    <3>1. PICK i \in 1..(n + 1) : \E l \in 1..Len(C[i]) : r[j][m] = C[i][l]
      BY ONLY <2>7, j \in 1..Len(r), m \in 1..Len(r[j]), Zenon
    <3> QED BY ONLY <2>13, <3>1, Zenon
  <2>15. \A j \in 1..Len(r) : Last(r[j]).nth = 2
    <3> TAKE j \in 1..Len(r)
    <3>1. PICK i \in 1..(n + 1) : Last(r[j]) = Last(C[i])
      BY ONLY <2>7, j \in 1..Len(r), Zenon
    <3> QED BY ONLY <2>13, <3>1, Zenon
  <2>16. ASSUME NEW j \in 1..(n + 1), s <= j
         PROVE  \E l \in 1..Len(r) : Last(r[l]).of = Last(C[j]).of
    <3>1. PICK l \in Nat : l = j - s + 1
      BY ONLY <2>16, s \in 1..(n + 1), n \in Nat
    <3>2. l \in 1..(n + 1 - s + 1) /\ s + (l - 1) = j
      BY ONLY <2>16, <3>1, s \in 1..(n + 1), n \in Nat
    <3> QED BY <2>5, <2>7, <3>2
  <2>17. Last(C[n + 1]).of = k /\ Latest(C[n + 1]) = f[k].ts
    BY <2>3, <2>4, <2>11
  <2>18. r # <<>> => Last(Last(r)).of = Max(A)
    <3>1. PICK l \in Nat : l = Len(r) /\ l = n + 1 - s + 1
      BY ONLY <2>5, s \in 1..(n + 1), n \in Nat
    <3>2. l \in 1..l /\ s + (l - 1) = n + 1
      BY ONLY <3>1, s \in 1..(n + 1), n \in Nat
    <3>3. Last(r[l]) = Last(C[n + 1])
      BY <2>7, <3>1, <3>2
    <3>4. Last(r) = r[l]
      BY <3>1 DEF Last
    <3>5. Max(A) = k
      <4>1. A \in SUBSET Nat /\ \A m \in A : m <= k
        BY <2>8
      <4> QED BY <2>8, <4>1, MaxUnique
    <3> QED BY ONLY <2>17, <3>3, <3>4, <3>5, Zenon
  <2>19. ASSUME NEW i \in A, \A m \in A : m > i => f[m].ts - Retention <= f[i].ts
         PROVE  \E l \in 1..Len(r) : Last(r[l]).of = i
    <3>1. CASE i = k
      <4>1. n + 1 \in 1..(n + 1) /\ s <= n + 1
        BY ONLY n \in Nat, s \in 1..(n + 1)
      <4>2. Last(C[n + 1]).of = i
        BY <2>17, <3>1
      <4> QED BY ONLY <2>16, <4>1, <4>2, Zenon
    <3>2. CASE i # k
      <4>1. i \in B /\ \A m \in B : m > i => f[m].ts - Retention <= f[i].ts
        BY <2>8, <2>19, <3>2
      <4>2. PICK j \in 1..n : Last(c[j]).of = i
        BY <2>9, <4>1
      <4>3. C[j] = c[j] /\ Latest(C[j]) = f[i].ts /\ Latest(C[n + 1]) = f[k].ts
        BY <2>3, <2>4, <2>10, <2>17, <4>2
      <4>4. f[k].ts - Retention <= f[i].ts
        BY <2>8, <2>19, <4>1
      <4>5. PICK a \in Nat, b \in Nat : a = f[i].ts /\ b = f[k].ts
        BY <2>8
      <4>6. ~ (a < b - Retention)
        BY ONLY <2>8, <4>4, <4>5, a \in Nat, b \in Nat
      <4>7. j \in 1..(n + 1)
        BY ONLY n \in Nat, j \in 1..n
      <4>8. ~ (j < s)
        BY <2>5, <4>3, <4>5, <4>6, <4>7
      <4>9. s <= j
        BY ONLY <4>8, j \in 1..n, s \in 1..(n + 1), n \in Nat
      <4>10. Last(C[j]).of = i
        BY <4>2, <4>3
      <4> QED BY ONLY <2>16, <4>7, <4>9, <4>10, Zenon
    <3> QED BY <3>1, <3>2
  <2> QED BY ONLY <2>2, <2>6, <2>14, <2>15, <2>18, <2>19, Zenon DEF Kept, A, f
<1> QED BY <1>1, <1>2

\* g has the store after the frames from o to each of the following ones.
Applies(p, d, c, o, n, g) ==
  g = [k \in o..n |-> IF k = o THEN c ELSE Apply(p, d, g[k - 1], k)]

LEMMA AppliesStep ==
  ASSUME NEW p, NEW d, NEW c, NEW o, NEW n, o \in Nat, n \in Nat, o <= n, NEW g
  PROVE  Applies(p, d, c, o, n, g) <=> /\ g = [k \in o..n |-> g[k]] /\ g[o] = c
           /\ \A k \in (o + 1)..n : g[k] = Apply(p, d, g[k - 1], k)
<1> DEFINE E(k) == IF k = o THEN c ELSE Apply(p, d, g[k - 1], k)
<1>0. o \in o..n /\ \A k \in (o + 1)..n : k \in o..n /\ k # o
  OBVIOUS
<1>1. Applies(p, d, c, o, n, g) <=> g = [k \in o..n |-> E(k)]
  BY DEF Applies
<1>2. ASSUME g = [k \in o..n |-> E(k)]
      PROVE  /\ g = [k \in o..n |-> g[k]] /\ g[o] = c
             /\ \A k \in (o + 1)..n : g[k] = Apply(p, d, g[k - 1], k)
  <2>1. g = [k \in o..n |-> g[k]] /\ \A k \in o..n : g[k] = E(k)
    <3> HIDE DEF E
    <3> QED BY <1>2
  <2> QED BY <1>0, <2>1
<1>3. ASSUME g = [k \in o..n |-> g[k]], g[o] = c,
             \A k \in (o + 1)..n : g[k] = Apply(p, d, g[k - 1], k)
      PROVE  g = [k \in o..n |-> E(k)]
  <2>1. ASSUME NEW k \in o..n PROVE g[k] = E(k)
    <3>1. CASE k = o
      BY <1>3, <3>1
    <3>2. CASE k # o
      <4>1. k \in (o + 1)..n
        BY <3>2
      <4> QED BY <1>3, <3>2, <4>1
    <3> QED BY <3>1, <3>2
  <2> HIDE DEF E
  <2> QED BY <1>3, <2>1
<1> HIDE DEF E
<1> QED BY <1>1, <1>2, <1>3

LEMMA AppliesExists ==
  ASSUME NEW p, NEW d, NEW c, NEW o, NEW n, o \in Nat, n \in Nat, o <= n
  PROVE  \E g : Applies(p, d, c, o, n, g)
<1> DEFINE Reached(m) == \E g : /\ g = [k \in o..m |-> g[k]] /\ g[o] = c
                                /\ \A k \in (o + 1)..m : g[k] = Apply(p, d, g[k - 1], k)
           T == {m \in o..n : ~ Reached(m)}
<1>1. ASSUME T # {} PROVE FALSE
  <2>1. PICK m \in T : \A k \in T : m <= k
    <3>1. T \in SUBSET Nat
      OBVIOUS
    <3> HIDE DEF T
    <3> QED BY <1>1, <3>1, LeastNatural
  <2>2. m \in o..n /\ ~ Reached(m)
    <3> HIDE DEF Reached
    <3> QED OBVIOUS
  <2>3. m # o
    <3> DEFINE h == [k \in o..o |-> c]
    <3>1. h = [k \in o..o |-> h[k]] /\ h[o] = c /\ (o + 1)..o = {}
      OBVIOUS
    <3> HIDE DEF h
    <3>2. Reached(o)
      BY <3>1
    <3> HIDE DEF Reached
    <3> QED BY <2>2, <3>2
  <2>4. m - 1 \in o..n /\ m \in (o + 1)..n /\ ~ (m <= m - 1) /\ m \in Nat
    BY ONLY <2>2, <2>3, o \in Nat, n \in Nat, o <= n
  <2>5. Reached(m - 1)
    <3>1. m - 1 \notin T
      <4> HIDE DEF T
      <4> QED BY <2>1, <2>4
    <3> HIDE DEF Reached
    <3> QED BY <2>4, <3>1
  <2>6. PICK g : /\ g = [k \in o..(m - 1) |-> g[k]] /\ g[o] = c
                 /\ \A k \in (o + 1)..(m - 1) : g[k] = Apply(p, d, g[k - 1], k)
    BY <2>5
  <2> DEFINE v == Apply(p, d, g[m - 1], m)
             h == [k \in o..m |-> IF k = m THEN v ELSE g[k]]
  <2>7. /\ h = [k \in o..m |-> h[k]] /\ h[m] = v
        /\ \A k \in o..(m - 1) : h[k] = g[k]
    <3>1. m \in o..m /\ \A k \in o..(m - 1) : k \in o..m /\ k # m
      BY ONLY <2>4, o \in Nat, n \in Nat, o <= n
    <3> HIDE DEF v
    <3> QED BY <3>1
  <2> HIDE DEF h
  <2>8. \A k \in (o + 1)..m : h[k] = Apply(p, d, h[k - 1], k)
    <3> TAKE k \in (o + 1)..m
    <3>1. k - 1 \in o..(m - 1) /\ (k # m => k \in (o + 1)..(m - 1) /\ k \in o..(m - 1))
      BY ONLY <2>4, o \in Nat, n \in Nat, o <= n, k \in (o + 1)..m
    <3>2. h[k - 1] = g[k - 1]
      BY <2>7, <3>1
    <3>3. CASE k = m
      BY <2>7, <3>2, <3>3
    <3>4. CASE k # m
      BY <2>6, <2>7, <3>1, <3>2, <3>4
    <3> QED BY <3>3, <3>4
  <2>9. h[o] = c
    <3>1. o \in o..(m - 1)
      BY ONLY <2>4, o \in Nat, n \in Nat, o <= n
    <3> QED BY <2>6, <2>7, <3>1
  <2>10. Reached(m)
    BY <2>7, <2>8, <2>9
  <2> HIDE DEF Reached
  <2> QED BY <2>2, <2>10
<1>2. Reached(n)
  <2>1. n \in o..n
    OBVIOUS
  <2> HIDE DEF Reached
  <2> QED BY <1>1, <2>1
<1> QED BY <1>2, AppliesStep

LEMMA ApplyIisApplies ==
  ASSUME NEW p, NEW d, NEW c, d.done \in Nat, NEW n \in Nat, d.done <= n
  PROVE  \E g : Applies(p, d, c, d.done, n, g) /\ ApplyIis(p, d, c, n) = g[n]
<1> DEFINE upTo == CHOOSE g : Applies(p, d, c, d.done, n, g)
<1>1. Applies(p, d, c, d.done, n, upTo)
  BY AppliesExists
<1>2. ApplyIis(p, d, c, n) = upTo[n]
  BY DEF ApplyIis, Applies, Apply
<1> HIDE DEF upTo
<1> QED BY <1>1, <1>2

\* The store after _fill_until.
LEMMA FillStores ==
  ASSUME content \in Archives, NEW p \in Paths, NEW d, InFile(p, d), NEW c, Stored(p, d, c),
         NEW e, InFile(p, e), e.first = d.first, d.done <= e.done
  PROVE  Stored(p, e, ApplyIis(p, d, c, e.done))
<1>1. Record(p)
  BY FileRecord
<1>2. PICK o \in Nat \ {0}, l \in Nat, n \in Nat : o = d.first /\ l = d.done /\ n = e.done /\ o - 1 <= l /\ l <= n
  BY InFileFacts
<1>3. Kept(p, o, l, c)
  BY <1>2, StoredIsKept
<1>4. PICK g : Applies(p, d, c, l, n, g) /\ ApplyIis(p, d, c, n) = g[n]
  BY <1>2, ApplyIisApplies
<1>5. g[l] = c /\ \A k \in (l + 1)..n : g[k] = Apply(p, d, g[k - 1], k)
  <2>1. l \in Nat /\ n \in Nat /\ l <= n /\ Applies(p, d, c, l, n, g)
    BY <1>2, <1>4
  <2> QED BY ONLY <2>1 DEF Applies
<1> DEFINE T == {k \in l..n : ~ Kept(p, o, k, g[k])}
<1>6. ASSUME T # {} PROVE FALSE
  <2>1. PICK m \in T : \A k \in T : m <= k
    <3>1. T \in SUBSET Nat
      OBVIOUS
    <3> HIDE DEF T
    <3> QED BY <1>6, <3>1, LeastNatural
  <2>2. m \in l..n /\ ~ Kept(p, o, m, g[m])
    OBVIOUS
  <2>3. m # l
    BY <1>3, <1>5, <2>2
  <2>4. m - 1 \in l..n /\ m \in (l + 1)..n /\ ~ (m <= m - 1) /\ m \in Nat /\ o <= m
    BY ONLY <1>2, <2>2, <2>3, n \in Nat, l \in Nat, o \in Nat \ {0}
  <2>5. m - 1 \notin T
    <3> HIDE DEF T
    <3> QED BY <2>1, <2>4
  <2>6. Kept(p, o, m - 1, g[m - 1])
    BY <2>4, <2>5
  <2>7. Kept(p, o, m, Apply(p, d, g[m - 1], m))
    BY <1>1, <1>2, <2>4, <2>6, StoreGrows
  <2> QED BY <1>5, <2>2, <2>4, <2>7
<1>7. Kept(p, o, n, g[n])
  <2>1. n \in l..n
    BY <1>2
  <2> QED BY <1>6, <2>1
<1> QED BY <1>2, <1>4, <1>7, StoredIsKept

-----------------------------------------------------------------------------
(* The steps.                                                                *)

\* Decoding and the third part of DisplayInv, of any decoder, store and attitude.
Decodes(p, d, fr, ph, fl) ==
  /\ InFile(p, d) /\ d.first \in OffsetsForTime(p, fr) /\ fr \in Nat /\ ph \in 0..Duration(p)
  /\ \A i \in Sensor(p) \cap (d.first..d.done) : Due(p, i, ph)
  /\ fl => d.done = Len(Frames(p)) \/ (d.done + 1 \in Sensor(p) /\ ~ Due(p, d.done + 1, ph))

Displays(p, d, c, a, fr, ph, fl) ==
  /\ Decodes(p, d, fr, ph, fl) /\ Stored(p, d, c)
  /\ Applied(p, d, "jy") # {} => a = Max(Applied(p, d, "jy"))

\* _restart_decoder, load, stop: nothing was decoded yet.
LEMMA RestartDisplays ==
  ASSUME content \in Archives, NEW p \in Paths, NEW fr \in Nat, NEW ph \in 0..Duration(p), NEW a,
         NEW o \in OffsetsForTime(p, fr)
  PROVE  Displays(p, Fresh(o), NoSamples, a, fr, ph, FALSE)
<1> DEFINE d == Fresh(o)
<1>1. o \in Nat \ {0} /\ o - 1 <= Len(Frames(p)) /\ o \in OffsetsForTime(p, fr)
  BY OffsetFacts
<1>2. d = [first |-> o, read |-> o - 1, done |-> o - 1, eof |-> FALSE]
  BY DEF Fresh
<1> HIDE DEF d
<1>3. o - 1 \in Nat /\ o - 1 <= o - 1 /\ o..(o - 1) = {}
  BY ONLY <1>1
<1>4. d \in Decoders /\ d.first = o /\ d.read = o - 1 /\ d.done = o - 1
  BY ONLY <1>1, <1>2, <1>3 DEF Decoders
<1>5. InFile(p, d)
  BY <1>1, <1>3, <1>4 DEF InFile
<1>6. Decodes(p, d, fr, ph, FALSE)
  <2>1. \A i \in Sensor(p) \cap (d.first..d.done) : Due(p, i, ph)
    BY <1>3, <1>4
  <2> QED BY <1>1, <1>4, <1>5, <2>1 DEF Decodes
<1>7. \A kind : Applied(p, d, kind) = {}
  BY <1>3, <1>4 DEF Applied
<1>8. Stored(p, d, NoSamples)
  <2>1. Chained(<<>>) /\ DOMAIN <<>> = {}
    BY DEF Chained
  <2> QED BY <1>7, <2>1 DEF Stored, NoSamples
<1> QED BY <1>6, <1>7, <1>8 DEF Displays, d

\* A later time makes no fewer frames due.
LEMMA DueLater ==
  ASSUME content \in Archives, NEW p \in Paths, NEW s \in Nat, NEW t \in Nat, s <= t,
         NEW i \in Sensor(p), Due(p, i, s)
  PROVE  Due(p, i, t)
<1>1. Frames(p)[i].ts \in Nat
  BY FileRecord DEF Record, Sensor, Intact
<1>2. FirstTimestamp(p) \in Nat
  BY TimeFacts
<1>3. Frames(p)[i].ts <= FirstTimestamp(p) + s
  BY DEF Due, Cutoff
<1>4. Frames(p)[i].ts <= FirstTimestamp(p) + t
  BY ONLY <1>1, <1>2, <1>3, s \in Nat, t \in Nat, s <= t
<1> QED BY <1>4 DEF Due, Cutoff

\* The attitude of the last frame.
LEMMA AttitudeGrows ==
  ASSUME content \in Archives, NEW p \in Paths, NEW d, InFile(p, d), NEW e, InFile(p, e),
         e.first = d.first, d.done <= e.done, NEW a,
         Applied(p, d, "jy") # {} => a = Max(Applied(p, d, "jy")),
         NEW b, b = ApplyJy(a, Intact(p, "jy") \cap ((d.done + 1)..e.done))
  PROVE  Applied(p, e, "jy") # {} => b = Max(Applied(p, e, "jy"))
<1> DEFINE S == Intact(p, "jy") \cap ((d.done + 1)..e.done)
           A == Applied(p, d, "jy")
           B == Applied(p, e, "jy")
<1>1. PICK o \in Nat \ {0}, l \in Nat, n \in Nat : o = d.first /\ l = d.done /\ n = e.done /\ o - 1 <= l /\ l <= n
  BY InFileFacts
<1>2. S = Intact(p, "jy") \cap ((l + 1)..n) /\ A = Intact(p, "jy") \cap (o..l) /\ B = Intact(p, "jy") \cap (o..n)
  BY <1>1 DEF Applied
<1>3. b = IF S = {} THEN a ELSE Max(S)
  BY DEF ApplyJy
<1> HIDE DEF S, A, B
<1>4. B = A \cup S /\ B \in SUBSET Nat /\ \A m \in B : m <= n
  <2>1. \A i : i \in o..n <=> i \in o..l \/ i \in (l + 1)..n
    BY ONLY <1>1, o \in Nat \ {0}, l \in Nat, n \in Nat
  <2>2. B = A \cup S
    BY ONLY <1>2, <2>1
  <2>3. o..n \subseteq Nat /\ \A m \in o..n : m <= n
    BY ONLY o \in Nat \ {0}, n \in Nat
  <2> QED BY <1>2, <2>2, <2>3
<1>5. CASE S = {}
  BY <1>3, <1>4, <1>5 DEF A, B
<1>6. CASE S # {}
  <2>1. S \in SUBSET Nat /\ \A m \in S : m <= n
    BY <1>4
  <2>2. Max(S) \in S /\ \A m \in S : m <= Max(S)
    BY <1>6, <2>1, MaxIsMember
  <2>3. PICK x \in S : x = Max(S) /\ \A m \in S : m <= x
    BY <2>2
  <2>4. \A m \in B : m <= x
    <3>1. \A m \in A : m <= x
      <4> TAKE m \in A
      <4>1. m \in o..l /\ x \in (l + 1)..n
        BY <1>2
      <4> QED BY ONLY <4>1, o \in Nat \ {0}, l \in Nat, n \in Nat
    <3> QED BY <1>4, <2>3, <3>1
  <2>5. Max(B) = x
    BY <1>4, <2>4, MaxUnique
  <2> QED BY <1>3, <1>6, <2>3, <2>5 DEF B
<1> QED BY <1>5, <1>6

\* _fill_until, for a time that is not earlier.
LEMMA FillDisplays ==
  ASSUME content \in Archives, NEW p \in Paths, NEW d, NEW c, NEW a, NEW fr, NEW ph, NEW fl,
         Displays(p, d, c, a, fr, ph, fl), NEW t \in 0..Duration(p), ph <= t,
         NEW e, e = FillUntil(p, d, t),
         NEW b, b = ApplyJy(a, Intact(p, "jy") \cap ((d.done + 1)..e.done))
  PROVE  Displays(p, e, ApplyIis(p, d, c, e.done), b, fr, t, TRUE)
<1>1. /\ InFile(p, d) /\ d.first \in OffsetsForTime(p, fr) /\ fr \in Nat /\ ph \in 0..Duration(p)
      /\ \A i \in Sensor(p) \cap (d.first..d.done) : Due(p, i, ph)
      /\ Stored(p, d, c) /\ (Applied(p, d, "jy") # {} => a = Max(Applied(p, d, "jy")))
  BY DEF Displays, Decodes
<1>2. t \in Nat /\ ph \in Nat
  BY <1>1, TimeFacts
<1>3. /\ InFile(p, e) /\ e.first = d.first /\ d.done <= e.done
      /\ \A i \in Sensor(p) : d.done < i /\ i <= e.done => Due(p, i, t)
      /\ e.done = Len(Frames(p)) \/ (e.done + 1 \in Sensor(p) /\ ~ Due(p, e.done + 1, t))
  <2>1. Fills(p, d, t, e)
    BY <1>1, <1>2, FillFacts
  <2> QED BY ONLY <2>1, Zenon DEF Fills
<1>4. Stored(p, e, ApplyIis(p, d, c, e.done))
  BY <1>1, <1>3, FillStores
<1>5. Applied(p, e, "jy") # {} => b = Max(Applied(p, e, "jy"))
  BY <1>1, <1>3, AttitudeGrows
<1>6. ASSUME NEW i \in Sensor(p) \cap (e.first..e.done) PROVE Due(p, i, t)
  <2>1. d.first \in Nat \ {0} /\ d.done \in Nat /\ e.done \in Nat
    BY <1>1, <1>3, InFileFacts
  <2>2. CASE i <= d.done
    <3>1. i \in Sensor(p) \cap (d.first..d.done)
      <4>1. i \in d.first..e.done
        BY <1>3
      <4>2. i \in d.first..d.done
        BY ONLY <2>1, <2>2, <4>1
      <4> QED BY <4>2
    <3> QED BY <1>1, <1>2, <3>1, DueLater
  <2>3. CASE ~ (i <= d.done)
    <3>1. i \in Sensor(p) /\ i \in d.first..e.done
      BY <1>3
    <3>2. d.done < i /\ i <= e.done
      BY ONLY <2>1, <2>3, <3>1
    <3> QED BY <1>3, <3>1, <3>2
  <2> QED BY <2>2, <2>3
<1>7. Decodes(p, e, fr, t, TRUE)
  BY <1>1, <1>3, <1>6 DEF Decodes
<1> QED BY <1>4, <1>5, <1>7 DEF Displays

LEMMA DisplayIs ==
  DisplayInv <=>
    /\ content \in Archives /\ window \in Windows /\ filled \in BOOLEAN
    /\ decoder \in Decoders /\ (file = None => ~ filled)
    /\ file # None => Displays(file, decoder, chunks, attitude, from, playhead, filled)
BY Zenon DEF DisplayInv, Displays, Decodes, Decoding, Decoders, InFile

\* The same of the next state, whose files are those of this one.
LEMMA DisplayNext ==
  ASSUME content' = content, content \in Archives, window' \in Windows, filled' \in BOOLEAN,
         NEW p \in Paths, NEW d, NEW c, NEW a, NEW fr, NEW ph, NEW fl,
         file' = p, decoder' = d, chunks' = c, attitude' = a, from' = fr, playhead' = ph, filled' = fl,
         Displays(p, d, c, a, fr, ph, fl)
  PROVE  DisplayInv'
<1>1. Frames(file)' = Frames(p) /\ p # None
  BY Owners DEF Frames
<1>2. Indexed(file)' = Indexed(p)
  BY <1>1 DEF Indexed
<1>3. \A kind : Intact(file, kind)' = Intact(p, kind)
  BY <1>1 DEF Intact
<1>4. Sensor(file)' = Sensor(p)
  BY <1>3 DEF Sensor
<1>5. Vibration(file)' = Vibration(p)
  BY <1>2 DEF Vibration
<1>6. FirstTimestamp(file)' = FirstTimestamp(p) /\ LastTimestamp(file)' = LastTimestamp(p)
  BY <1>2, <1>5 DEF FirstTimestamp, LastTimestamp
<1>7. Duration(file)' = Duration(p)
  BY <1>6 DEF Duration
<1>8. OffsetsForTime(file, from)' = OffsetsForTime(p, fr)
  BY <1>1, <1>2, <1>6 DEF OffsetsForTime, Crosses
<1>9. \A i : Due(file, i, playhead)' <=> Due(p, i, ph)
  BY <1>1, <1>6 DEF Due, Cutoff
<1>10. \A kind : Applied(file, decoder, kind)' = Applied(p, d, kind)
  BY <1>3 DEF Applied
<1>11. Chained(chunks)' <=> Chained(c)
  BY DEF Chained, Place, Last
<1>11a. \A i : SamplesOf(file, decoder, i)' = SamplesOf(p, d, i)
  <2> TAKE i
  <2>1. (Intact(file, "iis") \cap (decoder.first..(i - 1)))' = Intact(p, "iis") \cap (d.first..(i - 1))
    BY <1>3
  <2> DEFINE S(b) == <<[t |-> IF b = {} THEN Frames(p)[i].ts - 1 ELSE Frames(p)[Max(b)].ts + 1, mag |-> 0,
                        of |-> i, nth |-> 1],
                       [t |-> Frames(p)[i].ts, mag |-> Frames(p)[i].peak, of |-> i, nth |-> 2]>>
  <2>2. SamplesOf(file, decoder, i)' = S((Intact(file, "iis") \cap (decoder.first..(i - 1)))')
    BY <1>1 DEF SamplesOf, Max
  <2>3. SamplesOf(p, d, i) = S(Intact(p, "iis") \cap (d.first..(i - 1)))
    BY DEF SamplesOf
  <2> QED BY ONLY <2>1, <2>2, <2>3
<1>12. Stored(file, decoder, chunks)' <=> Stored(p, d, c)
  BY <1>1, <1>10, <1>11, <1>11a DEF Stored, Last, Max
<1>13. Decodes(p, d, fr, ph, fl) /\ Stored(p, d, c) /\ (Applied(p, d, "jy") # {} => a = Max(Applied(p, d, "jy")))
  BY DEF Displays
<1>14. Decoding(file)'
  BY <1>1, <1>4, <1>7, <1>8, <1>9, <1>13 DEF Decoding, Decodes, InFile
<1>15. d \in Decoders
  BY <1>13 DEF Decodes, InFile
<1>16. Applied(file, decoder, "jy")' # {} => attitude' = Max(Applied(file, decoder, "jy")')
  BY <1>10, <1>13
<1>17. decoder' \in [first : Nat \ {0}, read : Nat, done : Nat, eof : BOOLEAN]
  BY <1>15 DEF Decoders
<1> QED BY <1>1, <1>12, <1>13, <1>14, <1>16, <1>17 DEF DisplayInv, Max

LEMMA InitDisplay == Init => DisplayInv
<1> SUFFICES ASSUME Init PROVE DisplayInv
  OBVIOUS
<1>1. /\ content \in Archives /\ window \in Windows /\ filled = FALSE /\ file = None
      /\ decoder = Fresh(1)
  BY DEF Init
<1>2. decoder \in Decoders
  BY <1>1 DEF Fresh, Decoders
<1> QED BY <1>1, <1>2, DisplayIs

\* Filling up to t, and the snapshot.
LEMMA FillStep ==
  ASSUME content' = content, content \in Archives, window' \in Windows, NEW p \in Paths, file = p, file' = p,
         NEW d, NEW c, NEW fr, NEW ph, NEW fl, Displays(p, d, c, attitude, fr, ph, fl),
         from' = fr, NEW t \in 0..Duration(p), ph <= t, playhead' = t, Fill(d, c, t)
  PROVE  DisplayInv'
<1>1. PICK e, s, a, b : e = decoder' /\ s = chunks' /\ a = attitude /\ b = attitude'
  OBVIOUS
<1>2. /\ e = FillUntil(p, d, t) /\ s = ApplyIis(p, d, c, e.done)
      /\ b = ApplyJy(a, Intact(p, "jy") \cap ((d.done + 1)..e.done)) /\ filled' = TRUE
  BY <1>1 DEF Fill
<1>3. Displays(p, d, c, a, fr, ph, fl)
  BY <1>1
<1>4. Displays(p, e, ApplyIis(p, d, c, e.done), b, fr, t, TRUE)
  BY ONLY <1>2, <1>3, FillDisplays, content \in Archives, p \in Paths, t \in 0..Duration(p), ph <= t
<1>5. Displays(p, e, s, b, fr, t, TRUE)
  BY <1>2, <1>4
<1> QED BY <1>1, <1>2, <1>5, DisplayNext

\* seek.
LEMMA SeekStep ==
  ASSUME content' = content, content \in Archives, window \in Windows, window' = window,
         NEW p \in Paths, file = p, file' = p, NEW t \in 0..Duration(p), Seek(t)
  PROVE  DisplayInv'
<1>1. PICK w \in Nat : w = window
  BY PlaybackAssumption
<1>2. t \in Nat /\ t <= t
  BY TimeFacts
<1>3. Max({0, t - w}) \in Nat
  <2>1. PICK x \in Int : x = t - w
    BY <1>2
  <2>2. \E y \in {0, x} : \A z \in {0, x} : y >= z
    <3>1. CASE x >= 0
      BY <3>1
    <3>2. CASE ~ (x >= 0)
      BY <3>2
    <3> QED BY <3>1, <3>2
  <2>3. Max({0, x}) \in {0, x} /\ Max({0, x}) >= 0
    BY <2>2 DEF Max
  <2>4. Max({0, x}) \in Nat
    BY ONLY <2>3, x \in Int
  <2> QED BY <2>1, <2>4
<1>4. PICK fr \in Nat : fr = from'
  BY <1>1, <1>3 DEF Seek
<1>5. PICK o \in OffsetsForTime(p, fr) : playhead' = t /\ Fill(Fresh(o), NoSamples, t)
  BY <1>4 DEF Seek
<1>6. Displays(p, Fresh(o), NoSamples, attitude, fr, t, FALSE)
  BY RestartDisplays
<1> QED BY <1>2, <1>4, <1>5, <1>6, FillStep

\* load and stop.
LEMMA RestartStep ==
  ASSUME content' = content, content \in Archives, window' \in Windows, NEW p \in Paths,
         file' = p, from' = 0, playhead' = 0, filled' = FALSE, chunks' = NoSamples,
         NEW o \in OffsetsForTime(p, 0), decoder' = Fresh(o)
  PROVE  DisplayInv'
<1>1. PICK a, d, c : a = attitude' /\ d = decoder' /\ c = chunks'
  OBVIOUS
<1>2. 0 \in 0..Duration(p) /\ 0 \in Nat
  BY TimeFacts
<1>3. Displays(p, Fresh(o), NoSamples, a, 0, 0, FALSE)
  BY <1>2, RestartDisplays
<1>4. Displays(p, d, c, a, 0, 0, FALSE)
  BY <1>1, <1>3
<1> QED BY <1>1, <1>4, DisplayNext

\* Steps that leave the controller alone.
LEMMA SameDisplay ==
  ASSUME DisplayInv, ViewInv, content' = content, window' \in Windows, UNCHANGED controlVars
  PROVE  DisplayInv'
<1>1. /\ content \in Archives /\ filled \in BOOLEAN /\ decoder \in Decoders /\ (file = None => ~ filled)
      /\ file # None => Displays(file, decoder, chunks, attitude, from, playhead, filled)
  BY DisplayIs
<1>2. /\ file' = file /\ playhead' = playhead /\ decoder' = decoder /\ chunks' = chunks
      /\ attitude' = attitude /\ from' = from /\ filled' = filled
  BY DEF controlVars
<1>3. CASE file = None
  <2>1. decoder' \in [first : Nat \ {0}, read : Nat, done : Nat, eof : BOOLEAN]
    BY <1>1, <1>2 DEF Decoders
  <2> QED BY <1>1, <1>2, <1>3, <2>1 DEF DisplayInv
<1>4. CASE file # None
  <2>1. PICK p \in Paths : p = file
    BY <1>4 DEF ViewInv
  <2>2. PICK d, c, a, fr, ph, fl : /\ d = decoder /\ c = chunks /\ a = attitude
                                   /\ fr = from /\ ph = playhead /\ fl = filled
    OBVIOUS
  <2>3. Displays(p, d, c, a, fr, ph, fl)
    BY <1>1, <1>4, <2>1, <2>2
  <2> QED BY <1>1, <1>2, <2>1, <2>2, <2>3, DisplayNext
<1> QED BY <1>3, <1>4

LEMMA NextDisplay == ViewInv /\ DisplayInv /\ [Next]_vars => DisplayInv'
<1> SUFFICES ASSUME ViewInv, DisplayInv, [Next]_vars PROVE DisplayInv'
  OBVIOUS
<1>0. /\ content \in Archives /\ window \in Windows /\ filled \in BOOLEAN
      /\ file # None => Displays(file, decoder, chunks, attitude, from, playhead, filled)
  BY DisplayIs
<1>1. ASSUME NEW p \in Paths, OpenForPlayback(p) PROVE DisplayInv'
  BY <1>0, <1>1, SameDisplay DEF OpenForPlayback
<1>2. ASSUME NEW t \in 0..MaxTime, SeekRequested(t) PROVE DisplayInv'
  <2>1. PICK p \in Paths : p = file
    BY <1>2 DEF SeekRequested, ViewInv
  <2>2. t \in 0..Duration(p)
    <3>1. Duration(p) \in Nat /\ t <= Duration(p) /\ MaxTime \in Nat
      BY <1>0, <1>2, <2>1, TimeFacts, PlaybackAssumption DEF SeekRequested
    <3> QED BY <3>1
  <2> QED BY <1>0, <1>2, <2>1, <2>2, SeekStep DEF SeekRequested
<1>3. CASE Play
  <2>1. PICK p \in Paths : p = file
    BY <1>3 DEF Play, ViewInv
  <2>2. ASSUME Seek(0) PROVE DisplayInv'
    <3>1. 0 \in 0..Duration(p)
      BY <1>0, TimeFacts
    <3> QED BY <1>0, <1>3, <2>1, <2>2, <3>1, SeekStep DEF Play
  <2>3. ASSUME UNCHANGED <<playhead, from, decoder, chunks, attitude, filled, view>> PROVE DisplayInv'
    <3>1. PICK d, c, a, fr, ph, fl : /\ d = decoder /\ c = chunks /\ a = attitude
                                     /\ fr = from /\ ph = playhead /\ fl = filled
      OBVIOUS
    <3>2. Displays(p, d, c, a, fr, ph, fl)
      BY <1>0, <2>1, <3>1, Owners
    <3> QED BY <1>0, <1>3, <2>1, <2>3, <3>1, <3>2, DisplayNext DEF Play
  <2> QED BY <1>3, <2>2, <2>3 DEF Play
<1>4. CASE Pause
  <2>1. PICK p \in Paths : p = file
    BY <1>4 DEF Pause, ViewInv
  <2>2. PICK d, c, a, fr, ph, fl : /\ d = decoder /\ c = chunks /\ a = attitude
                                   /\ fr = from /\ ph = playhead /\ fl = filled
    OBVIOUS
  <2>3. Displays(p, d, c, a, fr, ph, fl)
    BY <1>0, <2>1, <2>2, Owners
  <2> QED BY <1>0, <1>4, <2>1, <2>2, <2>3, DisplayNext DEF Pause
<1>5. CASE Stop
  <2>1. PICK p \in Paths : p = file
    BY <1>5 DEF Stop, ViewInv
  <2>2. PICK o \in OffsetsForTime(p, 0) : decoder' = Fresh(o)
    BY <1>5, <2>1 DEF Stop
  <2> QED BY <1>0, <1>5, <2>1, <2>2, RestartStep DEF Stop
<1>6. CASE SetDisplayPaused
  BY <1>0, <1>6, SameDisplay DEF SetDisplayPaused
<1>7. ASSUME NEW w \in Windows, SetWindow(w) PROVE DisplayInv'
  BY <1>7, SameDisplay DEF SetWindow
<1>8. CASE LiveSnapshot
  BY <1>0, <1>8, SameDisplay DEF LiveSnapshot
<1>9. CASE ClearLiveViews
  BY <1>0, <1>9, SameDisplay DEF ClearLiveViews
<1>10. ASSUME NEW k \in DOMAIN jobs, Load(k) PROVE DisplayInv'
  <2>1. PICK p \in Paths : p = jobs[k]
    BY <1>10 DEF ViewInv
  <2>2. PICK o \in OffsetsForTime(p, 0) : decoder' = Fresh(o)
    BY <1>10, <2>1 DEF Load
  <2> QED BY <1>0, <1>10, <2>1, <2>2, RestartStep DEF Load
<1>11. ASSUME NEW k \in DOMAIN jobs, IndexFails(k) PROVE DisplayInv'
  BY <1>0, <1>11, SameDisplay DEF IndexFails
<1>12. ASSUME NEW n \in 1..MaxStep, Tick(n) PROVE DisplayInv'
  <2>1. PICK p \in Paths : p = file
    BY <1>12 DEF Tick, ViewInv
  <2>2. PICK d, c, fr, ph, fl : /\ d = decoder /\ c = chunks /\ fr = from /\ ph = playhead /\ fl = filled
    OBVIOUS
  <2>3. Displays(p, d, c, attitude, fr, ph, fl)
    BY <1>0, <2>1, <2>2, Owners
  <2>4. ph \in 0..Duration(p) /\ Duration(p) \in Nat
    BY <1>0, <2>3, TimeFacts DEF Displays, Decodes
  <2>5. PICK t \in 0..Duration(p) : t = Min({ph + n, Duration(p)}) /\ ph <= t
    <3>1. PICK x \in Nat : x = ph + n
      BY <2>4
    <3>2. PICK y \in Nat : y = Duration(p)
      BY <2>4
    <3>3. {x, y} \in SUBSET Nat /\ {x, y} # {}
      OBVIOUS
    <3>4. Min({x, y}) \in {x, y} /\ Min({x, y}) <= x /\ Min({x, y}) <= y
      BY ONLY <3>3, MinIsMember
    <3>5. PICK z : z = Min({x, y})
      OBVIOUS
    <3>6. ph \in 0..y /\ n \in Nat
      BY ONLY <2>4, <3>2, n \in 1..MaxStep
    <3>7. z \in 0..y /\ ph <= z
      BY ONLY <3>1, <3>4, <3>5, <3>6, x \in Nat, y \in Nat
    <3> QED BY <3>1, <3>2, <3>5, <3>7
  <2>6. playhead' = t /\ Fill(d, c, t)
    BY <1>12, <2>1, <2>2, <2>5 DEF Tick
  <2>7. content' = content /\ window' = window /\ file' = file /\ from' = fr
    BY <1>12, <2>2 DEF Tick
  <2> QED BY <1>0, <2>1, <2>3, <2>5, <2>6, <2>7, FillStep
<1>13. CASE UNCHANGED vars
  BY <1>0, <1>13, SameDisplay DEF vars
<1> QED
  BY <1>1, <1>2, <1>3, <1>4, <1>5, <1>6, <1>7, <1>8, <1>9, <1>10, <1>11, <1>12, <1>13 DEF Next, User

-----------------------------------------------------------------------------
(* What is shown.                                                            *)

\* What is known of the decoder that has filled the store, with its place in the file.
Filled(p, o, l, N) ==
  /\ o \in Nat \ {0} /\ l \in Nat /\ N \in Nat /\ o - 1 <= l /\ l <= N
  /\ o = decoder.first /\ l = decoder.done /\ N = Len(Frames(p))
  /\ \A i \in Sensor(p) \cap (o..l) : Due(p, i, playhead)
  /\ l = N \/ (l + 1 \in Sensor(p) /\ ~ Due(p, l + 1, playhead))

LEMMA FilledIs ==
  ASSUME content \in Archives, NEW p \in Paths, Decodes(p, decoder, from, playhead, TRUE)
  PROVE  \E o, l, N : Filled(p, o, l, N)
<1>1. /\ InFile(p, decoder)
      /\ \A i \in Sensor(p) \cap (decoder.first..decoder.done) : Due(p, i, playhead)
      /\ \/ decoder.done = Len(Frames(p))
         \/ decoder.done + 1 \in Sensor(p) /\ ~ Due(p, decoder.done + 1, playhead)
  BY DEF Decodes
<1>2. PICK o \in Nat \ {0}, l \in Nat, r \in Nat, N \in Nat :
        /\ o = decoder.first /\ l = decoder.done /\ r = decoder.read /\ N = Len(Frames(p))
        /\ o - 1 <= l /\ l <= r /\ r <= N
  BY <1>1, InFileFacts, FileRecord DEF Record
<1>3. l <= N
  BY ONLY <1>2
<1>4. Filled(p, o, l, N)
  BY ONLY <1>1, <1>2, <1>3, Zenon DEF Filled
<1> QED BY <1>4

\* What is to be seen is what was applied.
LEMMA PlayedIsApplied ==
  ASSUME content \in Archives, NEW p \in Paths, p = file, Decodes(p, decoder, from, playhead, TRUE),
         NEW kind \in {"iis", "jy"}
  PROVE  Played(kind) = Applied(p, decoder, kind)
<1>1. PICK o, l, N : Filled(p, o, l, N)
  BY FilledIs
<1>2. /\ o \in Nat \ {0} /\ l \in Nat /\ N \in Nat /\ o - 1 <= l /\ l <= N
      /\ \A i \in Sensor(p) \cap (o..l) : Due(p, i, playhead)
      /\ l = N \/ (l + 1 \in Sensor(p) /\ ~ Due(p, l + 1, playhead))
  BY <1>1 DEF Filled
<1>3. \A i \in Intact(p, kind) : i \in Sensor(p) /\ i \in 1..N
  BY <1>1, FileRecord DEF Record, Sensor, Intact, Filled
<1>4. Applied(p, decoder, kind) = Intact(p, kind) \cap (o..l)
  BY <1>1 DEF Applied, Filled
<1>5. Played(kind) = {i \in Intact(p, kind) : o <= i /\ \A j \in Sensor(p) \cap (o..i) : Due(p, j, playhead)}
  BY <1>1 DEF Played, Filled
<1>6. ASSUME NEW i \in Intact(p, kind), i \in o..l
      PROVE  o <= i /\ \A j \in Sensor(p) \cap (o..i) : Due(p, j, playhead)
  <2>1. o <= i /\ \A j \in o..i : j \in o..l
    BY ONLY <1>2, <1>6
  <2> QED BY ONLY <1>2, <2>1, Zenon
<1>7. ASSUME NEW i \in Intact(p, kind), o <= i, \A j \in Sensor(p) \cap (o..i) : Due(p, j, playhead)
      PROVE  i \in o..l
  <2>1. i \in 1..N
    BY <1>3
  <2>2. ASSUME i > l PROVE FALSE
    <3>1. l # N /\ l + 1 \in o..i
      BY ONLY <1>2, <2>1, <2>2
    <3> QED BY <1>2, <1>7, <3>1
  <2> QED BY ONLY <1>2, <1>7, <2>1, <2>2
<1> QED BY ONLY <1>4, <1>5, <1>6, <1>7

\* The frames of one boot.
Ascends(p) ==
  /\ \A i, j \in 1..Len(Frames(p)) : i <= j => Frames(p)[i].ts <= Frames(p)[j].ts
  /\ \A i, j \in Intact(p, "iis") : i < j => Frames(p)[i].ts + 2 <= Frames(p)[j].ts

LEMMA OneBootAscends ==
  ASSUME NEW p, Record(p), OneBoot(Frames(p))
  PROVE  Ascends(p)
<1> DEFINE f == Frames(p)
<1>1. DOMAIN f = 1..Len(f) /\ Len(f) \in Nat /\ \A i \in 1..Len(f) : f[i].ts \in Nat
  BY DEF Record
<1>2. /\ \A i, j \in 1..Len(f) : i < j => f[i].ts <= f[j].ts
      /\ \A i, j \in 1..Len(f) : i < j =>
           (f[i].kind = "iis" /\ f[j].kind = "iis" /\ f[i].health = "ok" /\ f[j].health = "ok"
              => f[i].ts + 2 <= f[j].ts)
  BY <1>1 DEF OneBoot
<1>3. \A i \in Intact(p, "iis") : i \in 1..Len(f) /\ f[i].kind = "iis" /\ f[i].health = "ok"
  BY <1>1 DEF Intact
<1> HIDE DEF f
<1>4. ASSUME NEW i \in 1..Len(f), NEW j \in 1..Len(f), i <= j PROVE f[i].ts <= f[j].ts
  <2>1. CASE i = j
    BY <1>1, <2>1
  <2>2. CASE i # j
    <3>1. i < j
      BY ONLY <1>1, <1>4, <2>2
    <3> QED BY <1>2, <3>1
  <2> QED BY <2>1, <2>2
<1>5. ASSUME NEW i \in Intact(p, "iis"), NEW j \in Intact(p, "iis"), i < j PROVE f[i].ts + 2 <= f[j].ts
  BY ONLY <1>2, <1>3, <1>5, Zenon
<1> QED BY <1>4, <1>5 DEF Ascends, f

\* What the playhead has passed in the record of one boot was applied.
LEMMA PassedIsApplied ==
  ASSUME content \in Archives, NEW p \in Paths, p = file, Decodes(p, decoder, from, playhead, TRUE),
         NEW kind \in {"iis", "jy"}, Ascends(p)
  PROVE  Passed(kind) \subseteq Applied(p, decoder, kind)
<1> DEFINE f == Frames(p)
<1>1. PICK o, l, N : Filled(p, o, l, N)
  BY FilledIs
<1>2. /\ o \in Nat \ {0} /\ l \in Nat /\ N \in Nat /\ o - 1 <= l /\ l <= N
      /\ l = N \/ (l + 1 \in Sensor(p) /\ ~ Due(p, l + 1, playhead))
  BY <1>1 DEF Filled
<1>3. decoder.first \in OffsetsForTime(p, from) /\ from \in Nat /\ playhead \in 0..Duration(p)
  BY DEF Decodes
<1>4. PICK lo \in Nat, hi \in Nat : lo = Cutoff(p, from) /\ hi = Cutoff(p, playhead)
  <2>1. FirstTimestamp(p) \in Nat /\ playhead \in Nat
    BY <1>3, TimeFacts
  <2> QED BY <1>3, <2>1 DEF Cutoff
<1>5. /\ \A i \in Intact(p, kind) : i \in Sensor(p) /\ i \in 1..N
      /\ \A i \in 1..N : f[i].ts \in Nat
      /\ \A i, j \in 1..N : i <= j => f[i].ts <= f[j].ts
  BY <1>1, FileRecord DEF Record, Sensor, Intact, Filled, Ascends
<1>6. Passed(kind) = {i \in Intact(p, kind) : lo < f[i].ts /\ f[i].ts <= hi}
  BY <1>4 DEF Passed
<1>7. Applied(p, decoder, kind) = Intact(p, kind) \cap (o..l)
  BY <1>1 DEF Applied, Filled
<1>8. \A i : Due(p, i, playhead) <=> f[i].ts <= hi
  BY <1>4 DEF Due
<1>9. o = 1 \/ (o \in 1..N /\ f[o].ts <= lo)
  BY <1>1, <1>3, <1>4, OffsetFacts DEF Filled
<1> HIDE DEF f
<1>10. ASSUME NEW i \in Passed(kind) PROVE i \in Intact(p, kind) /\ i \in o..l
  <2>1. i \in Intact(p, kind) /\ i \in 1..N /\ lo < f[i].ts /\ f[i].ts <= hi /\ f[i].ts \in Nat
    BY <1>5, <1>6
  <2>2. ASSUME i > l PROVE FALSE
    <3>1. l # N /\ l + 1 \in 1..N /\ l + 1 <= i
      BY ONLY <1>2, <2>1, <2>2
    <3>2. f[l + 1].ts <= f[i].ts /\ f[l + 1].ts \in Nat /\ ~ (f[l + 1].ts <= hi)
      BY <1>2, <1>5, <1>8, <2>1, <3>1
    <3> QED BY ONLY <2>1, <3>2, hi \in Nat
  <2>3. ASSUME i < o PROVE FALSE
    <3>1. o # 1
      BY ONLY <1>2, <2>1, <2>3
    <3>2. o \in 1..N /\ f[o].ts <= lo
      BY <1>9, <3>1
    <3>3. i <= o
      BY ONLY <1>2, <2>1, <2>3
    <3>4. f[i].ts <= f[o].ts /\ f[o].ts \in Nat
      BY <1>5, <2>1, <3>2, <3>3
    <3> QED BY ONLY <2>1, <3>2, <3>4, lo \in Nat
  <2> QED BY ONLY <1>2, <2>1, <2>2, <2>3
<1> QED BY ONLY <1>7, <1>10

\* The time of a sample of one boot: not after its frame's, and not before those of the
\* frames before it.
LEMMA SampleTimes ==
  ASSUME NEW p, Record(p), Ascends(p), NEW o \in Nat \ {0}, NEW l \in Nat, NEW v, Genuine(p, o, l, v),
         v.nth \in 1..2
  PROVE  /\ v.t \in Int /\ v.t <= Frames(p)[v.of].ts /\ (v.nth = 2 => v.t = Frames(p)[v.of].ts)
         /\ \A j \in Taken(p, o, v.of - 1) : Frames(p)[j].ts <= v.t
<1> DEFINE f == Frames(p)
<1>1. PICK k : k = v.of /\ k \in Taken(p, o, l) /\ v = Chunk(p, o, k)[v.nth]
  BY DEF Genuine
<1>2. k \in Nat \ {0} /\ k \in Intact(p, "iis") /\ f[k].ts \in Nat /\ k - 1 \in Nat
  <2>1. k \in o..l /\ k \in Intact(p, "iis") /\ f[k].ts \in Nat
    BY <1>1, TakenFacts DEF Taken
  <2> QED BY ONLY <2>1, o \in Nat \ {0}
<1> DEFINE B == Taken(p, o, k - 1)
           x == Chunk(p, o, k)
<1>3. /\ x[2].t = f[k].ts
      /\ x[1].t = IF B = {} THEN f[k].ts - 1 ELSE f[Max(B)].ts + 1
  <2>1. FitsOn(p, o, k, x)
    BY <1>2, SampleChunk
  <2>2. x[2].t = f[k].ts
    BY ONLY <2>1, Zenon DEF FitsOn, Latest, f
  <2>3. x[1].t = IF B = {} THEN f[k].ts - 1 ELSE f[Max(B)].ts + 1
    BY <1>2, SampleChunk
  <2> QED BY ONLY <2>2, <2>3, Zenon
<1>4. \A j \in B : /\ j \in Nat /\ j <= k - 1 /\ j \in Intact(p, "iis") /\ f[j].ts \in Nat
                   /\ f[j].ts + 2 <= f[k].ts /\ j \in 1..Len(f)
  <2> TAKE j \in B
  <2>1. j \in Nat /\ j <= k - 1 /\ j \in Intact(p, "iis") /\ f[j].ts \in Nat
    BY <1>2, TakenFacts
  <2>2. j < k /\ j \in 1..Len(f)
    <3>1. j < k
      BY ONLY <1>2, <2>1
    <3> QED BY <2>1, <3>1 DEF Intact, Record
  <2> QED BY <1>2, <2>1, <2>2 DEF Ascends
<1>5. \A i, j \in 1..Len(f) : i <= j => f[i].ts <= f[j].ts
  BY DEF Ascends
<1> HIDE DEF B, x, f
<1>6. x[1].t \in Int /\ x[1].t <= f[k].ts /\ \A j \in B : f[j].ts <= x[1].t
  <2>1. CASE B = {}
    BY ONLY <1>2, <1>3, <2>1
  <2>2. CASE B # {}
    <3>1. B \in SUBSET Nat /\ \A j \in B : j <= k - 1
      BY <1>4
    <3>2. PICK M \in B : M = Max(B) /\ \A j \in B : j <= M
      BY <1>2, <2>2, <3>1, MaxIsMember
    <3>3. x[1].t = f[M].ts + 1 /\ f[M].ts \in Nat /\ f[M].ts + 2 <= f[k].ts /\ M \in 1..Len(f)
      BY <1>3, <1>4, <2>2, <3>2
    <3>4. ASSUME NEW j \in B PROVE f[j].ts <= x[1].t
      <4>1. f[j].ts <= f[M].ts /\ f[j].ts \in Nat
        BY <1>4, <1>5, <3>2, <3>3
      <4> QED BY ONLY <3>3, <4>1
    <3>5. x[1].t \in Int /\ x[1].t <= f[k].ts
      BY ONLY <1>2, <3>3
    <3> QED BY <3>4, <3>5
  <2> QED BY <2>1, <2>2
<1>7. x[2].t \in Int /\ x[2].t <= f[k].ts /\ \A j \in B : f[j].ts <= x[2].t
  <2>1. \A j \in B : f[j].ts <= f[k].ts
    BY ONLY <1>2, <1>4
  <2> QED BY ONLY <1>2, <1>3, <2>1
<1>8. v.nth = 1 \/ v.nth = 2
  OBVIOUS
<1>9. v = x[1] \/ v = x[2]
  BY ONLY <1>1, <1>8, Zenon DEF x
<1>10. v.nth = 2 => v = x[2]
  BY ONLY <1>1, Zenon DEF x
<1>11. /\ v.t \in Int /\ v.t <= f[k].ts /\ \A j \in B : f[j].ts <= v.t
       /\ v.nth = 2 => v.t = f[k].ts
  BY ONLY <1>3, <1>6, <1>7, <1>9, <1>10, Zenon
<1> QED BY ONLY <1>1, <1>11, Zenon DEF B, f

\* Samples in the order of the file are in the order of time, if they are of one boot.
LEMMA PlacesInTime ==
  ASSUME NEW p, Record(p), Ascends(p), NEW o \in Nat \ {0}, NEW l \in Nat,
         NEW u \in SampleRecords, NEW v \in SampleRecords, Genuine(p, o, l, u), Genuine(p, o, l, v),
         Place(u) < Place(v)
  PROVE  u.t <= v.t
<1>1. PICK i \in Nat, j \in Nat, a \in 1..2, b \in 1..2 : i = u.of /\ j = v.of /\ a = u.nth /\ b = v.nth
  BY DEF SampleRecords
<1>2. /\ u.t \in Int /\ u.t <= Frames(p)[i].ts
      /\ v.t \in Int /\ (b = 2 => v.t = Frames(p)[j].ts)
      /\ \A m \in Taken(p, o, j - 1) : Frames(p)[m].ts <= v.t
  <2>1. u.nth \in 1..2 /\ v.nth \in 1..2
    BY <1>1
  <2> QED BY <1>1, <2>1, SampleTimes
<1>3. 2 * i + a < 2 * j + b
  BY <1>1 DEF Place
<1>4. i \in Taken(p, o, l) /\ Frames(p)[i].ts \in Nat
  BY <1>1, TakenFacts DEF Genuine
<1>5. CASE i < j
  <2>1. i \in o..(j - 1)
    <3>1. i \in o..l
      BY <1>4 DEF Taken
    <3> QED BY ONLY <1>5, <3>1, i \in Nat, j \in Nat, o \in Nat \ {0}, l \in Nat
  <2>2. i \in Taken(p, o, j - 1)
    BY <1>4, <2>1 DEF Taken
  <2>3. Frames(p)[i].ts <= v.t
    BY <1>2, <2>2
  <2> QED BY ONLY <1>2, <1>4, <2>3
<1>6. CASE ~ (i < j)
  <2>1. i = j /\ b = 2
    BY ONLY <1>3, <1>6, i \in Nat, j \in Nat, a \in 1..2, b \in 1..2
  <2> QED BY ONLY <1>2, <2>1
<1> QED BY <1>5, <1>6

\* The store's last chunk is that of the last frame applied.
LEMMA StoreEnds ==
  ASSUME content \in Archives, NEW p \in Paths, NEW d, InFile(p, d), NEW c, Stored(p, d, c),
         NEW M \in Applied(p, d, "iis"), M = Max(Applied(p, d, "iis"))
  PROVE  /\ c # <<>> /\ Latest(Last(c)) = Frames(p)[M].ts /\ Frames(p)[M].ts \in Nat
         /\ \A i \in Applied(p, d, "iis") :
              (\A m \in Applied(p, d, "iis") : m > i => Frames(p)[m].ts - Retention <= Frames(p)[i].ts)
                => \E j \in 1..Len(c) : /\ Last(c[j]).of = i /\ Last(c[j]).nth = 2
                                        /\ Latest(c[j]) = Frames(p)[i].ts
<1> DEFINE A == Applied(p, d, "iis")
           f == Frames(p)
<1>1. PICK o \in Nat \ {0}, l \in Nat : o = d.first /\ l = d.done
  BY InFileFacts
<1>2. Kept(p, o, l, c) /\ A = Taken(p, o, l) /\ Record(p)
  BY <1>1, StoredIsKept, FileRecord DEF Applied, Taken
<1>3. \A j \in 1..Len(c) : Latest(c[j]) = f[Last(c[j]).of].ts
  BY <1>2, ChunkEnds
<1>4. /\ Chained(c) /\ \A j \in 1..Len(c) : Last(c[j]).nth = 2
      /\ c # <<>> => Last(Last(c)).of = M
      /\ \A i \in A : (\A m \in A : m > i => f[m].ts - Retention <= f[i].ts) =>
           \E j \in 1..Len(c) : Last(c[j]).of = i
  BY <1>2 DEF Kept
<1>5. A \in SUBSET Nat /\ (\A m \in A : m <= l) /\ \A m \in A : f[m].ts \in Nat
  BY <1>2, TakenFacts
<1>6. M \in A /\ \A m \in A : m <= M
  BY <1>5, MaxIsMember
<1> HIDE DEF A, f
<1>7. \A i \in A : (\A m \in A : m > i => f[m].ts - Retention <= f[i].ts) =>
        \E j \in 1..Len(c) : Last(c[j]).of = i /\ Last(c[j]).nth = 2 /\ Latest(c[j]) = f[i].ts
  <2> SUFFICES ASSUME NEW i \in A, \A m \in A : m > i => f[m].ts - Retention <= f[i].ts
               PROVE  \E j \in 1..Len(c) : Last(c[j]).of = i /\ Last(c[j]).nth = 2 /\ Latest(c[j]) = f[i].ts
    OBVIOUS
  <2>1. PICK j \in 1..Len(c) : Last(c[j]).of = i
    BY ONLY <1>4, i \in A, \A m \in A : m > i => f[m].ts - Retention <= f[i].ts, Zenon
  <2>2. Latest(c[j]) = f[i].ts
    BY ONLY <1>3, <2>1, Zenon
  <2>3. Last(c[j]).nth = 2
    BY ONLY <1>4, Zenon
  <2> QED BY ONLY <2>1, <2>2, <2>3, Zenon
<1>8. \A m \in A : ~ (m > M)
  <2> TAKE m \in A
  <2>1. m \in Nat /\ M \in Nat /\ m <= M
    BY <1>5, <1>6
  <2> QED BY ONLY <2>1
<1>9. PICK j \in 1..Len(c) : Last(c[j]).of = M
  BY ONLY <1>4, <1>6, <1>8, Zenon
<1>10. PICK n \in Nat : n = Len(c) /\ c \in Seq(Seq(SampleRecords))
  BY <1>4, ChainFacts
<1>11. n \in 1..n /\ c # <<>>
  BY <1>9, <1>10
<1>12. Last(c) = c[n]
  BY <1>10 DEF Last
<1>13. Latest(c[n]) = f[M].ts
  <2>1. n \in 1..Len(c)
    BY <1>10, <1>11
  <2>2. Last(c[n]).of = M
    BY <1>4, <1>11, <1>12
  <2> QED BY ONLY <1>3, <2>1, <2>2, Zenon
<1>14. f[M].ts \in Nat
  BY <1>5, <1>6
<1> QED BY ONLY <1>7, <1>11, <1>12, <1>13, <1>14, Zenon DEF A, f

LEMMA ShownIs == Shown = WindowArrays(chunks, window)
BY DEF Shown, Snapshot

LEMMA DisplayImplies == ViewInv /\ DisplayInv => DisplayIsFaithful
<1> SUFFICES ASSUME ViewInv, DisplayInv, filled PROVE DisplayIsFaithful
  BY DEF DisplayIsFaithful
<1>1. /\ content \in Archives /\ window \in Windows /\ filled \in BOOLEAN
      /\ file # None /\ Displays(file, decoder, chunks, attitude, from, playhead, filled)
  BY DisplayIs
<1>2. PICK p \in Paths : p = file
  BY <1>1 DEF ViewInv
<1>3. /\ Decodes(p, decoder, from, playhead, TRUE) /\ Stored(p, decoder, chunks)
      /\ Applied(p, decoder, "jy") # {} => attitude = Max(Applied(p, decoder, "jy"))
  BY <1>1, <1>2 DEF Displays, Decodes
<1>4. window \in Nat /\ window <= Retention /\ Retention \in Nat
  <2>1. window \in 1..Retention
    BY <1>1, PlaybackAssumption
  <2> QED BY <2>1, SampleStoreAssumption
<1>5. Played("iis") = Applied(p, decoder, "iis") /\ Played("jy") = Applied(p, decoder, "jy")
  <2>1. "iis" \in {"iis", "jy"} /\ "jy" \in {"iis", "jy"}
    OBVIOUS
  <2> QED BY <1>1, <1>2, <1>3, <2>1, PlayedIsApplied
<1>6. Chained(chunks)
  BY <1>3, StoredIsKept DEF Kept
<1>6a. PICK o \in Nat \ {0}, l \in Nat : o = decoder.first /\ l = decoder.done /\ InFile(p, decoder)
  <2>1. InFile(p, decoder)
    BY <1>3 DEF Decodes
  <2> QED BY <2>1, InFileFacts
<1>6b. Record(p) /\ Kept(p, o, l, chunks) /\ Applied(p, decoder, "iis") = Taken(p, o, l)
  BY <1>1, <1>3, <1>6a, StoredIsKept, FileRecord DEF Applied, Taken
<1>7. /\ Shown \in Seq(SampleRecords) /\ DOMAIN Shown = 1..Len(Shown) /\ Len(Shown) \in Nat
      /\ InOrder(Shown) /\ \A k \in 1..Len(Shown) : Genuine(p, o, l, Shown[k])
  <2>1. CASE chunks = <<>>
    <3>1. Shown = <<>>
      BY <2>1, ShownIs DEF WindowArrays
    <3> QED BY <3>1 DEF InOrder
  <2>2. CASE chunks # <<>>
    <3>1. Window(chunks, Latest(Last(chunks)) - window, Len(chunks), Shown)
      BY <1>4, <1>6, <2>2, WindowFacts, ShownIs
    <3>2. Shown \in Seq(SampleRecords) /\ InOrder(Shown) /\ \A k \in 1..Len(Shown) : Sampled(chunks, Len(chunks), Shown[k])
      BY <3>1 DEF Window
    <3>3. \A k \in 1..Len(Shown) : Genuine(p, o, l, Shown[k])
      BY ONLY <1>6b, <3>2, Zenon DEF Kept, Sampled
    <3> QED BY <3>2, <3>3
  <2> QED BY <2>1, <2>2
<1>8. KeepsPeaks(Shown)
  BY <1>7, PeaksKept
<1>9. \A k \in 1..Len(Shown) : /\ Shown[k] \in SampleRecords /\ Shown[k].of \in Taken(p, o, l)
                               /\ k > 1 => k - 1 \in 1..Len(Shown) /\ Place(Shown[k - 1]) < Place(Shown[k])
  <2> TAKE k \in 1..Len(Shown)
  <2>1. Shown[k] \in SampleRecords
    BY ONLY <1>7, k \in 1..Len(Shown)
  <2>2. Shown[k].of \in Taken(p, o, l)
    BY <1>7 DEF Genuine
  <2>3. ASSUME k > 1 PROVE k - 1 \in 1..Len(Shown) /\ Place(Shown[k - 1]) < Place(Shown[k])
    <3>1. k - 1 \in 1..Len(Shown) /\ k - 1 < k
      BY ONLY <1>7, <2>3, k \in 1..Len(Shown)
    <3>2. Place(Shown[k - 1]) < Place(Shown[k])
      BY ONLY <1>7, <3>1, k \in 1..Len(Shown), Zenon DEF InOrder
    <3> QED BY <3>1, <3>2
  <2> QED BY <2>1, <2>2, <2>3
<1>10. ASSUME Played("iis") # {} PROVE ShowsWindow(Shown)
  <2> DEFINE A == Applied(p, decoder, "iis")
             f == Frames(p)
             M == Max(A)
             reached(i) == /\ f[i].ts >= f[M].ts - window
                           /\ \A m \in A : m > i => f[i].ts >= f[m].ts - Retention
  <2>1. /\ A \in SUBSET Nat /\ (\A m \in A : m <= l) /\ \A m \in A : f[m].ts \in Nat
    BY <1>6b, TakenFacts
  <2>2. M \in A
    BY <1>5, <1>10, <2>1, MaxIsMember
  <2>3. /\ chunks # <<>> /\ Latest(Last(chunks)) = f[M].ts /\ f[M].ts \in Nat
        /\ \A i \in A : (\A m \in A : m > i => f[m].ts - Retention <= f[i].ts) =>
             \E j \in 1..Len(chunks) : /\ Last(chunks[j]).of = i /\ Last(chunks[j]).nth = 2
                                       /\ Latest(chunks[j]) = f[i].ts
    <3> HIDE DEF A, f, M
    <3>1. M \in Applied(p, decoder, "iis") /\ M = Max(Applied(p, decoder, "iis"))
      BY <2>2 DEF M, A
    <3> QED BY ONLY <1>1, <1>3, <1>6a, <3>1, p \in Paths, StoreEnds DEF A, f
  <2> HIDE DEF M
  <2>4. Window(chunks, f[M].ts - window, Len(chunks), Shown)
    BY <1>4, <1>6, <2>3, WindowFacts, ShownIs
  <2>5. \A j \in 1..Len(chunks) : Latest(chunks[j]) >= f[M].ts - window =>
          \E k \in 1..Len(Shown) : Shown[k] = Last(chunks[j])
    BY <2>4 DEF Window
  <2> HIDE DEF A, f
  <2>6. ASSUME NEW i \in A, reached(i)
        PROVE  Cardinality({k \in DOMAIN Shown : Shown[k].of = i /\ Shown[k].nth = 2}) = 1
    <3>1. f[i].ts \in Nat /\ f[M].ts \in Nat /\ f[i].ts >= f[M].ts - window
      BY <2>1, <2>3, <2>6
    <3>2. \A m \in A : m > i => f[m].ts - Retention <= f[i].ts
      <4> SUFFICES ASSUME NEW m \in A, m > i PROVE f[m].ts - Retention <= f[i].ts
        OBVIOUS
      <4>1. f[i].ts >= f[m].ts - Retention /\ f[m].ts \in Nat
        BY <2>1, <2>6
      <4> QED BY ONLY <1>4, <3>1, <4>1
    <3>3. PICK j \in 1..Len(chunks) : /\ Last(chunks[j]).of = i /\ Last(chunks[j]).nth = 2
                                      /\ Latest(chunks[j]) = f[i].ts
      BY <2>3, <3>2
    <3>4. PICK k \in 1..Len(Shown) : Shown[k] = Last(chunks[j])
      <4>1. Latest(chunks[j]) >= f[M].ts - window
        BY <3>1, <3>3
      <4> QED BY <2>5, <4>1
    <3>5. Shown[k].of = i /\ Shown[k].nth = 2
      BY <3>3, <3>4
    <3>6. ASSUME NEW m \in 1..Len(Shown), Shown[m].of = i, Shown[m].nth = 2 PROVE m = k
      <4>1. Place(Shown[m]) = 2 * i + 2 /\ Place(Shown[k]) = 2 * i + 2 /\ i \in Nat
        BY <2>1, <3>5, <3>6 DEF Place
      <4>2. (m < k => Place(Shown[m]) < Place(Shown[k])) /\ (k < m => Place(Shown[k]) < Place(Shown[m]))
        BY ONLY <1>7, m \in 1..Len(Shown), k \in 1..Len(Shown), Zenon DEF InOrder
      <4>3. ~ (m < k) /\ ~ (k < m)
        BY ONLY <4>1, <4>2
      <4> QED BY ONLY <1>7, <4>3, m \in 1..Len(Shown), k \in 1..Len(Shown)
    <3>7. {m \in DOMAIN Shown : Shown[m].of = i /\ Shown[m].nth = 2} = {k}
      BY ONLY <1>7, <3>5, <3>6, k \in 1..Len(Shown)
    <3> QED BY ONLY <3>7, FS_Singleton
  <2>7. \A k \in DOMAIN Shown : /\ Shown[k].of \in Played("iis")
                                /\ k > 1 => Place(Shown[k - 1]) < Place(Shown[k])
    BY ONLY <1>5, <1>6b, <1>7, <1>9, Zenon
  <2>8. Played("iis") = A /\ Frames(file) = f /\ M = Max(A)
    BY <1>2, <1>5 DEF A, f, M
  <2> QED BY ONLY <2>6, <2>7, <2>8, Zenon DEF ShowsWindow
<1>11. ASSUME OneBoot(Frames(file))
       PROVE  /\ Passed("iis") \subseteq Played("iis") /\ Passed("jy") \subseteq Played("jy")
              /\ InTimeOrder(Shown)
              /\ \A k \in DOMAIN Shown : Shown[k].t <= Cutoff(file, playhead)
  <2>1. Ascends(p)
    BY <1>2, <1>6b, <1>11, OneBootAscends
  <2>2. Passed("iis") \subseteq Played("iis") /\ Passed("jy") \subseteq Played("jy")
    <3>1. "iis" \in {"iis", "jy"} /\ "jy" \in {"iis", "jy"}
      OBVIOUS
    <3> QED BY <1>1, <1>2, <1>3, <1>5, <2>1, <3>1, PassedIsApplied
  <2>3. InTimeOrder(Shown)
    <3> SUFFICES ASSUME NEW k \in 1..Len(Shown), k > 1 PROVE Shown[k - 1].t <= Shown[k].t
      BY <1>7 DEF InTimeOrder
    <3>1. k - 1 \in 1..Len(Shown) /\ Place(Shown[k - 1]) < Place(Shown[k])
      BY <1>9
    <3>2. /\ Shown[k] \in SampleRecords /\ Shown[k - 1] \in SampleRecords
          /\ Genuine(p, o, l, Shown[k]) /\ Genuine(p, o, l, Shown[k - 1])
      BY <1>7, <1>9, <3>1
    <3> QED BY <1>6b, <2>1, <3>1, <3>2, PlacesInTime
  <2>4. ASSUME NEW k \in DOMAIN Shown PROVE Shown[k].t <= Cutoff(file, playhead)
    <3>1. PICK v : v = Shown[k] /\ v \in SampleRecords /\ Genuine(p, o, l, v)
      BY <1>7, <1>9
    <3>2. v.nth \in 1..2
      BY <3>1 DEF SampleRecords
    <3>3. v.t \in Int /\ v.t <= Frames(p)[v.of].ts
      BY <1>6b, <2>1, <3>1, <3>2, SampleTimes
    <3>4. v.of \in Applied(p, decoder, "iis")
      BY <1>6b, <3>1 DEF Genuine
    <3>5. Due(p, v.of, playhead) /\ Frames(p)[v.of].ts \in Nat
      <4>1. v.of \in Sensor(p) \cap (decoder.first..decoder.done) /\ v.of \in Intact(p, "iis")
        BY <3>4 DEF Applied, Sensor
      <4>2. Due(p, v.of, playhead)
        BY <1>3, <4>1 DEF Decodes
      <4> QED BY <1>6b, <4>1, <4>2 DEF Record, Intact
    <3>6. Cutoff(p, playhead) \in Nat
      <4>1. playhead \in 0..Duration(p) /\ FirstTimestamp(p) \in Nat
        BY <1>1, <1>3, TimeFacts DEF Decodes
      <4> QED BY <4>1 DEF Cutoff
    <3>7. Frames(p)[v.of].ts <= Cutoff(p, playhead)
      BY <3>5 DEF Due
    <3>8. v.t <= Cutoff(p, playhead)
      BY ONLY <3>3, <3>5, <3>6, <3>7
    <3> QED BY <1>2, <3>1, <3>8
  <2> QED BY <2>2, <2>3, <2>4
<1>12. Played("jy") # {} => attitude = Max(Played("jy"))
  BY <1>3, <1>5
<1> QED BY <1>8, <1>10, <1>11, <1>12 DEF DisplayIsFaithful

\* What PlaybackController shows is the file: for every archive, of one boot or of several,
\* every window, retention and point budget, wherever the user seeked and however the ticks
\* fell, each vibration frame from the restart to the first frame that is not due, if the
\* window reaches it, is shown exactly once and in the order of the file, nothing else is,
\* the attitude is the last such one, and the budget keeps the peaks; in the record of one
\* boot nothing passed is withheld, and what is shown is in the order of time and ends
\* at the playhead (_fill_until, _restart_decoder, RealtimeSampleStore.snapshot).
THEOREM DisplayFaithful == Spec => []DisplayIsFaithful
<1>1. Init => ViewInv /\ DisplayInv
  BY InitViewInv, InitDisplay
<1>2. ViewInv /\ DisplayInv /\ [Next]_vars => (ViewInv /\ DisplayInv)'
  BY NextViewInv, NextDisplay
<1>3. ViewInv /\ DisplayInv => DisplayIsFaithful
  BY DisplayImplies
<1> QED
  BY <1>1, <1>2, <1>3, PTL DEF Spec
=============================================================================
